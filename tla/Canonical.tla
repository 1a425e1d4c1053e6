------------------------------ MODULE Canonical ------------------------------
(***************************************************************************)
(* The identity of a configuration: the canonical form and the hash of the *)
(* ruleset (canonical.py) and of the profile registry                      *)
(* (registry_canonical.py), and the registry snapshot's own checks         *)
(* (registry_models.py), across starts of the service between which an     *)
(* operator edits the files.                                               *)
(*                                                                         *)
(* The documents are those of module Admission, with the switch            *)
(* accent_insensitive_matching of config/router.yaml beside the weights;   *)
(* documents that stay valid under every edit are enough here, what is     *)
(* refused being the subject of Router.  The canonical JSON and its        *)
(* SHA-256 are taken to tell different payloads apart, so that a payload   *)
(* is its own hash.  Ids other than those of routes are ordered by Rank.   *)
(***************************************************************************)
EXTENDS Admission, Dispatch

CONSTANTS
    Documents,   \* the ruleset documents of the first deployment
    Registry,    \* and its registry document
    Rank,        \* the lexicographic order of the ids, as numbers
    Edit(_, _),  \* the files an edit other than of order may leave
    Requests,    \* [message, explicit_profile, accented]
    MaxEdits     \* bound: edits in a behaviour

\* Strings have one order.
ASSUME RankAssumption ==
    \A a, b \in DOMAIN Rank : Rank[a] \in Int /\ (Rank[a] = Rank[b] => a = b)

VARIABLES
    deployed,  \* the files: [ruleset, registry]
    running,   \* what the service runs, None before the first start
    edits      \* how often the files were edited

canonical_vars == <<deployed, running, edits>>

-----------------------------------------------------------------------------
(* Canonical forms                                                         *)

Listed(items) == {items[i] : i \in DOMAIN items}

\* sorted(items, key=lambda item: item.id), of items told apart by their ids
SortedBy(items, key) ==
    LET place == CHOOSE p \in [DOMAIN items -> DOMAIN items] :
                     \A i, j \in DOMAIN items :
                         i < j => key[items[p[i]].id] < key[items[p[j]].id]
    IN  [i \in DOMAIN items |-> items[place[i]]]

Sorted(items) == SortedBy(items, Rank)

SortedRoutes(items) == SortedBy(items, [id \in Ids(items) |-> id])

\* A mutant: evidence stays in the order of the file.
CanonicalTargetsUnsorted(targets) == Sorted(targets)

\* _canonical_domain, _canonical_intent
CanonicalTarget(t) == [t EXCEPT !.evidence = Sorted(t.evidence)]

CanonicalTargets(targets) ==
    [i \in DOMAIN targets |-> CanonicalTarget(Sorted(targets)[i])]

\* A mutant: config/router.yaml is no part of it.
CanonicalPayloadNoRouter(d) ==
    [schema_version  |-> d.config.schema_version,
     ruleset_version |-> d.profiles.ruleset_version,
     profiles        |-> Sorted(d.profiles.items),
     domains         |-> CanonicalTargets(d.domains.items),
     intents         |-> CanonicalTargets(d.intents.items),
     routes          |-> SortedRoutes(d.routing.items)]

CanonicalPayload(d) ==
    [schema_version  |-> d.config.schema_version,
     ruleset_version |-> d.profiles.ruleset_version,
     router          |-> [d.config EXCEPT !.schema_version = None],
     profiles        |-> Sorted(d.profiles.items),
     domains         |-> CanonicalTargets(d.domains.items),
     intents         |-> CanonicalTargets(d.intents.items),
     routes          |-> SortedRoutes(d.routing.items)]

\* canonical_registry_payload
CanonicalProfiles(doc) == Sorted(doc.items)

RegistryPayload(doc) ==
    [schema_version |-> doc.schema_version, profiles |-> CanonicalProfiles(doc)]

\* The validators of ProfileRegistrySnapshot
AcceptedRegistry(profiles, profile_ids) ==
    /\ profiles # << >>
    /\ \A i \in 1..(Len(profiles) - 1) :
           Rank[profiles[i].id] < Rank[profiles[i + 1].id]
    /\ profile_ids = [i \in DOMAIN profiles |-> profiles[i].id]

-----------------------------------------------------------------------------
CanonicalInit ==
    /\ deployed = [ruleset |-> Documents, registry |-> Registry]
    /\ running = None
    /\ edits = 0

\* create_ruleset_snapshot and create_profile_registry_snapshot, once the files
\* are admitted and fit each other
Running(files) ==
    [files |-> files,
     ruleset_hash  |-> CanonicalPayload(files.ruleset),
     registry_hash |-> RegistryPayload(files.registry),
     ruleset  |-> RulesetSnapshot(files.ruleset),
     registry |-> RegistrySnapshot(files.registry)]

\* What parsing makes of the files: config/router.yaml has its settings, an item its
\* fields, and an id is a string, which has a rank.
Settings ==
    [schema_version : Seq(Nat), expected_major_version : Int,
     accent_insensitive_matching : BOOLEAN,
     router : [strong : Int, medium : Int, weak : Int, minimum_score : Int,
               minimum_margin : Int, weak_only_cannot_qualify : BOOLEAN]]

Parsed(files) ==
    LET d == files.ruleset
    IN  /\ ParsedDocument(d) /\ IsList(files.registry.items)
        /\ d.config \in Settings
        /\ \A t \in Listed(d.domains.items) : {"id", "evidence"} \subseteq DOMAIN t
        /\ \A t \in Listed(d.intents.items) :
               {"id", "route_capable", "evidence"} \subseteq DOMAIN t
        /\ \A items \in {d.profiles.items, d.domains.items, d.intents.items,
                         files.registry.items} :
               Ids(items) \subseteq DOMAIN Rank
        /\ \A t \in Listed(d.domains.items) \cup Listed(d.intents.items) :
               Ids(t.evidence) \subseteq DOMAIN Rank

Admitted(files) ==
    /\ Parsed(files)
    /\ ValidRuleset(files.ruleset) /\ ValidRegistry(files.registry)
    /\ Compatible(RulesetSnapshot(files.ruleset), RegistrySnapshot(files.registry))

AcceptedSnapshot(files) ==
    LET profiles == CanonicalProfiles(files.registry)
    IN  AcceptedRegistry(profiles, [i \in DOMAIN profiles |-> profiles[i].id])

\* A start either comes up or leaves nothing running.
Bootstrap ==
    /\ running' = IF Admitted(deployed) /\ AcceptedSnapshot(deployed)
                  THEN Running(deployed) ELSE None
    /\ UNCHANGED <<deployed, edits>>

\* An operator moves an item of a list past the next one, ...
Swapped(s) == {[s EXCEPT ![i] = s[i + 1], ![i + 1] = s[i]] : i \in 1..(Len(s) - 1)}

Lists == {"profiles", "domains", "intents", "routing"}

Reordered(files) ==
    UNION {{[files EXCEPT !.ruleset[l].items = s] : s \in Swapped(files.ruleset[l].items)} :
              l \in Lists}
    \cup {[files EXCEPT !.registry.items = s] : s \in Swapped(files.registry.items)}
    \cup UNION {{[files EXCEPT !.ruleset[l].items[1].evidence = s] :
                    s \in Swapped(files.ruleset[l].items[1].evidence)} :
                   l \in {"domains", "intents"}}

EditFiles(files) ==
    /\ edits < MaxEdits
    /\ deployed' = files
    /\ edits' = edits + 1
    /\ UNCHANGED running

Reorder == \E files \in Reordered(deployed) : EditFiles(files)

\* ... or changes what one of them says.
Change == \E files \in Edit(deployed.ruleset, deployed.registry) : EditFiles(files)

CanonicalNext == Bootstrap \/ Reorder \/ Change

CanonicalSpec == CanonicalInit /\ [][CanonicalNext]_canonical_vars

-----------------------------------------------------------------------------
(* Properties                                                              *)

\* What a configuration says, whatever the order it is written in.
Unordered(t) == [t EXCEPT !.evidence = EvidenceOf(t)]

Meaning(files) ==
    LET r == files.ruleset
    IN  [config   |-> r.config,
         version  |-> r.profiles.ruleset_version,
         profiles |-> Listed(r.profiles.items),
         domains  |-> {Unordered(t) : t \in Listed(r.domains.items)},
         intents  |-> {Unordered(t) : t \in Listed(r.intents.items)},
         routes   |-> Listed(r.routing.items)]

Started == running # None /\ running' # None

\* Two starts report the same ruleset hash exactly when the rules say the same: the
\* order of the lists in the YAML files never shows, any change of what they say
\* always does (canonical.py:46-89, docs/CONFIGURATION.md:92).
RulesetHashFollowsMeaning ==
    [][Started => (running'.ruleset_hash = running.ruleset_hash
                     <=> Meaning(running'.files) = Meaning(running.files))]_canonical_vars

\* Two starts with the same two hashes answer every request alike, with the same
\* profile and model: the hashes are all an operator has to compare
\* (canonical.py:112-178, registry_canonical.py:70-103).
SameAnswers ==
    \A q \in Requests :
        Answer(DecideRoute(q, running'.ruleset), running'.registry)
            = Answer(DecideRoute(q, running.ruleset), running.registry)

SameHashSameAnswers ==
    [][Started /\ running'.ruleset_hash = running.ruleset_hash
               /\ running'.registry_hash = running.registry_hash => SameAnswers]_canonical_vars

\* docs/ARCHITECTURE.md:70-78: config/router.yaml defines the normative parameters
\* of the engine, normalisation among them; with accent_insensitive_matching off, an
\* accented evidence does not match a message spelled without accents, or the
\* reverse.
AccentSettingRespected ==
    running # None /\ ~running.files.ruleset.config.accent_insensitive_matching =>
        \A q \in Requests, t \in DOMAIN running.ruleset.intents :
            \A e \in Matched(q.message, running.ruleset.intents[t].evidence) :
                e.value.accented = q.accented
=============================================================================
