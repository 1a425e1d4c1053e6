------------------------------ MODULE Dispatch ------------------------------
(***************************************************************************)
(* The profile registry, its compatibility with the ruleset, and the plan  *)
(* a decision is dispatched with (registry_loader.py, registry_models.py,  *)
(* runtime_compatibility.py, dispatcher.py), and what the HTTP adapter     *)
(* makes of a decision (http_api/router_adapter.py).                       *)
(*                                                                         *)
(* A registry document is [schema_version, items], items a list of         *)
(* [id, enabled, model]; "" stands for an id the pattern refuses and for a *)
(* blank model.  The system prompt and the descriptions have the life of   *)
(* the model field and are left out.                                       *)
(***************************************************************************)
EXTENDS Decision

SupportedRegistrySchema == <<1, 0>>

\* load_profile_registry_snapshot: the document is refused, or ...
ValidRegistry(doc) ==
    /\ doc.schema_version = SupportedRegistrySchema
    /\ doc.items # << >>
    /\ \A i \in DOMAIN doc.items : "" \notin {doc.items[i].id, doc.items[i].model}
    /\ \A i, j \in DOMAIN doc.items : doc.items[i].id = doc.items[j].id => i = j

\* ... becomes the profiles by id.
RegistrySnapshot(doc) ==
    [id \in {doc.items[i].id : i \in DOMAIN doc.items} |->
        LET p == CHOOSE i \in DOMAIN doc.items : doc.items[i].id = id
        IN  [enabled |-> doc.items[p].enabled, model |-> doc.items[p].model]]

\* validate_runtime_compatibility
Compatible(ruleset, registry) ==
    /\ \A r \in DOMAIN ruleset.routes :
           ruleset.routes[r].profile \in DOMAIN ruleset.profiles
    /\ DOMAIN ruleset.profiles = DOMAIN registry
    /\ \A p \in DOMAIN registry : ruleset.profiles[p] = registry[p].enabled

\* build_dispatch_plan
DispatchPlan(d, registry) ==
    CASE d.state \notin {"routed", "explicit"} ->
             Raised("NON_DISPATCHABLE_DECISION")
      [] d.profile = None \/ (d.state = "routed") = (d.route_id = None) ->
             Raised("INVALID_ROUTE_DECISION")
      [] d.profile \notin DOMAIN registry -> Raised("PROFILE_NOT_FOUND")
      [] ~ registry[d.profile].enabled -> Raised("PROFILE_DISABLED")
      [] OTHER -> [profile_id |-> d.profile, model |-> registry[d.profile].model,
                   source_state |-> d.state, route_id |-> d.route_id]

PublicError(status, code) == [status |-> status, code |-> code]

\* route_prompt_request, then build_dispatch_plan when it returned a decision:
\* the error the client sees, or the plan the executor is given
Answer(decision, registry) ==
    IF Failed(decision)
    THEN IF decision.error = "INVALID_PROFILE"
         THEN PublicError(422, "INVALID_PROFILE")
         ELSE PublicError(500, "INTERNAL_ERROR")
    ELSE CASE decision.state = "ambiguous" -> PublicError(409, "AMBIGUOUS_ROUTE")
           [] decision.state = "unrouted"  -> PublicError(422, "UNROUTED")
           [] OTHER -> LET plan == DispatchPlan(decision, registry)
                       IN  IF Failed(plan) THEN PublicError(500, "INTERNAL_ERROR")
                                           ELSE plan
=============================================================================
