---------------------------- MODULE ModelCatalog ----------------------------
(***************************************************************************)
(* Verification of the configured models against the catalogs of their     *)
(* backends (providers/model_catalog.py), as RoutingEngine runs it at      *)
(* startup and for each health read (routing/engine.py).                   *)
(*                                                                         *)
(* A verification loads one catalog after another and awaits each: a step  *)
(* here is the work on one backend.  The catalogs belong to the backends   *)
(* and change at any moment, and health reads overlap.                     *)
(*                                                                         *)
(* A model id is its text without the prefix "models/", and whether it has *)
(* that prefix.                                                            *)
(***************************************************************************)
EXTENDS Listing

CONSTANTS
    Backends,
    Google,             \* the backend whose ids carry the prefix "models/"
    Texts,              \* model ids, less that prefix
    Configurations,     \* the target lists that build_engine may make
    CatalogChoices,     \* what a backend may list
    Startup,            \* the verification at startup
    Reads               \* the health reads

ModelIds == [text : Texts, prefixed : BOOLEAN]

\* One target per router and per configured provider, the disabled included.
\* "endpoint" says whether models_endpoint accepts its endpoint.
ModelVerificationTarget ==
    [name : STRING, backend : Backends, endpoint : BOOLEAN, model : ModelIds,
     role : {"router", "provider"}, enabled : BOOLEAN]

ASSUME CatalogAssumption ==
    /\ Google \in Backends
    /\ \A targets \in Configurations :
          /\ targets \in Seq(ModelVerificationTarget)
          /\ \A i, j \in DOMAIN targets :
                /\ targets[i].name = targets[j].name => i = j
                \* Settings has one endpoint and one API key per backend, so
                \* verify's test that the targets of a backend agree holds.
                /\ targets[i].backend = targets[j].backend
                   => targets[i].endpoint = targets[j].endpoint
    /\ CatalogChoices \subseteq SUBSET ModelIds
    /\ {} \notin CatalogChoices
    /\ Startup \notin Reads

\* The reasons of ModelCatalogError.
LoadErrors == {"backend_timeout", "backend_unreachable",
               "models_request_failed", "catalog_empty", "malformed_catalog"}

Reasons == LoadErrors \cup
    {"available", "model_not_found", "invalid_models_endpoint"}

VARIABLES
    targets,    \* the verifier's _targets
    catalogs,   \* what each backend lists now
    server,     \* "down", "starting", "serving" or "failed"
    reading,    \* per verification: "idle", "running", "done" or "broken"
    role,       \* the role a verification is restricted to, or "all"
    pending,    \* per verification: the backends still to be loaded
    results,    \* per verification: the results so far
    listed,     \* history: the ids each backend has listed during it
    fetched     \* history: the backends whose catalog it has asked for

vars == <<targets, catalogs, server, reading, role, pending, results,
          listed, fetched>>

Operations == Reads \cup {Startup}

TypeOK ==
    /\ targets \in Configurations
    /\ catalogs \in [Backends -> CatalogChoices]
    /\ server \in {"down", "starting", "serving", "failed"}
    /\ reading \in [Operations -> {"idle", "running", "done", "broken"}]
    /\ role \in [Operations -> {"all", "router", "provider"}]
    /\ pending \in [Operations -> Seq(Backends)]
    /\ results \in [Operations -> Seq([name : STRING, reason : Reasons])]
    /\ listed \in [Operations -> [Backends -> SUBSET ModelIds]]
    /\ fetched \in [Operations -> Seq(Backends)]

Init ==
    /\ targets \in Configurations
    /\ catalogs \in [Backends -> CatalogChoices]
    /\ server = "down"
    /\ reading = [op \in Operations |-> "idle"]
    /\ role = [op \in Operations |-> "all"]
    /\ pending = [op \in Operations |-> << >>]
    /\ results = [op \in Operations |-> << >>]
    /\ listed = [op \in Operations |-> [backend \in Backends |-> {}]]
    /\ fetched = [op \in Operations |-> << >>]

-----------------------------------------------------------------------------
(* Catalogs                                                                *)

\* Mutant of ResolveCatalogModelId: any backend's id may carry the prefix.
ResolveAnyPrefix(backend, model, catalog) ==
    \/ model \in catalog
    \/ [model EXCEPT !.prefixed = TRUE] \in catalog

\* Whether resolve_catalog_model_id finds the configured model.
ResolveCatalogModelId(backend, model, catalog) ==
    \/ model \in catalog
    \/ /\ backend = Google
       /\ [model EXCEPT !.prefixed = TRUE] \in catalog

\* The targets a verification is about, in their order.
Relevant(r) ==
    Filtered(targets, {target \in ToSet(targets) : r \in {"all", target.role}})

TargetsOf(op, backend) ==
    Filtered(Relevant(role[op]),
             {target \in ToSet(targets) : target.backend = backend})

\* The keys of targets_by_backend, in the order of their first targets.
BackendsOf(r) ==
    LET group == Relevant(r)
        backends == {group[i].backend : i \in 1..Len(group)}
    IN  Sorted(backends,
               {pair \in backends \X backends : \E i \in 1..Len(group) :
                   /\ group[i].backend = pair[1]
                   /\ \A j \in 1..i : group[j].backend # pair[2]})

\* Mutant of Failed: the reason is not passed on.
FailedUnexplained(group, reason) ==
    [i \in DOMAIN group |-> [name |-> group[i].name, reason |-> "failed"]]

\* The results of a group in which every target fails for one reason.
Failed(group, reason) ==
    [i \in DOMAIN group |-> [name |-> group[i].name, reason |-> reason]]

\* The results of a group against its backend's catalog.
Matched(group, catalog) ==
    [i \in DOMAIN group |->
        [name |-> group[i].name,
         reason |-> IF ResolveCatalogModelId(group[i].backend,
                                             group[i].model, catalog)
                    THEN "available" ELSE "model_not_found"]]

-----------------------------------------------------------------------------
(* A verification                                                          *)

Begin(op, r) ==
    /\ reading[op] = "idle"
    /\ reading' = [reading EXCEPT ![op] = "running"]
    /\ role' = [role EXCEPT ![op] = r]
    /\ pending' = [pending EXCEPT ![op] = BackendsOf(r)]
    /\ listed' = [listed EXCEPT ![op] = catalogs]
    /\ UNCHANGED <<targets, catalogs, results, fetched>>

\* verify_startup, awaited before the first request is served.
StartUp ==
    /\ server = "down"
    /\ server' = "starting"
    /\ Begin(Startup, "all")

\* router_health and provider_health.
ReadHealth(op, r) ==
    /\ op \in Reads
    /\ server = "serving"
    /\ Begin(op, r)
    /\ UNCHANGED server

\* The next backend's group has been judged.
Advance(op, group) ==
    /\ results' = [results EXCEPT ![op] = @ \o group]
    /\ pending' = [pending EXCEPT ![op] = Tail(@)]
    /\ UNCHANGED <<targets, catalogs, server, reading, role, listed>>

Working(op) ==
    /\ reading[op] = "running"
    /\ pending[op] # << >>

Ask(op) == fetched' = [fetched EXCEPT ![op] = Append(@, Head(pending[op]))]

\* An endpoint that does not end in /chat/completions fails without a request.
RejectEndpoint(op) ==
    /\ Working(op)
    /\ LET group == TargetsOf(op, Head(pending[op])) IN
          /\ ~group[1].endpoint
          /\ Advance(op, Failed(group, "invalid_models_endpoint"))
    /\ UNCHANGED fetched

\* The first target of the backend loads the catalog for all of them.
CatalogLoads(op) ==
    /\ Working(op)
    /\ LET backend == Head(pending[op])
           group == TargetsOf(op, backend)
       IN /\ group[1].endpoint
          /\ Advance(op, Matched(group, catalogs[backend]))
    /\ Ask(op)

\* load_model_catalog raises a ModelCatalogError: the group fails, the next
\* backend is loaded all the same.
CatalogFails(op, reason) ==
    /\ Working(op)
    /\ LET group == TargetsOf(op, Head(pending[op])) IN
          /\ group[1].endpoint
          /\ Advance(op, Failed(group, reason))
    /\ Ask(op)

\* An error that load_model_catalog does not name (a backend that drops the
\* connection is a httpx.RemoteProtocolError, no NetworkError) leaves verify.
CatalogBreaks(op) ==
    /\ Working(op)
    /\ TargetsOf(op, Head(pending[op]))[1].endpoint
    /\ reading' = [reading EXCEPT ![op] = "broken"]
    /\ server' = IF op = Startup THEN "failed" ELSE server
    /\ Ask(op)
    /\ UNCHANGED <<targets, catalogs, role, pending, results, listed>>

Available(op) ==
    \A i \in DOMAIN results[op] : results[op][i].reason = "available"

\* verify_startup raises if a model is unavailable, and nothing is served.
FinishStartup ==
    /\ reading[Startup] = "running"
    /\ pending[Startup] = << >>
    /\ reading' = [reading EXCEPT ![Startup] = "done"]
    /\ server' = IF Available(Startup) THEN "serving" ELSE "failed"
    /\ UNCHANGED <<targets, catalogs, role, pending, results, listed, fetched>>

FinishRead(op) ==
    /\ op \in Reads
    /\ reading[op] = "running"
    /\ pending[op] = << >>
    /\ reading' = [reading EXCEPT ![op] = "done"]
    /\ UNCHANGED <<targets, catalogs, server, role, pending, results, listed,
                   fetched>>

\* Mutant of Health: a disabled provider shows its model's availability.
HealthIgnoresDisabled(op) ==
    {[name |-> results[op][i].name,
      status |-> IF results[op][i].reason = "available" THEN "healthy"
                 ELSE "unhealthy"] : i \in DOMAIN results[op]}

\* What a health read answers; a disabled provider is offline.
Health(op) ==
    {[name |-> results[op][i].name,
      status |->
        IF \E j \in DOMAIN targets : /\ targets[j].name = results[op][i].name
                                     /\ ~targets[j].enabled
        THEN "offline"
        ELSE IF results[op][i].reason = "available" THEN "healthy"
        ELSE "unhealthy"] : i \in DOMAIN results[op]}

\* A backend changes its catalog, also while a verification awaits another.
ChangeCatalog(backend, catalog) ==
    /\ catalog # catalogs[backend]
    /\ catalogs' = [catalogs EXCEPT ![backend] = catalog]
    /\ listed' = [op \in Operations |->
                    IF reading[op] = "running"
                    THEN [listed[op] EXCEPT ![backend] = @ \cup catalog]
                    ELSE listed[op]]
    /\ UNCHANGED <<targets, server, reading, role, pending, results, fetched>>

-----------------------------------------------------------------------------
Verify(op) ==
    \/ RejectEndpoint(op)
    \/ CatalogLoads(op)
    \/ \E reason \in LoadErrors : CatalogFails(op, reason)
    \/ CatalogBreaks(op)

Next ==
    \/ StartUp
    \/ FinishStartup
    \/ \E op \in Operations : Verify(op)
    \/ \E op \in Reads :
          \/ \E r \in {"router", "provider"} : ReadHealth(op, r)
          \/ FinishRead(op)
    \/ \E backend \in Backends, catalog \in CatalogChoices :
          ChangeCatalog(backend, catalog)

Spec == Init /\ [][Next]_vars

-----------------------------------------------------------------------------
(* Properties                                                              *)

Ended(op) == reading[op] \in {"done", "broken"}

NamesIn(seq) == {seq[i].name : i \in DOMAIN seq}

\* The backend has listed the target's model during the verification.  Only
\* Google's ids may differ from the configured ones, by the prefix.
WasListed(op, target) ==
    LET seen == listed[op][target.backend]
        plain == [target.model EXCEPT !.prefixed = FALSE]
    IN \/ target.model \in seen
       \/ /\ target.backend = Google
          /\ \E id \in seen : id.prefixed /\ id.text = plain.text

\* The server answers requests only if each configured model, of a disabled
\* provider too, was in its backend's catalog at some moment of startup
\* (verify_startup): a model is never taken for another one's, although the
\* models of a backend share one catalog that may change meanwhile.
ServesVerifiedModels ==
    server = "serving" =>
        \A i \in DOMAIN targets : WasListed(Startup, targets[i])

\* A health read calls a model healthy only if its backend listed it while
\* the read ran and the provider is enabled, and it reports each router or
\* provider that was asked for once, whatever catalogs failed to load.
HealthHonest ==
    \A op \in Reads : reading[op] = "done" =>
        /\ \A answer \in Health(op) : answer.status = "healthy" =>
              \E i \in DOMAIN targets :
                 /\ targets[i].name = answer.name
                 /\ targets[i].enabled
                 /\ WasListed(op, targets[i])
        /\ NamesIn(results[op]) = NamesIn(Relevant(role[op]))
        /\ Len(results[op]) = Len(Relevant(role[op]))

\* "Each health operation fetches one catalog per relevant backend"
\* (API_Contracts): one that has ended has asked each.  It does not hold: an
\* error like that of CatalogBreaks ends the operation (README.md, section 4).
EachBackendFetched ==
    \A op \in Reads : Ended(op) =>
        ToSet(BackendsOf(role[op])) \subseteq ToSet(fetched[op])

=============================================================================
