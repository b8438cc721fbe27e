---------------------------- MODULE ControlPlane ----------------------------
(***************************************************************************)
(* Tenant policies and governance (control_plane/), administered through   *)
(* the API while chat requests are under way.  A request resolves its      *)
(* candidates when it starts a round of the router ladder, awaits a router *)
(* and then, one after the other, the providers; the administration runs   *)
(* at those awaits.  What a request resolved is thus a copy of versions    *)
(* that may have been superseded when a provider is called.                *)
(*                                                                         *)
(* Left to other modules: the conversation's budget and exclusions         *)
(* (Conversation; here a retry excludes some providers and may see RETRY   *)
(* MaxRounds times), circuits and the deadline (RoutingEngine).            *)
(***************************************************************************)
EXTENDS Integers, FiniteSets, SequencesExt, Listing

CONSTANTS
    Tenants,
    NoTenant,           \* a V1 request
    PolicyIds,
    NoPolicy,           \* no policy_id in the context, no active pointer
    LegacyBalanced,     \* the policy id of the built-in policy
    PolicyKinds,        \* the kinds a policy is created with
    SortKey,            \* for each kind that scores: what it sorts ids by
    GovernanceRules,    \* the constraints of the governance updates
    Contexts,           \* routing_context
    NoRegion,
    Requests,
    Exclusions,         \* bound: what a retry may exclude
    Ids, TaskGroups, Multimodal, Priorities,    \* see ModelRegistry
    Configs,            \* the registry's providers, by id
    RegistryOrder,      \* and the order they were configured in
    Regions,            \* regions of each provider, {} for any
    Classifications,    \* supported_data_classifications of each
    MaxVersions,        \* bound: a tenant's stored policy versions, and
                        \* its governance versions
    MaxRounds           \* bound: RETRY decisions that a request sees

\* The registry after start-up: nothing in the program changes it.
Registry == INSTANCE ModelRegistry WITH
    providers <- Configs, order <- RegistryOrder

Providers == DOMAIN Configs

ASSUME ControlPlaneAssumption ==
    /\ NoTenant \notin Tenants
    /\ NoPolicy \notin PolicyIds /\ LegacyBalanced \in PolicyIds
    /\ Ids \subseteq Nat \ {0}
    /\ Multimodal \in TaskGroups /\ Priorities \subseteq Nat
    /\ Providers \subseteq Ids
    /\ Configs \in [Providers -> Registry!ProviderConfig]
    /\ RegistryOrder \in Seq(Providers)
    /\ ToSet(RegistryOrder) = Providers /\ IsInjective(RegistryOrder)
    /\ \A kind \in DOMAIN SortKey : SortKey[kind] \in [Providers -> Int]
    /\ Contexts # {}
    /\ \A context \in Contexts :
          context.policy_id \in PolicyIds \cup {NoPolicy}
    /\ Exclusions \subseteq SUBSET Providers /\ {} \in Exclusions
    /\ MaxVersions \in Nat /\ MaxRounds \in Nat

VARIABLES
    policies,       \* PolicyRepository._versions
    active,         \* PolicyRepository._active
    governance,     \* GovernanceRepository._versions
    audit,          \* PolicyAuditRepository._records
    stage,          \* where each request is
    request,        \* what it asked: tenant, context, retry, image, excluded
    candidate_set,  \* what its last round resolved
    recorded,       \* policy_audit_recorded
    rounds,         \* RETRY decisions it has seen
    queue,          \* candidates not yet tried, the present one first
    result,         \* how it ended
    answered,       \* the provider whose answer it got
    since           \* history: governance versions when its round began

adminVars == <<policies, active, governance>>
vars == <<adminVars, audit, stage, request, candidate_set, recorded, rounds,
          queue, result, answered, since>>

Asked == [tenant : Tenants \cup {NoTenant}, context : Contexts,
          retry : BOOLEAN, image : BOOLEAN, excluded : Exclusions]

NoRequest == [tenant |-> NoTenant, context |-> CHOOSE c \in Contexts : TRUE,
              retry |-> FALSE, image |-> FALSE, excluded |-> {}]

NoCandidates == [policy_id |-> LegacyBalanced, policy_version |-> 1,
                 governance_version |-> 1, providers |-> << >>,
                 exclusions |-> {}]

Results == {"none", "ANSWER", "STOP", "POLICY_NOT_FOUND",
            "GOVERNANCE_POLICY_DENIED", "ENDED"}

NoProvider == 0

TypeOK ==
    /\ policies \in [Tenants -> [PolicyIds ->
                        Seq([kind : PolicyKinds, active : BOOLEAN])]]
    /\ active \in [Tenants -> PolicyIds \cup {NoPolicy}]
    /\ \A t \in Tenants : active[t] # NoPolicy => policies[t][active[t]] # << >>
    /\ governance \in [Tenants -> Seq([rule : GovernanceRules,
                                       asked : BOOLEAN])]
    /\ stage \in [Requests -> {"new", "router", "provider", "done"}]
    /\ request \in [Requests -> Asked]
    /\ recorded \in [Requests -> BOOLEAN]
    /\ rounds \in [Requests -> 0..MaxRounds]
    /\ queue \in [Requests -> Seq(Providers)]
    /\ \A r \in Requests : stage[r] = "provider" => queue[r] # << >>
    /\ result \in [Requests -> Results]
    /\ answered \in [Requests -> Providers \cup {NoProvider}]
    /\ \A r \in Requests : result[r] = "ANSWER" <=> answered[r] # NoProvider
    /\ since \in [Requests -> 0..MaxVersions]

Init ==
    /\ policies = [t \in Tenants |-> [id \in PolicyIds |-> << >>]]
    /\ active = [t \in Tenants |-> NoPolicy]
    /\ governance = [t \in Tenants |-> << >>]
    /\ audit = << >>
    /\ stage = [r \in Requests |-> "new"]
    /\ request = [r \in Requests |-> NoRequest]
    /\ candidate_set = [r \in Requests |-> NoCandidates]
    /\ recorded = [r \in Requests |-> FALSE]
    /\ rounds = [r \in Requests |-> 0]
    /\ queue = [r \in Requests |-> << >>]
    /\ result = [r \in Requests |-> "none"]
    /\ answered = [r \in Requests |-> NoProvider]
    /\ since = [r \in Requests |-> 0]

-----------------------------------------------------------------------------
(* The repositories and the evaluators                                     *)

\* GovernanceRepository.get_active: the latest version, or an implicit
\* version 1 without constraints.
NoRule == [allowed_provider_ids |-> {}, denied_provider_ids |-> {},
           allowed_regions |-> {}]

GovernanceVersion(versions) == IF versions = << >> THEN 1 ELSE Len(versions)

Rule(versions, version) ==
    IF versions = << >> THEN NoRule ELSE versions[version].rule

\* GovernanceEvaluator._exclusion_reason is None.
Eligible(rule, context, id) ==
    /\ rule.allowed_provider_ids # {} => id \in rule.allowed_provider_ids
    /\ id \notin rule.denied_provider_ids
    /\ context.data_classification \in Classifications[id]
    /\ context.region # NoRegion =>
          /\ rule.allowed_regions # {} => context.region \in rule.allowed_regions
          /\ Regions[id] # {} => context.region \in Regions[id]

\* _resolve_policy: the policy the context names, or else the active one.
PolicyFor(t, context) ==
    IF context.policy_id # NoPolicy THEN context.policy_id ELSE active[t]

PolicyMissing(t, context) ==
    context.policy_id # NoPolicy /\ policies[t][context.policy_id] = << >>

\* get_active without a pointer: an implicit version 1, whatever the tenant
\* has stored under the same id.
BuiltIn ==
    [policy_id |-> LegacyBalanced, version |-> 1, kind |-> "legacy-balanced"]

Latest(t, id) == [policy_id |-> id, version |-> Len(policies[t][id]),
                  kind |-> policies[t][id][Len(policies[t][id])].kind]

PolicyInForce(t, context) ==
    LET id == PolicyFor(t, context)
    IN  IF id = NoPolicy THEN BuiltIn ELSE Latest(t, id)

\* PolicyEvaluator.evaluate: legacy-balanced and compliance keep the order
\* of the registry, the other kinds sort by their score and then by id.
ByScore(kind) ==
    {pair \in Providers \X Providers :
        LET first == SortKey[kind][pair[1]]
            second == SortKey[kind][pair[2]]
        IN  first < second \/ (first = second /\ pair[1] < pair[2])}

Ranked(kind, ids) ==
    IF kind \in DOMAIN SortKey THEN Sorted(ToSet(ids), ByScore(kind)) ELSE ids

\* What governance and policy make of the providers available.
CandidateProviders(rule, kind, context, excluded) ==
    Ranked(kind, Filtered(Registry!AvailableForRouter(excluded),
                          {id \in Providers : Eligible(rule, context, id)}))

\* CandidateSetResolver.resolve, for a policy that exists.
Resolve(t, context, excluded) ==
    LET policy == PolicyInForce(t, context)
        version == GovernanceVersion(governance[t])
        kept == CandidateProviders(Rule(governance[t], version), policy.kind,
                                   context, excluded)
    IN  [policy_id |-> policy.policy_id, policy_version |-> policy.version,
         governance_version |-> version,
         providers |-> kept,
         exclusions |-> ToSet(Registry!AvailableForRouter(excluded)) \ ToSet(kept)]

\* _resolve_candidates without a tenant: the control plane is passed by.
LegacyCandidates(excluded) ==
    [NoCandidates EXCEPT !.providers = Registry!AvailableForRouter(excluded)]

\* The reference that _record_policy_audit appends.  What it was resolved
\* from is kept with it as history: context and excluded are not in the
\* code's record, nor is whether its versions were stored or implicit.
Reference(r, asked, resolved) ==
    [request |-> r, tenant |-> asked.tenant, resolved |-> resolved,
     context |-> asked.context, excluded |-> asked.excluded,
     policy_stored |-> PolicyFor(asked.tenant, asked.context) # NoPolicy,
     governance_stored |-> governance[asked.tenant] # << >>]

-----------------------------------------------------------------------------
(* Administration: the handlers of api/main.py                             *)

Stored(t) == UNION {{id} \X DOMAIN policies[t][id] : id \in PolicyIds}

\* POST /policies: create appends a version, and may activate.
CreatePolicy(t, id, kind, activate) ==
    /\ Cardinality(Stored(t)) < MaxVersions
    /\ policies' = [policies EXCEPT ![t][id] =
                       Append(@, [kind |-> kind, active |-> activate])]
    /\ active' = IF activate THEN [active EXCEPT ![t] = id] ELSE active
    /\ UNCHANGED <<governance, audit, stage, request, candidate_set, recorded,
                   rounds, queue, result, answered, since>>

\* Mutant of ActivatePolicy: the policy need not exist.
ActivateUnknown(t, id) ==
    /\ active' = [active EXCEPT ![t] = id]
    /\ UNCHANGED <<policies, governance, audit, stage, request, candidate_set,
                   recorded, rounds, queue, result, answered, since>>

\* POST /policies/{policy_id}/activate, for a policy that exists.
ActivatePolicy(t, id) ==
    /\ policies[t][id] # << >>
    /\ active' = [active EXCEPT ![t] = id]
    /\ UNCHANGED <<policies, governance, audit, stage, request, candidate_set,
                   recorded, rounds, queue, result, answered, since>>

\* Mutant of UpdateGovernance: the latest version is rewritten.
UpdateGovernanceInPlace(t, rule, activate) ==
    /\ governance' = [governance EXCEPT ![t] =
                         SubSeq(@, 1, Len(@) - 1)
                             \o <<[rule |-> rule, asked |-> activate]>>]
    /\ UNCHANGED <<policies, active, audit, stage, request, candidate_set,
                   recorded, rounds, queue, result, answered, since>>

\* PUT /governance/policy: upsert appends a version, and stores it as active
\* whatever the request's `activate` was (`asked`, kept as history).
UpdateGovernance(t, rule, activate) ==
    /\ Len(governance[t]) < MaxVersions
    /\ governance' = [governance EXCEPT ![t] =
                         Append(@, [rule |-> rule, asked |-> activate])]
    /\ UNCHANGED <<policies, active, audit, stage, request, candidate_set,
                   recorded, rounds, queue, result, answered, since>>

-----------------------------------------------------------------------------
(* Requests                                                                *)

\* A request ends; what it held is forgotten.
End(r, how, id) ==
    /\ stage' = [stage EXCEPT ![r] = "done"]
    /\ result' = [result EXCEPT ![r] = how]
    /\ answered' = [answered EXCEPT ![r] = id]
    /\ request' = [request EXCEPT ![r] = NoRequest]
    /\ candidate_set' = [candidate_set EXCEPT ![r] = NoCandidates]
    /\ queue' = [queue EXCEPT ![r] = << >>]
    /\ since' = [since EXCEPT ![r] = 0]
    /\ rounds' = [rounds EXCEPT ![r] = 0]

\* Mutant of RecordPolicyAudit: every round is recorded.
RecordEveryRound(r, asked, resolved) ==
    IF asked.tenant = NoTenant THEN UNCHANGED <<audit, recorded>>
    ELSE /\ audit' = Append(audit, Reference(r, asked, resolved))
         /\ recorded' = [recorded EXCEPT ![r] = TRUE]

\* _record_policy_audit: the first resolution of a V2 request.
RecordPolicyAudit(r, asked, resolved) ==
    IF asked.tenant = NoTenant \/ recorded[r]
    THEN UNCHANGED <<audit, recorded>>
    ELSE /\ audit' = Append(audit, Reference(r, asked, resolved))
         /\ recorded' = [recorded EXCEPT ![r] = TRUE]

\* One turn of the loop in _route, up to the call of a router.  The audit
\* reference is appended with the first resolution of the request, before
\* the test for an empty set of candidates.
Round(r, asked, round) ==
    LET t == asked.tenant
        resolved == IF t = NoTenant THEN LegacyCandidates(asked.excluded)
                    ELSE Resolve(t, asked.context, asked.excluded)
    IN  IF Registry!AvailableForRouter(asked.excluded) = << >>
        THEN End(r, "STOP", NoProvider) /\ UNCHANGED <<audit, recorded>>
        ELSE IF t # NoTenant /\ PolicyMissing(t, asked.context)
        THEN End(r, "POLICY_NOT_FOUND", NoProvider)
             /\ UNCHANGED <<audit, recorded>>
        ELSE /\ RecordPolicyAudit(r, asked, resolved)
             /\ IF resolved.providers = << >>
                THEN End(r, "GOVERNANCE_POLICY_DENIED", NoProvider)
                ELSE /\ stage' = [stage EXCEPT ![r] = "router"]
                     /\ request' = [request EXCEPT ![r] = asked]
                     /\ candidate_set' = [candidate_set EXCEPT ![r] = resolved]
                     /\ rounds' = [rounds EXCEPT ![r] = round]
                     /\ since' = [since EXCEPT ![r] =
                                     IF t = NoTenant THEN 0
                                     ELSE Len(governance[t])]
                     /\ UNCHANGED <<queue, result, answered>>

\* POST /chat: only a retry comes with exclusions.
Arrive(r, asked) ==
    /\ stage[r] = "new"
    /\ ~asked.retry => asked.excluded = {}
    /\ Round(r, asked, 0)
    /\ UNCHANGED adminVars

\* The groups the routers are offered.
Offered(r) ==
    Registry!AvailableTaskGroups(candidate_set[r].providers, request[r].image)

\* Mutant of RouterAnswers: what governance left is not passed on.
RouterAnswersUngoverned(r) ==
    /\ stage[r] = "router"
    /\ \E group \in Offered(r) :
          queue' = [queue EXCEPT ![r] = Registry!CandidatesFor(
                      group, request[r].image, request[r].excluded,
                      Registry!AvailableForRouter(request[r].excluded),
                      request[r].tenant # NoTenant)]
    /\ stage' = [stage EXCEPT ![r] = "provider"]
    /\ UNCHANGED <<adminVars, audit, request, candidate_set, recorded, rounds,
                   result, answered, since>>

\* A router answers with a task group, which fixes the candidates.
RouterAnswers(r) ==
    /\ stage[r] = "router"
    /\ \E decision \in Registry!Decisions :
          /\ decision.action = "ANSWER"
          /\ Registry!Valid(decision, Offered(r), request[r].image,
                            request[r].retry)
          /\ queue' = [queue EXCEPT ![r] = Registry!CandidatesFor(
                          decision.task_group, request[r].image,
                          request[r].excluded, candidate_set[r].providers,
                          request[r].tenant # NoTenant)]
    /\ stage' = [stage EXCEPT ![r] = "provider"]
    /\ UNCHANGED <<adminVars, audit, request, candidate_set, recorded, rounds,
                   result, answered, since>>

\* RETRY: the exclusions of a retry already hold its last provider, so the
\* next round differs in what the control plane says by then.
RouterRetries(r) ==
    /\ stage[r] = "router"
    /\ request[r].retry
    /\ rounds[r] < MaxRounds
    /\ Round(r, request[r], rounds[r] + 1)
    /\ UNCHANGED adminVars

\* CLARIFY, STOP, an exhausted ladder or the deadline.
RouterConcludes(r) ==
    /\ stage[r] = "router"
    /\ End(r, "ENDED", NoProvider)
    /\ UNCHANGED <<adminVars, audit, recorded>>

\* The provider called fails: the next candidate, if any.
ProviderFails(r) ==
    /\ stage[r] = "provider"
    /\ IF Len(queue[r]) > 1
       THEN /\ queue' = [queue EXCEPT ![r] = Tail(@)]
            /\ UNCHANGED <<stage, request, candidate_set, rounds, result,
                           answered, since>>
       ELSE End(r, "ENDED", NoProvider)
    /\ UNCHANGED <<adminVars, audit, recorded>>

\* The provider called answers.
ProviderAnswers(r) ==
    /\ stage[r] = "provider"
    /\ End(r, "ANSWER", Head(queue[r]))
    /\ UNCHANGED <<adminVars, audit, recorded>>

Administer(t) ==
    \/ \E id \in PolicyIds, kind \in PolicyKinds, activate \in BOOLEAN :
          CreatePolicy(t, id, kind, activate)
    \/ \E id \in PolicyIds : ActivatePolicy(t, id)
    \/ \E rule \in GovernanceRules, activate \in BOOLEAN :
          UpdateGovernance(t, rule, activate)

Serve(r) ==
    \/ \E asked \in Asked : Arrive(r, asked)
    \/ RouterAnswers(r) \/ RouterRetries(r) \/ RouterConcludes(r)
    \/ ProviderFails(r) \/ ProviderAnswers(r)

Next == (\E t \in Tenants : Administer(t)) \/ (\E r \in Requests : Serve(r))

Spec == Init /\ [][Next]_vars

-----------------------------------------------------------------------------
(* Properties                                                              *)

\* One governance version decided the whole candidate set of a V2 request,
\* and it was in force at some moment since the present round of the ladder
\* began: the set holds each available provider that this version lets
\* through and no other, however governance and policies change during the
\* round, and only what is in it is tried.  (A version superseded during the
\* round stays in use until the round ends: resolve is not called again.)
GovernedSinceRound ==
    \A r \in Requests :
        LET asked == request[r]
            inForce == {governance[asked.tenant][v].rule :
                           v \in (since[r]..Len(governance[asked.tenant])) \ {0}}
                       \cup (IF since[r] = 0 THEN {NoRule} ELSE {})
            candidates == ToSet(candidate_set[r].providers)
        IN  asked.tenant # NoTenant /\ stage[r] \in {"router", "provider"} =>
                /\ \E rule \in inForce : candidates =
                      {id \in ToSet(Registry!AvailableForRouter(asked.excluded)) :
                          Eligible(rule, asked.context, id)}
                /\ stage[r] = "provider" => ToSet(queue[r]) \subseteq candidates

\* Reading a reference back: the kind under the policy id and version that
\* it gives, or else the built-in's.
KindOf(t, id, version) ==
    IF version \in 1..Len(policies[t][id]) THEN policies[t][id][version].kind
    ELSE "legacy-balanced"

Reproduces(a) ==
    LET rule == Rule(governance[a.tenant], a.resolved.governance_version)
        kind == KindOf(a.tenant, a.resolved.policy_id, a.resolved.policy_version)
        kept == CandidateProviders(rule, kind, a.context, a.excluded)
    IN  /\ a.resolved.providers = kept
        /\ a.resolved.exclusions =
              ToSet(Registry!AvailableForRouter(a.excluded)) \ ToSet(kept)

\* A reference to an implicit version 1 whose number has been given to a
\* version that the tenant stored.
NumberTaken(a) ==
    \/ ~a.policy_stored /\ policies[a.tenant][a.resolved.policy_id] # << >>
    \/ ~a.governance_stored /\ governance[a.tenant] # << >>

\* An audit reference can be checked for good: evaluated again at any later
\* time, the policy and governance versions it names give the candidates and
\* exclusions it records, unless it names an implicit version whose number
\* was taken (ReferencesReproducible below is without that condition).
AuditReproducible ==
    \A i \in 1..Len(audit) : NumberTaken(audit[i]) \/ Reproduces(audit[i])

\* Every V2 request that was given candidates, or was denied for having none,
\* has exactly one audit reference, however many rounds it took; a V1 request
\* has none.
AuditedOnce ==
    \A r \in Requests :
        LET references == {i \in 1..Len(audit) : audit[i].request = r}
        IN  /\ Cardinality(references) <= 1
            /\ \/ request[r].tenant # NoTenant
               \/ result[r] = "GOVERNANCE_POLICY_DENIED"
               => references # {}
            /\ /\ stage[r] \in {"router", "provider"}
               /\ request[r].tenant = NoTenant
               => references = {}

\* "Immutable per-request control-plane reference" (control_plane/models.py):
\* what a reference names does not change.  It does not hold for implicit
\* versions: the first policy that a tenant stores as legacy-balanced, of
\* whatever kind, and its first governance update are numbered 1 as well
\* (README.md, section 4).
ReferencesReproducible == \A i \in 1..Len(audit) : Reproduces(audit[i])

\* The same sentence: a request's reference lists the provider that answered
\* it among its candidates.  It does not hold if governance changes between
\* two rounds: the reference is of the first (README.md, section 4).
AnswerAudited ==
    \A i \in 1..Len(audit) :
        answered[audit[i].request] # NoProvider =>
            answered[audit[i].request] \in ToSet(audit[i].resolved.providers)

\* "Governance update accepts ... `activate`" (API_Contracts.md): the policy
\* in force was put there by an update that asked for its activation.  It
\* does not hold: upsert activates every version (README.md, section 4).
GovernanceActivatedOnRequest ==
    \A t \in Tenants :
        governance[t] # << >> => governance[t][Len(governance[t])].asked

\* A policy "may" be activated when a version of it is created
\* (API_Contracts): creating one without that leaves what is in force for the
\* tenant as it was.  It does not hold for the active policy: the pointer
\* names the policy, and its latest version applies (README.md, section 4).
NewVersionWaits ==
    [][\A t \in Tenants :
          /\ active'[t] = active[t] /\ active[t] # NoPolicy
          /\ policies'[t] # policies[t]
          /\ ~Last(policies'[t][active[t]]).active
          => Latest(t, active[t]).kind' = Latest(t, active[t]).kind]_vars

\* The policy in force, as get_active returns it to the evaluation and its
\* answer, says that it is active.  It does not hold after POST .../activate,
\* which leaves the stored versions alone (README.md, section 4).
ActiveSaysSo ==
    \A t \in Tenants :
        active[t] # NoPolicy => Last(policies[t][active[t]]).active

\* "Preserved Registry order for V1 compatibility" (services.py): under
\* legacy-balanced, with no governance, a V2 request tries the candidates
\* in the order of V1.  It does not hold unless the configuration lists each
\* group by priority (README.md, section 4).
LegacyOrderAsV1 ==
    \A r \in Requests :
        /\ stage[r] = "provider"
        /\ request[r].tenant # NoTenant
        /\ request[r].context.policy_id = NoPolicy
        /\ active[request[r].tenant] = NoPolicy
        => \A i \in 1..(Len(queue[r]) - 1) :
              Configs[queue[r][i]].priority < Configs[queue[r][i + 1]].priority

=============================================================================
