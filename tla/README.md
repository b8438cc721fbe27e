# Verification of the LLM routing engine

This directory holds a TLA+ model of the routing engine in this repository:
its backend circuits, the ladder of routers and the fallback over candidates,
the state of a conversation, the provider registry, the V2 control plane,
the verification of models against catalogs, the diagnostics that a request
reports, and a session of the dashboard. TLC checks the models on small
instances. TLAPS proves, for every value of the constants, the safety
properties of every part and the two refinements (section 5); liveness stays
with TLC.
Paths below are relative to the repository's root.

The engine is one asyncio process. A task runs until it awaits, so what the
code does between two awaits is atomic, and everything else interleaves: the
calls of other requests, timers, cancellation by a request's deadline,
administrators' updates. That is the grain of the models: **a step is the
code from one await to the next**. A loop body without an await is a step per
iteration, and where another task could observe the difference a variable
(`loop` in RoutingEngine) keeps the others out.

## 1. Inventory

| Component | State | Operations | Interacts with |
|---|---|---|---|
| Backend circuits (`providers/circuit_breaker.py`) | per backend: state, consecutive failures, `opened_at`, slots in use | `allow_request`, `record_success`, `record_failure`, `release_probe`, `snapshot` | called around every upstream call, by routers and dispatcher of all requests |
| Router transport (`routers/http_router.py`) | HTTP client | `decide`, with one repair, a timeout and the circuit's accounting | circuits, upstream |
| Provider dispatcher and adapter (`providers/dispatcher.py`, `adapter.py`) | none | `dispatch`, `resolve`, classification of failures | circuits, registry, upstream |
| Routing engine (`routing/engine.py`) | per request: capture, blocked backends, deadline | `handle`, the RETRY loop, the ladder of two routers, the fallback over candidates | everything |
| Conversation state (`state/manager.py`) | the record of each conversation | `create`, `load`, `update`, `increment_attempt`, `exclude_provider`; each works on copies | engine |
| Model registry and decision validator (`registry/`, `validation/`) | providers and their order | `register`, `remove`, `enable`, `disable`; the filters | engine, control plane, dispatcher |
| Control plane (`control_plane/`) | versions of policies and governance, active policy, audit references | `create`, `activate`, `upsert`; resolution of the candidates | engine, API |
| Model verification (`providers/model_catalog.py`) | targets | `verify`, at startup and for health reads | upstream catalogs, API lifespan |
| Diagnostics (`routing/engine.py`, `schemas/models.py`) | per request: the capture, with a log of router and one of provider attempts | the log entries, `_build_diagnostics`, `failure_class` | engine, API |
| HTTP API (`api/main.py`), settings, schemas, gateway | wiring | handlers of requests and exceptions, envelopes, validation, redaction | all of the above |
| Dashboard (`dashboard/`) | a Streamlit session: conversations, last request, evaluation history and dataset | `_send`, retry, new, cleared and selected conversation | API |

What makes these hard to test, and what each must guarantee:

* **Circuits.** The outcome of a call meets a circuit that other calls have
  opened, half-opened or closed since. Slots must come back, the circuit must
  not refuse for good, no call may reach a failing backend early, a failure
  must count once, and a health read must show what the next request meets.
* **Engine.** Timeouts of single calls race the request's deadline, and
  cancellation arrives in the middle of the fallback. Every request must end,
  whichever end it comes to its log must say what became of the candidates, a
  denied backend must be left alone, slots must not outlive requests.
* **Conversation.** Requests of one conversation overlap, each with its own
  copy of the record. The budget of a turn must hold, a retry must go to
  another provider, an image turn must remain one, and the record must belong
  to the latest message.
* **Registry.** Three filters must agree, or a decision that the validator
  accepts has no candidate to serve it.
* **Control plane.** Candidates are resolved before an await and used after
  it, and again in each round. Nothing may be called that governance denied
  throughout the round, and a reference must explain the request for good.
* **Model verification.** Catalogs change while they are read one after
  another. Nothing unlisted may be served or called healthy, and one failed
  catalog must not hide the others.
* **Diagnostics.** A request ends in a dozen ways, each with its own exception
  and handler, and the report is put together afterwards from two logs. It
  must name the last upstream error, the path that was taken and the provider
  that answered, if one did, and it is for developers only.
* **Dashboard.** Streamlit stops a run of the page when the user touches
  another widget, requests and responses get lost, and the server may restart
  under a session that lives on. A retry must repeat what the server has, and
  the records must agree with the conversations they are about.

`PROJECT.json` lists the hazards one by one, each at its line with the
properties that cover it, or with the reason why none does.

## 2. Modules

```
BackendCircuit            one circuit: its fields and methods as operators
  CircuitBreaker          a circuit and its concurrent calls, in time
    CircuitBreakerProofs  with the lemmas about the methods
    MCCircuitBreaker      for TLC
  RoutingEngine           requests over the shared circuits of all backends
    RoutingEngineProofs   (refines CircuitBreaker on each backend; with
                           CircuitBreakerProofs, for the methods)
    MCRoutingEngine
TurnBudget                what a conversation promises
Conversation              the record and its overlapping requests
    ConversationProofs    (refines TurnBudget when requests do not overlap)
    MCConversation
Listing                   filtered and sorted lists
  ModelRegistry           the registry, the validator and the filters
    ModelRegistryProofs
  ControlPlane            V1 and V2 requests under policies and governance
    ControlPlaneProofs    (with ModelRegistryProofs, for the registry it has)
    MCControlPlane
  ModelCatalog            verification of models against catalogs
    ModelCatalogProofs    (with ModelRegistryProofs, for the lists)
    MCModelCatalog
Diagnostics               what a request reports of itself, to its envelope
    DiagnosticsProofs
    MCDiagnostics
Dashboard                 a session of the dashboard, and what it makes of the API
    DashboardProofs
    MCDashboard
```

**BackendCircuit** and **CircuitBreaker.** `AllowRequest`, `RecordSuccess`,
`RecordFailure`, `ReleaseProbe` and `Snapshot` are the methods of the same
names. `opened_at` is kept as its age, `opened_for`, which stops at the
cooldown: the code only compares `monotonic() - opened_at` with
`open_seconds`. CircuitBreaker runs overlapping calls of the two kinds that
the code has: task calls (`ProviderDispatcher.dispatch`) and router calls
(`StructuredHTTPRouter.decide`, where a failure runs `record_failure` and
then `release_probe`). Any call may succeed, fail in each class, time out or
be cancelled, in any order. `window` (who the probes of the present half-open
window are) and `quiet` (time since the last transient failure) are history.

**RoutingEngine.** A request goes through `ladder`, `router`, `candidates`
and `provider` to `done`. `loop` names the task that holds the event loop, so
the loops of `_decision_from_ladder` and `_execute_with_fallback` run without
interruption between awaits. `budget` is the number of RETRY rounds that the
conversation still allows, and `queue` the candidates that are left. `Tick`
advances time when no timer is due: asyncio runs due timers before it sleeps.
An upstream's answer may still be handled at the very instant a timer is due.

**Conversation.** One conversation of one tenant: the manager keys its
records by both, and records do not influence each other. The calls of one
routing round are one await, as nothing between them touches the record.
`prior`, `latest` and `rounds` are history. The routers' choice of a group is
left open, so any candidate of the request's modality may answer.

**Listing.** The list comprehensions and the `sorted` calls of the registry,
the control plane and the verifier, `Filtered` and `Sorted`. They are defined by
the sets that they list and not by `SelectSeq` and `SortSeq`, which compute and
which TLAPS has no definition of. That both mean the same is an assumption of
MCControlPlane (`ListingAsLibrary`), which TLC evaluates on all small lists.

**ModelRegistry.** `Register`, `RemoveProvider` and `SetEnabled` are the
operations; `AvailableForRouter`, `AvailableTaskGroups` and `CandidatesFor`
the filters; `Valid` is `DecisionValidator.validate`. Decisions are those
that pass the schema's own rule (`RouterDecision.answer_requires_task_group`).

**ControlPlane.** V1 and V2 requests, with governance updated and policies
created and activated at any moment. It uses ModelRegistry's filters for a
fixed set of providers. Tenants are independent, so one is enough; `NoTenant`
marks a V1 request. The built-in policy is `LegacyBalanced` version 1
(`BuiltIn`), an id under which a tenant may store a policy of any kind. What a
reference keeps besides the code's fields is history: the context and the
exclusions it was resolved with, and whether its two versions were stored ones.
A policy's score is a sort key per provider, as the scores themselves are
configuration.

**ModelCatalog.** `verify`, one step per backend, while the backends change
their catalogs. `listed` records what each backend listed during a
verification. The keys of `targets_by_backend`, a dictionary, are a list sorted
by the first target of each. The settings have one endpoint and one key per backend, so
`inconsistent_backend_configuration` cannot occur in the program; an endpoint
without the suffix `/chat/completions` can, and does in one configuration.

**Diagnostics.** One request, from its arrival to the envelope that the client
gets: the path of RoutingEngine without the circuits and without time, so that
any call may have any outcome, and with all that is logged. `capture` is
`_DiagnosticsCapture`, `BuildDiagnostics` is `_build_diagnostics`, `Handler`
the table of exception handlers. An attempt is logged with its outcome, its
class and its HTTP status; `RouterErrors` and `ProviderErrors` are what
`_failure_metadata` makes of the exceptions of a call. `HttpFailureReason`, the
text that `failure_reason` has for a status, is a constant, as only that it is
never the word for no failure matters. `observed`, `candidates` and
`answered_by` are history: what happened, against which the report is held.
RoutingEngine says when the outcomes can occur; its log has the candidates and
their outcomes only (`LogComplete`).

**Dashboard.** The session state is a variable each. `position` says where the
run of a button or of `_send` is; the steps go from one access of the session
state to the next, since Streamlit stops a run there when the user touches
another widget (`Interrupt`; the run that follows starts with `initialize`). A
new conversation is thus made in three steps. Of a record, the request is kept
and not what came of it, which no later step reads. The API call blocks and
cannot be stopped. Of the server it keeps the query and the image flag of each
conversation, which is what a retry depends on: a message sets them,
`RestartServer` forgets them. `disturbed` is history: whether, since the API
handled the last message, the user switched conversations, a run was stopped, a
request was lost or the server restarted.

Each property has a **mutant**: an operator written directly above the
definition it changes, named for the mistake (`ReleaseProbeForgets`,
`BlockForgets`, ...) and used by no specification. Put in the place of that
definition it violates the property, which shows that the property depends on
the code. `PROJECT.json` pairs them.

## 3. What TLC checks

| Run | Bounds | Shows |
|---|---|---|
| `CircuitCalls` | 2 router and 3 task calls, threshold 3, cooldown 2, two slots, timeouts 1 and 3 | `CircuitConsistent`, `NoProbeLeak`, `RouterFailureCountedOnce`, `SnapshotHonest`, `AdmissionJustified`, `WillingAgain`, with calls that outlive the cooldown |
| `CircuitDefaults` | timeouts 1 and 2 below the cooldown 3, as in the default settings | `WindowExclusive`, `ProbesBounded` |
| `ConversationOverlap` | 3 overlapping requests, 3 providers, `MAX_RETRIES` 3 | `LastAnswerTogether`, `RetryElsewhere`, and `EveryRequestEnds`: RETRY decisions cannot go on for ever |
| `ConversationSequential` | 4 requests, one at a time | `BudgetHolds`, `QueryCurrent`, `ImageKept`, and `KeepsPromise`: the record implements TurnBudget |
| `EngineSafety` | 2 requests, 2 backends, 3 candidates, one RETRY round, the deadline at twice a call's timeout | `LogComplete`, `QuiescentCircuits`, `DeniedNotDispatched` |
| `EngineEnds` | 2 requests, 2 candidates | `EveryRequestEnds`, whether upstreams answer or not, and `SharesCircuits`: the calls on each backend are a behaviour of CircuitBreaker |
| `RegistryQueries` | 3 ids, 2 groups, 3 priorities, all decisions, exclusions, governed and ranked lists | `TypeOK` (the order and the providers never part), `AcceptedAnswerServable`, `PolicyOnlyReorders` |
| `ControlPlaneAudit` | 1 request, 3 providers, 2 policy ids, the built-in's among them, 2 stored policy versions and 2 of governance, 2 rules, one RETRY round | `GovernedSinceRound`, `AuditReproducible`, `AuditedOnce` |
| `CatalogChecks` | 2 backends, 5 targets, startup and one health read, 3 catalogs | `ServesVerifiedModels`, `HealthHonest` |
| `DiagnosticsReport` | one request, 3 candidates on 2 backends, one RETRY round, statuses 302, 401 and 503, every setting for developers | `UpstreamStatusLast`, `EndExplained` |
| `DashboardSession` | 2 conversations, 2 prompts, 3 requests | `RetryRepeats`, `RecordsStand` |
| `ConversationStaleTurn` | 2 overlapping requests | a counterexample to `QueryCurrent` (section 4) |

Every module's type invariant is checked in one of these runs.

**Why the bounds suffice.** A hazard here needs few actors. Of the circuits,
one call opens, another probes and a third, older, interferes; with two
routers and three tasks every pair of kinds meets in every phase, and the
proofs remove the bound. Two requests suffice for the engine: all that a
request sees of the others is the circuits, and two of them open, half-open
and refuse each other's calls. The three candidates are on two backends, so
that one is skipped for what another met. `EngineEnds` leaves the RETRY
rounds out: they repeat the ladder, and a round adds only to the time that
the deadline cuts. In a conversation, a third overlapping request can undo
what the second did to the first; one turn and three retries, in sequence,
use the budget up. Control-plane requests do not influence each other at
all, so one is exact; two stored versions, after the implicit default, give each
step in which a version is superseded, and two policies of which one or the
other is activated. A health read shares nothing with
another one.

A request's diagnostics depend on no other request. Two rounds give a log with
the attempts of several ladders, three candidates on two backends one that is
skipped for what the first, or a router, met, and one left at a deadline. The
status 302 stands for those of no class of their own (redirects are errors to
`raise_for_status`), 401 for those that block a backend and 503 for those that
blame it; the report copies the status and compares it with no other. In a
dashboard session, three requests are a message, its retry and one that comes
between; conversations and prompts are only compared, so two of each are
enough and `MCSymmetry` permutes them.

`CHECK_DEADLOCK FALSE` is set where each of finitely many requests is made
once, so that the model stops when all are done.

**Fairness.** The liveness properties of CircuitBreaker and RoutingEngine
assume that time passes and that a due timer runs (`asyncio.timeout`,
`asyncio.timeout_at`), and that the event loop runs a ready task. RoutingEngine
does not assume that an upstream answers. CircuitBreaker assumes that a call
completes, by its timeout if by nothing else. Conversation assumes that a
round of routing ends, which is what `EngineEnds` shows, and leaves open how.

## 4. Where the code departs from what it says

One run keeps a counterexample to a sentence of the repository
(`PROJECT.json` quotes it):

| Run | Violates | In short |
|---|---|---|
| `ConversationStaleTurn` | `QueryCurrent` | A slow answer writes an older turn back over a newer message (`routing/engine.py:514`). Without overlap the property holds (`ConversationSequential`) |

The modules state further properties that documents suggest and that the code
does not have. TLC refutes each when it takes the place of the properties in
the named configuration:

| Property | Refuted in | In short |
|---|---|---|
| `ProbesBounded` | `CircuitCalls`, `HalfOpenProbes = 1` | A call from before the outage that outlives the cooldown frees a probe's slot, and one probe too many runs (`providers/circuit_breaker.py:107`; "one half-open probe", docs/System_Architecture.md:49). It takes a timeout of at least `CIRCUIT_OPEN_SECONDS`; otherwise the property is proved |
| `OpenEndsInProbe` | `CircuitDefaults` | A late success closes an open circuit at once (`circuit_breaker.py:41`), a way out of OPEN that the diagram of README.md:149 does not have |
| `ChargesStay` | `ConversationOverlap`, as `PROPERTY` | While a message is routed, a retry of its turn is charged; the message's answer stores its own copy, whose count is still zero (`routing/engine.py:514`), and the retry was free (docs/API_Contracts.md:43, "increments the turn's attempt count") |
| `BudgetHolds` | `ConversationOverlap`, 4 requests, `MaxAttempts = 2` | Two overlapping retries are charged once (`state/manager.py:42`), and a turn exceeds `MAX_RETRIES` (docs/API_Contracts.md:43) |
| `MessageReachesRouter` | `ConversationSequential`, `MaxAttempts = 0` | `MAX_RETRIES=0`, which the settings accept, stops ordinary messages too (`routing/engine.py:323`) |
| `DeniedNotAsked` | `EngineSafety` | A backend that answered 401 as a router is asked again as a router in the next RETRY round (`routing/engine.py:541`; docs/System_Architecture.md:34) |
| `GovernanceActivatedOnRequest` | `ControlPlaneAudit` | `activate: false` has no effect on a governance update (`control_plane/repository.py:73`; docs/API_Contracts.md:98) |
| `ReferencesReproducible` | `ControlPlaneAudit` | The built-in policy is `legacy-balanced` version 1. A tenant stores a policy of that id, which is version 1 too and may be of another kind: a reference to the built-in now names something else (`control_plane/repository.py:29`, `:47`), activated or not. The first governance update takes the number of the implicit default likewise (`:69`, `:73`; "Immutable per-request control-plane reference", `control_plane/models.py:76`). References to stored versions are sound, and the others until then (`AuditReproducible`) |
| `AnswerAudited` | `ControlPlaneAudit` | Governance changed between two rounds: the request's only reference excludes the provider that answered (`routing/engine.py:645`; the same sentence) |
| `NewVersionWaits` | `ControlPlaneAudit`, as `PROPERTY` | A new version of the active policy, created with `activate: false`, is in force at once: the pointer names the policy (`control_plane/repository.py:44`) |
| `ActiveSaysSo` | `ControlPlaneAudit` | A policy activated after its creation is returned by `get_active` with `active: false` (`control_plane/repository.py:28`) |
| `LegacyOrderAsV1` | `ControlPlaneAudit` | `legacy-balanced` follows the configured order, V1 the priorities (`control_plane/services.py:71`, `:120`); they agree in the example configuration |
| `EachBackendFetched` | `CatalogChecks` | A backend that drops the connection (`httpx.RemoteProtocolError`) ends the whole health read (`providers/model_catalog.py:71`; docs/API_Contracts.md:60) |
| `GuardSeesModality` | `ConversationSequential` | A retry with an image, once the image providers are excluded, passes the guard, which counts all providers (`routing/engine.py:308`), and is routed without a candidate. It ends (`EveryRequestEnds`) and goes to no provider (`RetryElsewhere`) |
| `ClassMatchesReason` | `DiagnosticsReport` | `failure_class` is read from the logs, `failure_reason` from the error: a candidate skipped after the last failure, or a failure the fallback recovered from before the gateway failed, gives another failure's class (`routing/engine.py:689`) |
| `AggregateMatches` | `DiagnosticsReport` | `fallback_used` is set by one failed candidate without a successor, and not by candidates skipped at the deadline (`routing/engine.py:464`, `:716`), so it is not the disjunction of `router_fallback_used` and `provider_fallback_used` |
| `ExhaustedUsedNoRouter` | `DiagnosticsReport` | A ladder exhausted in a second round still shows the router of the first as `router_used` (`routing/engine.py:586`) |
| `RetryAlwaysRepeats` | `DashboardSession` | After the sidebar switched conversations the retry button sends the old prompt as a retry of the new conversation (`dashboard/pages/chat.py:40`, `dashboard/app.py:52`); a stopped run, a lost request or a restart of the server also leave a last request that is not the server's turn |
| `AnswerRecorded` | `DashboardSession`, as `PROPERTY` | A touch of another widget while a request is routed drops its answer: the user's message stays without one (`dashboard/pages/chat.py:79`) |
| `DatasetComplete` | `DashboardSession`, as `PROPERTY` | A run stopped between the two lists leaves a record in the history that the dataset lacks (`dashboard/pages/chat.py:115`; "records each API interaction", `dashboard/app.py:43`) |

Related, and intended or not: as the guard of `_prepare_retry` is tested again
after the charge, a budget of `n` serves `n - 1` retries.

## 5. What is proved

The theorems below hold for every value of the constants that the named
assumptions admit: any finite sets of calls, requests and providers, and any
thresholds, times and budgets that the settings accept. Every theorem that
states a property of section 3 is about the same definition that TLC checks;
the three that state none are marked.

**CircuitBreakerProofs** (`CircuitAssumption`, `CallsAssumption`):

| Theorem | Establishes |
|---|---|
| `TypeCorrect` | `[]TypeOK` |
| `Consistent` | `[]CircuitConsistent` |
| `FailureCountedOnce` | `[]RouterFailureCountedOnce`, from `CircuitConsistent` |
| `SnapshotIsHonest` | `[]SnapshotHonest`, from `TypeOK` |
| `AdmissionIsJustified` | the action property `AdmissionJustified`, from `CircuitConsistent` |
| `NoSlotIsLost` | `[]NoProbeLeak` |
| `ShortTimeoutsExclude` | `TimeoutsShort => []WindowExclusive` |
| `ShortTimeoutsBoundProbes` | `TimeoutsShort => []ProbesBounded` |

The argument is layered. `TypeOK` is inductive. `CircuitConsistent` is
inductive relative to it: it ties `opened_for` to `quiet`, without which a
circuit could be half-open while its age says otherwise. `NoProbeLeak` needs
both: the count of slots and the set of probes move together, and leaving the
half-open window empties both. `WindowExclusive` is the strengthening behind
`ProbesBounded`: if no call outlives the cooldown, every call that runs while
the circuit is open is at least as old as the outage, and so is over when the
window starts; hence the window's calls are its own and the counter is exact.
`TimeoutsShort` is what the default settings satisfy and what the settings do
not enforce; without it `ProbesBounded` is false (section 4).

**RoutingEngineProofs** (`EngineAssumption`, `CircuitAssumption`):

| Theorem | Establishes |
|---|---|
| `TypeCorrect` | `[]TypeOK` |
| `DeniedNeverDispatched` | the action property `DeniedNotDispatched` |
| `SlotsAwaited` | `[]SlotsInv`, an invariant of the proof only |
| `SlotsComeBack` | `[]QuiescentCircuits` |
| `CircuitsShared` | `SharesCircuits`: the refinement of CircuitBreaker |
| `EngineProbesBounded` | `[]ProbesLimited(Chosen)`, in this module only: with timeouts below the cooldown, the calls on a half-open backend are no more than its slots |
| `EngineCallsJustified` | `[][CallJustified(Chosen)]_vars`, in this module only: no request calls a failing backend early |
| `LogsComplete` | `[]LogComplete` |

A denial lasts because a denied backend stays in `blocked` (`DenialsKept`), and
the fallback skips what is there. The slots need `SlotsInv`: on every backend
the probes of the window are requests that await a call to that very backend,
and the slots in use are no more than those probes. When no request is under
way nobody awaits, so the slots are free. The refinement takes a request that
awaits a call to backend `b` as a running call on `b`; each step maps to the
admission, the completion or the tick of CircuitBreaker, or to a stutter of
the other backends' circuits. With it the circuit's theorems are theorems of
every circuit of the engine: the last two, which speak of the engine's requests,
are `ShortTimeoutsBoundProbes`, with `ShortTimeoutsExclude`, and
`AdmissionIsJustified`, taken from there. TLAPS cannot cite the theorems of an
instance with a parameter, so they are about a constant `Chosen`, of which only
`Chosen \in Backends` is assumed. `[]ProbesLimited` is false if `OpenSeconds`
does not exceed the timeouts, as `ProbesBounded` is.
`LogComplete` says, for each result that a request can have (`Accounted`), what
its log then has: each candidate where it gave up or a call was cancelled, a
failure last where it broke, the success last where it was served, and where the
deadline came in a router or at the head of the loop, those dealt with and
nothing of the rest. Its invariant `AllLogged` says what the log has while
candidates remain in `queue`.

**ConversationProofs** (`ConversationAssumption`, `SentinelAssumption`):

| Theorem | Establishes |
|---|---|
| `TypeCorrect` | `[]TypeOK` |
| `AnswersTogether` | `[]LastAnswerTogether` |
| `RetriesElsewhere` | `[]RetryElsewhere` |
| `BudgetKept` | `MaxInFlight = 1 => []BudgetHolds` |
| `LatestQuery` | `MaxInFlight = 1 => []QueryCurrent` |
| `ImagesKept` | `MaxInFlight = 1 => ImageKept`, an action property |
| `PromiseKept` | `MaxInFlight = 1 => KeepsPromise`: the refinement of TurnBudget |

The first three hold however requests overlap. For `RetryElsewhere` the copy
of every retry that is being routed must exclude the provider that it retries
(`Elsewhere`). The others are false with overlap (section 4). Without it the
invariant `Sequential` ties the stored record to the one request under way:
the copy is the record, the record belongs to the latest message, its counter
is at least the rounds that the turn took, and the last provider is excluded.

**ModelRegistryProofs** (`RegistryAssumption`):

| Theorem | Establishes |
|---|---|
| `TypeCorrect` | `[]TypeOK` |
| `AnswersServable` | `[]AcceptedAnswerServable` |
| `PoliciesReorder` | `[]PolicyOnlyReorders` |

The lemmas on `Sorted` and `Filtered` come first: by a strict total order a
finite set has exactly one sorted list, and a filter keeps the order. The
inductive invariant adds `PrioritiesUnique` to `TypeOK`: the priorities are
unique within a group, without which the candidates would not increase
strictly. `AcceptedAnswerServable` needs the types only: the list of groups and
the list of candidates ask the same (`Usable`) of the same providers, as what
governance left is never excluded.

**ControlPlaneProofs** (`ControlPlaneAssumption`):

| Theorem | Establishes |
|---|---|
| `TypeCorrect` | `[]TypeOK` |
| `RequestsAuditedOnce` | `[]AuditedOnce` |
| `ReferencesReproduce` | `[]AuditReproducible` |
| `AlwaysGoverned` | `[]GovernedSinceRound` |

`AuditReproducible` has an exception, `NumberTaken`: a reference to an implicit
version after the tenant has stored one of the same number, without which it is
false (`ReferencesReproducible`, section 4). Apart from it the property rests
on versions being appended only, and on each reference naming versions that
exist (`AllNamed`); what the evaluators compute plays no part, as the same
versions give the same. `GovernedSinceRound` needs what they compute, and takes
it from ModelRegistryProofs, instantiated with the registry that the control
plane has: `Governed` says that the whole candidate set of a request is what
one governance version in force since its round began lets through of the
available providers, and that `queue` is a part of it.

**ModelCatalogProofs** (`CatalogAssumption`):

| Theorem | Establishes |
|---|---|
| `TypeCorrect` | `[]TypeOK` |
| `ServesVerified` | `[]ServesVerifiedModels` |
| `HealthIsHonest` | `[]HealthHonest` |

The invariant `Accounted` divides the targets of a verification, at every
moment: each has one result, or its backend is still pending. A result that
says `available` was found in what its backend had listed by then, as a running
verification has seen what the backends list now (`Witnessed`). When no backend
is pending the results are those of all targets, and as a name is one target's,
they are theirs. The lemmas on lists are those of ModelRegistryProofs,
instantiated with an empty registry, of which they say nothing.

**DiagnosticsProofs** (`DiagnosticsAssumption`):

| Theorem | Establishes |
|---|---|
| `TypeCorrect` | `[]TypeOK` |
| `StatusShown` | `[]UpstreamStatusLast` |
| `EndsExplained` | `[]EndExplained` |

The report is built at the end, so the capture has to be right wherever a
request may end. `CaptureRight` says so, stage by stage: the path in the log is
the candidates as far as they were tried and `queue` the rest (`Divided`), the
selected provider is the one that answered (`Explained`), and the last status
in the two logs is the last that was observed (`StatusKept`), which holds
because the routers' log is complete before the providers' begins.

**DashboardProofs** (`DashboardAssumption`):

| Theorem | Establishes |
|---|---|
| `TypeCorrect` | `[]TypeOK` |
| `RetriesRepeat` | `[]RetryRepeats` |
| `RecordsAlwaysStand` | `[]RecordsStand` |

For `RetryRepeats`, an undisturbed last request is the server's turn of the
active conversation (`RetryReady`). For the history, the prompt of the run that
is under way stays the last message until its answer stands right after it
(`RunSpoken`), and the numbers of later requests are greater (`NumbersMade`).
For the dataset, it is a part of the history, and between the two appends of a
run even of what the history was before its record (`DatasetFollows`); so a run
that is stopped between them leaves the history the longer one, and no other
order.

**Only model-checked.** Liveness under fairness (`WillingAgain`,
`EveryRequestEnds` of Conversation and of RoutingEngine), which is beyond
TLAPS.

## 6. Not modelled

* Texts: prompts, payloads, headers, redaction of identity terms, the wording
  of exclusions and errors. No decision of the engine depends on them; what
  does (a status, a body that blames the model, a malformed decision) is an
  outcome of the call.
* The exchange over HTTP: an external call with every outcome.
* Of the diagnostics: latencies, timestamps, `retry_count`, the names of
  backends and models, the circuits' snapshot and the policy versions, which
  are copied from where other modules have them.
* A client that disconnects: whether that cancels the handler is up to the web
  framework. A cancellation takes the path of the deadline's, with another
  class in the log.
* The router's HTTP client and its lock: no decision depends on it.
* Health methods of single adapters and routers, and the path of
  `verify_startup` without a verifier: `build_engine` always makes one.
* `ConversationStateManager.reset`, which nothing calls.
* The dashboard's other pages: they render the session's records or what a
  GET request answers. The writes of Policy Studio are the API's
  (ControlPlane). Of Developer Mode, the header it sends is in Diagnostics.
* A restart: nothing of the engine is persisted, so a restart is `Init`. What
  it does to a dashboard session that goes on is modelled.

## 7. Plan

Written, checked and proved, as far as section 5 goes, in this order:
BackendCircuit, CircuitBreaker, Conversation with TurnBudget, RoutingEngine,
ModelRegistry, ControlPlane, ModelCatalog, Diagnostics, Dashboard.

Two things would carry the proofs further:

1. The diagnostics' path of a request is RoutingEngine's without circuits and
   time. That each step of the one is a step of the other would make
   `EndExplained` a theorem of the engine with its circuits.
2. `TurnBudget` is implemented by requests that do not overlap. What a turn
   costs when they do, a bound in the number of overlapping retries, is not
   stated.
