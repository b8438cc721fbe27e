--------------------------- MODULE RoutingEngine ---------------------------
(***************************************************************************)
(* Requests in RoutingEngine.handle (routing/engine.py): the ladder of two *)
(* routers, then the fallback over the task candidates, under one deadline *)
(* and over the circuits that all requests share.  Routers and dispatcher  *)
(* are HTTPRouter.decide and ProviderDispatcher.dispatch.                  *)
(*                                                                         *)
(* asyncio runs a task until its next await.  `loop` names the request     *)
(* whose code is running, and only that request can then take a step; it   *)
(* is Nobody while every request awaits an upstream call.  So the code     *)
(* between two awaits may be several steps here, and is still atomic.      *)
(*                                                                         *)
(* Whether the conversation's budget allows another RETRY round is         *)
(* Conversation's subject: here a retry has up to MaxRounds of them.       *)
(***************************************************************************)
EXTENDS BackendCircuit, FiniteSets, Sequences

CONSTANTS
    Requests,
    Backends,           \* BackendCircuits.BACKENDS
    Providers,
    BackendOf,          \* the backend of each provider
    RouterBackend,      \* the backend of each tier of the ladder
    CandidateLists,     \* what candidates_for returns, by task group
    RouterTimeout,      \* router_timeout
    RequestTimeout,     \* request_timeout
    OverallTimeout,     \* overall_request_timeout
    MaxRounds,          \* RETRY decisions that the budget of a retry allows
    Nobody

Tiers == {"primary_router", "fallback_router"}

ASSUME EngineAssumption ==
    /\ IsFiniteSet(Requests) /\ Nobody \notin Requests
    /\ BackendOf \in [Providers -> Backends]
    /\ RouterBackend \in [Tiers -> Backends]
    /\ CandidateLists \subseteq Seq(Providers)
    /\ RouterTimeout \in Nat \ {0}
    /\ RequestTimeout \in Nat \ {0}
    /\ OverallTimeout \in Nat \ {0}
    /\ MaxRounds \in Nat

VARIABLES
    circuits,   \* the circuit of each backend
    loop,       \* the request whose code is running, or Nobody
    stage,      \* where each request is
    is_retry,   \* request.retry
    budget,     \* RETRY decisions left
    tier,       \* the router of the ladder being asked
    queue,      \* the candidates not yet dealt with, the present one first
    blocked,    \* blocked_backends
    log,        \* provider_attempts: provider and outcome
    age,        \* time since the request arrived
    call_age,   \* time since the present upstream call started
    result,     \* how the request ended
    denied,     \* history: backends that answered it 401 or 403
    window,     \* history: running probes of each half-open window
    quiet       \* history: time since each backend's last transient failure

circuitVars == <<circuits, window, quiet>>
vars == <<circuitVars, loop, stage, is_retry, budget, tier, queue, blocked,
          log, age, call_age, result, denied>>

Stages == {"new", "ladder", "router", "candidates", "provider", "done"}

Awaiting == {r \in Requests : stage[r] \in {"router", "provider"}}

AttemptOutcomes == {"success", "failed", "skipped_auth_failure", "cancelled",
                    "skipped_deadline"}

Results == {"none", "ANSWER", "CLARIFY_OR_STOP", "ROUTER_CHAIN_EXHAUSTED",
            "PROVIDER_UNAVAILABLE", "GATEWAY_ERROR", "INTERNAL_ERROR",
            "DEADLINE_EXCEEDED"}

TypeOK ==
    /\ circuits \in [Backends -> Circuit]
    /\ loop \in Requests \cup {Nobody}
    /\ stage \in [Requests -> Stages]
    /\ is_retry \in [Requests -> BOOLEAN]
    /\ budget \in [Requests -> 0..MaxRounds]
    /\ tier \in [Requests -> Tiers]
    /\ queue \in [Requests -> Seq(Providers)]
    /\ blocked \in [Requests -> SUBSET Backends]
    /\ log \in [Requests ->
                   Seq([provider : Providers, outcome : AttemptOutcomes])]
    /\ age \in [Requests -> 0..OverallTimeout]
    /\ call_age \in [Requests -> Nat]
    /\ result \in [Requests -> Results]
    /\ denied \in [Requests -> SUBSET Backends]
    /\ window \in [Backends -> SUBSET Requests]
    /\ quiet \in [Backends -> NoTime..OpenSeconds]

Init ==
    /\ circuits = [b \in Backends |-> Closed]
    /\ loop = Nobody
    /\ stage = [r \in Requests |-> "new"]
    /\ is_retry = [r \in Requests |-> FALSE]
    /\ budget = [r \in Requests |-> 0]
    /\ tier = [r \in Requests |-> "primary_router"]
    /\ queue = [r \in Requests |-> << >>]
    /\ blocked = [r \in Requests |-> {}]
    /\ log = [r \in Requests |-> << >>]
    /\ age = [r \in Requests |-> 0]
    /\ call_age = [r \in Requests |-> 0]
    /\ result = [r \in Requests |-> "none"]
    /\ denied = [r \in Requests |-> {}]
    /\ window = [b \in Backends |-> {}]
    /\ quiet = [b \in Backends |-> NoTime]

-----------------------------------------------------------------------------
(* The pieces that the steps share                                         *)

\* classify_http_failure: a body that blames the model keeps a 5xx from
\* counting against the backend.
BackendTransient(status, blames_model) == ~blames_model /\ status >= 500

\* How an upstream call can fail: by an HTTP status, by a timeout or the
\* network (transient), or by a response that does not parse.
Failures ==
    {[transient |-> BackendTransient(status, blames_model),
      auth |-> status \in {401, 403}] :
        status \in {400, 401, 403, 404, 429, 500}, blames_model \in BOOLEAN}
    \cup {[transient |-> transient, auth |-> FALSE] : transient \in BOOLEAN}

\* The backend that the request is calling, or about to call.
Target(r) == IF stage[r] \in {"ladder", "router"}
             THEN RouterBackend[tier[r]]
             ELSE BackendOf[Head(queue[r])]

CallTimeout(r) ==
    IF stage[r] = "router" THEN RouterTimeout ELSE RequestTimeout

\* allow_request answered True: the call goes out and the task awaits it.
Admit(r, next_stage) ==
    LET b == Target(r)
    IN  /\ Allows(circuits[b])
        /\ circuits' = [circuits EXCEPT ![b] = AllowRequest(@)]
        /\ window' = [window EXCEPT ![b] =
                         IF circuits'[b].state # "HALF_OPEN" THEN {}
                         ELSE IF circuits[b].state = "HALF_OPEN"
                              THEN @ \cup {r} ELSE {r}]
        /\ stage' = [stage EXCEPT ![r] = next_stage]
        /\ call_age' = [call_age EXCEPT ![r] = 0]
        /\ loop' = Nobody
        /\ UNCHANGED quiet

\* The awaited call is over and leaves its backend's circuit as `after`.
Account(r, after, transient) ==
    LET b == Target(r)
    IN  /\ loop = Nobody
        /\ circuits' = [circuits EXCEPT ![b] = after]
        /\ window' = [window EXCEPT ![b] =
                         IF after.state = "HALF_OPEN" THEN @ \ {r} ELSE {}]
        /\ quiet' = [quiet EXCEPT ![b] = IF transient THEN 0 ELSE @]

Log(r, outcome) ==
    log' = [log EXCEPT ![r] =
               Append(@, [provider |-> Head(queue[r]), outcome |-> outcome])]

\* The request is answered or raises; what it held is forgotten.
End(r, how) ==
    /\ stage' = [stage EXCEPT ![r] = "done"]
    /\ result' = [result EXCEPT ![r] = how]
    /\ age' = [age EXCEPT ![r] = 0]
    /\ call_age' = [call_age EXCEPT ![r] = 0]
    /\ queue' = [queue EXCEPT ![r] = << >>]
    /\ loop' = Nobody

\* The code goes on at another stage without an await.
GoOn(r, next_stage) ==
    /\ stage' = [stage EXCEPT ![r] = next_stage]
    /\ loop' = r
    /\ UNCHANGED <<age, call_age, result>>

\* Mutant of Block: the backend is not remembered.
BlockForgets(r, auth) ==
    /\ UNCHANGED blocked
    /\ denied' = IF auth THEN [denied EXCEPT ![r] = @ \cup {Target(r)}]
                 ELSE denied

\* A 401 or 403 blocks the backend for the rest of the request.
Block(r, auth) ==
    /\ blocked' = IF auth THEN [blocked EXCEPT ![r] = @ \cup {Target(r)}]
                  ELSE blocked
    /\ denied' = IF auth THEN [denied EXCEPT ![r] = @ \cup {Target(r)}]
                 ELSE denied

\* Mutant of TierFailed: the ladder does not end.
TierFailedLoops(r) ==
    /\ tier' = [tier EXCEPT ![r] = "fallback_router"]
    /\ GoOn(r, "ladder")
    /\ UNCHANGED queue

\* A tier of the ladder failed: the next one is asked, or the ladder ends.
TierFailed(r) ==
    IF tier[r] = "primary_router"
    THEN /\ tier' = [tier EXCEPT ![r] = "fallback_router"]
         /\ GoOn(r, "ladder")
         /\ UNCHANGED queue
    ELSE End(r, "ROUTER_CHAIN_EXHAUSTED") /\ UNCHANGED tier

\* A failure that moves the fallback on to the next candidate.
NextCandidate(r, outcome) ==
    /\ Log(r, outcome)
    /\ queue' = [queue EXCEPT ![r] = Tail(@)]
    /\ GoOn(r, "candidates")

-----------------------------------------------------------------------------
(* The ladder of routers: _decision_from_ladder and HTTPRouter.decide      *)

\* handle: a request arrives and its deadline starts.
Arrive(r) ==
    /\ loop = Nobody
    /\ stage[r] = "new"
    /\ \E retry \in BOOLEAN :
          /\ is_retry' = [is_retry EXCEPT ![r] = retry]
          /\ budget' = [budget EXCEPT ![r] = IF retry THEN MaxRounds ELSE 0]
    /\ GoOn(r, "ladder")
    /\ UNCHANGED <<circuitVars, tier, queue, blocked, log, denied>>

\* The circuit lets the router call its backend.
AskRouter(r) ==
    /\ loop = r
    /\ stage[r] = "ladder"
    /\ Admit(r, "router")
    /\ UNCHANGED <<is_retry, budget, tier, queue, blocked, log, age, result,
                   denied>>

\* The circuit is open: the tier failed without a call.
RouterCircuitOpen(r) ==
    /\ loop = r
    /\ stage[r] = "ladder"
    /\ ~Allows(circuits[Target(r)])
    /\ TierFailed(r)
    /\ UNCHANGED <<circuitVars, is_retry, budget, blocked, log, denied>>

\* The router named a task group, which fixes the candidates.
RouterAnswers(r) ==
    /\ stage[r] = "router"
    /\ Account(r, RecordSuccess(circuits[Target(r)]), FALSE)
    /\ \E candidates \in CandidateLists :
          queue' = [queue EXCEPT ![r] = candidates]
    /\ GoOn(r, "candidates")
    /\ UNCHANGED <<is_retry, budget, tier, blocked, log, denied>>

\* Mutant of RouterRetries: the budget is not looked at.
RouterRetriesUnbounded(r) ==
    /\ stage[r] = "router"
    /\ is_retry[r]
    /\ Account(r, RecordSuccess(circuits[Target(r)]), FALSE)
    /\ budget' = [budget EXCEPT ![r] = @ - 1]
    /\ tier' = [tier EXCEPT ![r] = "primary_router"]
    /\ GoOn(r, "ladder")
    /\ UNCHANGED <<is_retry, queue, blocked, log, denied>>

\* RETRY, on a retry: another round of the ladder while the budget lasts.
RouterRetries(r) ==
    /\ stage[r] = "router"
    /\ is_retry[r]
    /\ Account(r, RecordSuccess(circuits[Target(r)]), FALSE)
    /\ IF budget[r] > 0
       THEN /\ budget' = [budget EXCEPT ![r] = @ - 1]
            /\ tier' = [tier EXCEPT ![r] = "primary_router"]
            /\ GoOn(r, "ladder")
            /\ UNCHANGED queue
       ELSE End(r, "CLARIFY_OR_STOP") /\ UNCHANGED <<budget, tier>>
    /\ UNCHANGED <<is_retry, blocked, log, denied>>

\* CLARIFY or STOP.
RouterConcludes(r) ==
    /\ stage[r] = "router"
    /\ Account(r, RecordSuccess(circuits[Target(r)]), FALSE)
    /\ End(r, "CLARIFY_OR_STOP")
    /\ UNCHANGED <<is_retry, budget, tier, blocked, log, denied>>

\* The decision is well-formed, so a success for the circuit, but the
\* validator rejects it.
RouterInvalid(r) ==
    /\ stage[r] = "router"
    /\ Account(r, RecordSuccess(circuits[Target(r)]), FALSE)
    /\ TierFailed(r)
    /\ UNCHANGED <<is_retry, budget, blocked, log, denied>>

\* An HTTP failure, or a decision malformed twice: the failure is recorded,
\* and the exception that carries it releases a probe as well.
RouterFails(r) ==
    /\ stage[r] = "router"
    /\ \E failure \in Failures :
          /\ Account(r, ReleaseProbe(RecordFailure(circuits[Target(r)],
                                                   failure.transient)),
                     failure.transient)
          /\ Block(r, failure.auth)
    /\ TierFailed(r)
    /\ UNCHANGED <<is_retry, budget, log>>

\* asyncio.timeout(router_timeout) expires.
RouterTimesOut(r) ==
    /\ stage[r] = "router"
    /\ call_age[r] = RouterTimeout
    /\ Account(r, RecordFailure(circuits[Target(r)], TRUE), TRUE)
    /\ TierFailed(r)
    /\ UNCHANGED <<is_retry, budget, blocked, log, denied>>

\* Any other exception.
RouterBreaks(r) ==
    /\ stage[r] = "router"
    /\ Account(r, ReleaseProbe(circuits[Target(r)]), FALSE)
    /\ TierFailed(r)
    /\ UNCHANGED <<is_retry, budget, blocked, log, denied>>

-----------------------------------------------------------------------------
(* The candidates: _execute_with_fallback and ProviderDispatcher.dispatch  *)

\* The head of the loop over the candidates, for one that is left.
AtCandidate(r) ==
    /\ loop = r
    /\ stage[r] = "candidates"
    /\ queue[r] # << >>
    /\ age[r] < OverallTimeout

\* No candidate is left.
CandidatesExhausted(r) ==
    /\ loop = r
    /\ stage[r] = "candidates"
    /\ queue[r] = << >>
    /\ End(r, "PROVIDER_UNAVAILABLE")
    /\ UNCHANGED <<circuitVars, is_retry, budget, tier, blocked, log, denied>>

\* The deadline has passed while the last outcome was handled.
DeadlineAtCandidate(r) ==
    /\ loop = r
    /\ stage[r] = "candidates"
    /\ queue[r] # << >>
    /\ age[r] >= OverallTimeout
    /\ End(r, "DEADLINE_EXCEEDED")
    /\ UNCHANGED <<circuitVars, is_retry, budget, tier, blocked, log, denied>>

\* Mutant of SkipBlocked: the candidate leaves no trace.
SkipBlockedSilently(r) ==
    /\ AtCandidate(r)
    /\ BackendOf[Head(queue[r])] \in blocked[r]
    /\ queue' = [queue EXCEPT ![r] = Tail(@)]
    /\ GoOn(r, "candidates")
    /\ UNCHANGED <<circuitVars, is_retry, budget, tier, blocked, log, denied>>

\* The candidate's backend answered this request 401 or 403 before.
SkipBlocked(r) ==
    /\ AtCandidate(r)
    /\ BackendOf[Head(queue[r])] \in blocked[r]
    /\ NextCandidate(r, "skipped_auth_failure")
    /\ UNCHANGED <<circuitVars, is_retry, budget, tier, blocked, denied>>

\* The circuit lets the dispatcher call the candidate.
Dispatch(r) ==
    /\ AtCandidate(r)
    /\ BackendOf[Head(queue[r])] \notin blocked[r]
    /\ Admit(r, "provider")
    /\ UNCHANGED <<is_retry, budget, tier, queue, blocked, log, age, result,
                   denied>>

\* Mutant of ProviderCircuitOpen: the refusal counts as a failure.
ProviderCircuitOpenCounts(r) ==
    /\ AtCandidate(r)
    /\ BackendOf[Head(queue[r])] \notin blocked[r]
    /\ ~Allows(circuits[Target(r)])
    /\ NextCandidate(r, "failed")
    /\ circuits' = [circuits EXCEPT ![Target(r)] = RecordFailure(@, TRUE)]
    /\ UNCHANGED <<window, quiet, is_retry, budget, tier, blocked, denied>>

\* The circuit is open: CIRCUIT_OPEN, which is not a call and not recorded.
ProviderCircuitOpen(r) ==
    /\ AtCandidate(r)
    /\ BackendOf[Head(queue[r])] \notin blocked[r]
    /\ ~Allows(circuits[Target(r)])
    /\ NextCandidate(r, "failed")
    /\ UNCHANGED <<circuitVars, is_retry, budget, tier, blocked, denied>>

\* The candidate answers; the gateway cleans the answer or fails, and an
\* answer that comes at the deadline is dropped.
ProviderAnswers(r) ==
    /\ stage[r] = "provider"
    /\ Account(r, RecordSuccess(circuits[Target(r)]), FALSE)
    /\ Log(r, "success")
    /\ \/ End(r, "GATEWAY_ERROR")
       \/ End(r, IF age[r] >= OverallTimeout THEN "DEADLINE_EXCEEDED"
                 ELSE "ANSWER")
    /\ UNCHANGED <<is_retry, budget, tier, blocked, denied>>

\* ProviderUnavailableError.
ProviderFails(r) ==
    /\ stage[r] = "provider"
    /\ \E failure \in Failures :
          /\ Account(r, RecordFailure(circuits[Target(r)], failure.transient),
                     failure.transient)
          /\ Block(r, failure.auth)
    /\ NextCandidate(r, "failed")
    /\ UNCHANGED <<is_retry, budget, tier>>

\* asyncio.timeout(config.timeout) expires.
ProviderTimesOut(r) ==
    /\ stage[r] = "provider"
    /\ call_age[r] = RequestTimeout
    /\ Account(r, RecordFailure(circuits[Target(r)], TRUE), TRUE)
    /\ NextCandidate(r, "failed")
    /\ UNCHANGED <<is_retry, budget, tier, blocked, denied>>

\* ProviderDisabledError: disabled since the candidates were listed.
ProviderDisabled(r) ==
    /\ stage[r] = "provider"
    /\ Account(r, ReleaseProbe(circuits[Target(r)]), FALSE)
    /\ NextCandidate(r, "failed")
    /\ UNCHANGED <<is_retry, budget, tier, blocked, denied>>

\* Any other exception ends the request.
ProviderBreaks(r) ==
    /\ stage[r] = "provider"
    /\ Account(r, ReleaseProbe(circuits[Target(r)]), FALSE)
    /\ Log(r, "failed")
    /\ End(r, "INTERNAL_ERROR")
    /\ UNCHANGED <<is_retry, budget, tier, blocked, denied>>

-----------------------------------------------------------------------------
(* Time                                                                    *)

\* The log once the call to the first candidate of `pending` is cancelled:
\* the others are recorded as skipped.
CancelledLog(attempts, pending) ==
    attempts \o [i \in 1..Len(pending) |->
                    [provider |-> pending[i],
                     outcome |-> IF i = 1 THEN "cancelled"
                                 ELSE "skipped_deadline"]]

\* Mutant of Deadline: a cancelled call keeps its probe slot, as it would
\* with `except Exception` for `except BaseException`.
DeadlineKeepsSlot(r) ==
    /\ r \in Awaiting
    /\ age[r] = OverallTimeout
    /\ Account(r, circuits[Target(r)], FALSE)
    /\ log' = IF stage[r] = "router" THEN log
              ELSE [log EXCEPT ![r] = CancelledLog(@, queue[r])]
    /\ End(r, "DEADLINE_EXCEEDED")
    /\ UNCHANGED <<is_retry, budget, tier, blocked, denied>>

\* asyncio.timeout_at(deadline) cancels the task at its await.
Deadline(r) ==
    /\ r \in Awaiting
    /\ age[r] = OverallTimeout
    /\ Account(r, ReleaseProbe(circuits[Target(r)]), FALSE)
    /\ log' = IF stage[r] = "router" THEN log
              ELSE [log EXCEPT ![r] = CancelledLog(@, queue[r])]
    /\ End(r, "DEADLINE_EXCEEDED")
    /\ UNCHANGED <<is_retry, budget, tier, blocked, denied>>

\* The clock advances by one unit.  Timers that are due run first.
Tick ==
    /\ loop = Nobody
    /\ \A r \in Awaiting :
          age[r] < OverallTimeout /\ call_age[r] < CallTimeout(r)
    /\ circuits' = [b \in Backends |-> Age(circuits[b])]
    /\ quiet' = [b \in Backends |->
                    IF quiet[b] \in 0..(OpenSeconds - 1) THEN quiet[b] + 1
                    ELSE quiet[b]]
    /\ age' = [r \in Requests |->
                  IF r \in Awaiting THEN age[r] + 1 ELSE age[r]]
    /\ call_age' = [r \in Requests |->
                       IF r \in Awaiting THEN call_age[r] + 1
                       ELSE call_age[r]]
    /\ UNCHANGED <<window, loop, stage, is_retry, budget, tier, queue,
                   blocked, log, result, denied>>

\* The code that runs without an await.
Run(r) ==
    \/ AskRouter(r) \/ RouterCircuitOpen(r)
    \/ CandidatesExhausted(r) \/ DeadlineAtCandidate(r)
    \/ SkipBlocked(r) \/ Dispatch(r) \/ ProviderCircuitOpen(r)

\* An upstream call returns.
Return(r) ==
    \/ RouterAnswers(r) \/ RouterRetries(r) \/ RouterConcludes(r)
    \/ RouterInvalid(r) \/ RouterFails(r) \/ RouterBreaks(r)
    \/ ProviderAnswers(r) \/ ProviderFails(r) \/ ProviderDisabled(r)
    \/ ProviderBreaks(r)

\* A timer that is due.
Expire(r) == RouterTimesOut(r) \/ ProviderTimesOut(r) \/ Deadline(r)

Next ==
    \/ \E r \in Requests : Arrive(r) \/ Run(r) \/ Return(r) \/ Expire(r)
    \/ Tick

Spec == Init /\ [][Next]_vars

\* The event loop runs what is ready, timers fire and time passes; whether
\* an upstream ever answers is not assumed.
FairSpec ==
    /\ Spec
    /\ WF_vars(Tick)
    /\ \A r \in Requests : WF_vars(Run(r)) /\ WF_vars(Expire(r))

-----------------------------------------------------------------------------
(* Properties                                                              *)

\* "A 401/403 blocks its backend only for the current request" (README): no
\* task call goes to a backend that has answered this request so, be it as a
\* router or as a provider, in this or an earlier RETRY round.
DeniedNotDispatched ==
    [][\A r \in Requests :
          stage[r] = "candidates" /\ stage'[r] = "provider"
          => BackendOf[Head(queue[r])] \notin denied[r]]_vars

\* The same sentence for the calls to routers.  It does not hold: the ladder
\* of a later RETRY round asks such a backend again (README.md, section 4).
DeniedNotAsked ==
    [][\A r \in Requests :
          stage[r] = "ladder" /\ stage'[r] = "router"
          => RouterBackend[tier[r]] \notin denied[r]]_vars

LogProviders(attempts) ==
    [i \in 1..Len(attempts) |-> attempts[i].provider]

\* The first n candidates of a log were skipped or failed.
Passed(attempts, n) ==
    \A i \in 1..n : attempts[i].outcome \in {"failed", "skipped_auth_failure"}

\* The candidates of a log, in its order, are the first ones of a list.
InOrder(attempts) ==
    \E list \in CandidateLists : \E n \in 1..Len(list) :
        LogProviders(attempts) = SubSeq(list, 1, n)

\* The last candidate of a log answered, and those before it did not.
Served(attempts) ==
    /\ attempts # << >>
    /\ Passed(attempts, Len(attempts) - 1)
    /\ attempts[Len(attempts)].outcome = "success"

\* A log of the whole list, where one call was cancelled and the candidates
\* after it were not reached.
CutOff(attempts) ==
    /\ LogProviders(attempts) \in CandidateLists
    /\ \E k \in 1..Len(attempts) :
          /\ Passed(attempts, k - 1)
          /\ attempts[k].outcome = "cancelled"
          /\ \A i \in (k + 1)..Len(attempts) :
                attempts[i].outcome = "skipped_deadline"

\* What the log of a request says when the request ended so, or still runs.
Accounted(attempts, how) ==
    /\ attempts # << >> => InOrder(attempts)
    /\ how \in {"CLARIFY_OR_STOP", "ROUTER_CHAIN_EXHAUSTED"} =>
          attempts = << >>
    /\ how \in {"none", "PROVIDER_UNAVAILABLE", "INTERNAL_ERROR"} =>
          Passed(attempts, Len(attempts))
    /\ how = "PROVIDER_UNAVAILABLE" =>
          LogProviders(attempts) \in CandidateLists
    /\ how = "INTERNAL_ERROR" =>
          attempts # << >> /\ attempts[Len(attempts)].outcome = "failed"
    /\ how \in {"ANSWER", "GATEWAY_ERROR"} => Served(attempts)
    /\ how = "DEADLINE_EXCEEDED" =>
          \/ Passed(attempts, Len(attempts))
          \/ Served(attempts)
          \/ CutOff(attempts)

\* The diagnostics account for the candidates of a request in the order of
\* its list.  One that gives up has tried or skipped each; one that is served
\* was served by the last in its log; one that breaks, broke on the last.  A
\* deadline that cancels a call leaves an entry for every candidate.  One met
\* in a router or at the head of the loop over the candidates
\* (routing/engine.py:407-408) leaves only the entries of those dealt with,
\* and one met by an answer, the answer's success.
LogComplete == \A r \in Requests : Accounted(log[r], result[r])

\* When no request is under way, no circuit holds a probe slot.
QuiescentCircuits ==
    (\A r \in Requests : stage[r] \in {"new", "done"}) =>
        \A b \in Backends : circuits[b].half_open_inflight = 0

\* Every request ends, even if no upstream ever answers.
EveryRequestEnds ==
    \A r \in Requests : stage[r] = "ladder" ~> stage[r] = "done"

\* On each backend, the calls of all requests, as routers and as providers,
\* are the calls of CircuitBreaker: what holds there holds here.
Shared(b) == INSTANCE CircuitBreaker WITH
    RouterCalls <- {<<r, "router">> : r \in Requests},
    TaskCalls   <- {<<r, "provider">> : r \in Requests},
    circuit <- circuits[b],
    age <- [call \in Requests \X {"router", "provider"} |->
               IF stage[call[1]] = call[2] /\ Target(call[1]) = b
               THEN call_age[call[1]] ELSE NoTime],
    window <- {<<r, stage[r]>> : r \in window[b]},
    quiet <- quiet[b]

SharesCircuits ==
    /\ \A b \in Backends : Shared(b)!Init
    /\ [][\A b \in Backends : [Shared(b)!Next]_(Shared(b)!vars)]_vars

=============================================================================
