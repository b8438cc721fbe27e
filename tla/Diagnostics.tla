---------------------------- MODULE Diagnostics ----------------------------
(***************************************************************************)
(* What a request reports of itself: the capture that the engine fills on  *)
(* the way (_DiagnosticsCapture, routing/engine.py), the diagnostics built *)
(* from it wherever the request ends, and the envelope that the handlers   *)
(* of api/main.py make of the outcome.                                     *)
(*                                                                         *)
(* A capture belongs to one request, so one request is modelled.  What     *)
(* other requests do to it shows in its outcomes only: any call may meet   *)
(* an open circuit, fail in each class, or be cut by the deadline.  When   *)
(* those outcomes can occur is RoutingEngine's subject, and whether a      *)
(* RETRY round is left is Conversation's.                                  *)
(***************************************************************************)
EXTENDS Integers, SequencesExt

CONSTANTS
    Providers,
    Backends,
    BackendOf,          \* the backend of each provider
    RouterBackend,      \* the backend of each tier of the ladder
    CandidateLists,     \* what candidates_for returns, by task group
    Statuses,           \* the HTTP statuses that upstreams fail with
    HttpFailureReason,  \* http_failure_reason of each: a text of its own
    MaxRounds,          \* RETRY decisions that the budget of a retry allows
    None

Tiers == {"primary_router", "fallback_router"}

NoStatus == 0

ASSUME DiagnosticsAssumption ==
    /\ BackendOf \in [Providers -> Backends]
    /\ RouterBackend \in [Tiers -> Backends]
    /\ CandidateLists \subseteq Seq(Providers)
    /\ Statuses \subseteq (100..999) \ (200..299)  \* raise_for_status
    /\ HttpFailureReason \in [Statuses -> STRING \ {"NONE"}]
    /\ MaxRounds \in Nat
    /\ None \notin Providers \cup Tiers

VARIABLES
    pc,         \* where the request is
    access,     \* its headers and the server's settings for developers
    is_retry,   \* request.retry
    rounds,     \* RETRY decisions left
    tier,       \* the router of the ladder being asked
    queue,      \* the candidates not yet dealt with, the present one first
    blocked,    \* blocked_backends
    capture,    \* _DiagnosticsCapture
    last_error, \* the last failure of a candidate
    response,   \* the envelope that the client gets
    observed,   \* history: the last HTTP error an upstream sent
    candidates, \* history: the list of candidates, and
    answered_by \* history: the provider whose answer came back

handled == <<access, is_retry, rounds, tier>>
pathVars == <<queue, blocked, last_error>>
historyVars == <<observed, candidates, answered_by>>
vars == <<pc, capture, response, handled, pathVars, historyVars>>

-----------------------------------------------------------------------------
(* Failures and their classes                                              *)

\* classify_http_failure, of a status and a body that may blame the model.
ClassifyHttpFailure(status, blames_model) ==
    IF blames_model \/ status \in {404, 429} THEN "MODEL_SPECIFIC"
    ELSE IF status >= 500 THEN "BACKEND_TRANSIENT" ELSE "NON_TRANSIENT"

HttpErrors ==
    {[status |-> status, reason |-> HttpFailureReason[status],
      scope |-> ClassifyHttpFailure(status, blames_model),
      blocks |-> status \in {401, 403}] :
        status \in Statuses, blames_model \in BOOLEAN}

LocalError(reason, scope) ==
    [status |-> NoStatus, reason |-> reason, scope |-> scope, blocks |-> FALSE]

\* An open circuit, a timeout and the network fail routers and providers
\* alike.
SharedErrors ==
    HttpErrors \cup
    {LocalError(reason, "BACKEND_TRANSIENT") :
        reason \in {"CIRCUIT_OPEN", "TIMEOUT", "NETWORK_ERROR"}}

\* A decision that stays malformed, as JSON or as a decision, one that the
\* validator rejects, or an error that decide does not know.
RouterErrors ==
    SharedErrors \cup
    {LocalError(reason, "NON_TRANSIENT") :
        reason \in {"INVALID_ROUTER_JSON", "SCHEMA_VALIDATION_FAILED", "UNKNOWN"}}
    \cup {LocalError("INVALID_DECISION", "NONE")}

\* A body that is no completion, or a provider disabled meanwhile.
ProviderErrors ==
    SharedErrors \cup
    {LocalError("INVALID_PROVIDER_RESPONSE", "MODEL_SPECIFIC"),
     LocalError("UNKNOWN", "NONE")}

\* failure_class: an InvalidDecisionError has no failure_reason to fall
\* back on.
FailureClass(error) ==
    IF error.status \in {401, 403} THEN "AUTH"
    ELSE IF error.status = 429 THEN "HTTP_429"
    ELSE IF error.status >= 500 THEN "HTTP_5XX"
    ELSE IF error.status = 404 \/ error.scope = "MODEL_SPECIFIC"
         THEN "MODEL_UNAVAILABLE"
    ELSE IF error.status >= 400 THEN "HTTP_4XX"
    ELSE IF error.reason = "INVALID_DECISION" THEN "UNKNOWN"
    ELSE error.reason

-----------------------------------------------------------------------------
(* The capture and what is built from it                                   *)

Attempt(who, outcome, class, status) ==
    [who |-> who, outcome |-> outcome, failure_class |-> class,
     upstream_status |-> status]

\* A tier of the ladder, or a candidate, is dealt with.
LogRouter(cap, outcome, class, status) ==
    [cap EXCEPT !.router_attempts =
        Append(@, Attempt(tier, outcome, class, status))]

LogProvider(cap, outcome, class, status) ==
    [cap EXCEPT !.provider_attempts =
        Append(@, Attempt(Head(queue), outcome, class, status))]

NewCapture ==
    [router_used |-> None, selected_provider |-> None,
     initial_provider |-> None, router_attempts |-> << >>,
     provider_attempts |-> << >>, fallback_used |-> FALSE,
     provider_error |-> None]

\* Mutant of Attempts: the latest attempts come first.
AttemptsProvidersFirst(cap) == cap.provider_attempts \o cap.router_attempts

\* Both logs as _build_diagnostics reads them, oldest first.
Attempts(cap) == cap.router_attempts \o cap.provider_attempts

\* The status, or the class, of the latest attempt that has one.
LastStatus(cap) ==
    LET i == SelectLastInSeq(Attempts(cap),
                             LAMBDA a : a.upstream_status # NoStatus)
    IN  IF i = 0 THEN NoStatus ELSE Attempts(cap)[i].upstream_status

LastClass(cap) ==
    LET i == SelectLastInSeq(Attempts(cap), LAMBDA a : a.failure_class # None)
    IN  IF i = 0 THEN "UNKNOWN" ELSE Attempts(cap)[i].failure_class

\* _build_diagnostics.  The handlers set http_status and failure_level.
BuildDiagnostics(cap, stage, reason, upstream_status) ==
    [router_used |-> cap.router_used,
     initial_provider |-> cap.initial_provider,
     final_provider |-> cap.selected_provider,
     router_attempts |-> cap.router_attempts,
     fallback_path |-> cap.provider_attempts,
     fallback_count |-> IF cap.provider_attempts = << >> THEN 0
                        ELSE Len(cap.provider_attempts) - 1,
     fallback_used |-> cap.fallback_used,
     router_fallback_used |->
        \E i \in DOMAIN cap.router_attempts :
            cap.router_attempts[i].who = "fallback_router",
     provider_fallback_used |-> Len(cap.provider_attempts) > 1,
     upstream_status |-> IF upstream_status # NoStatus THEN upstream_status
                         ELSE LastStatus(cap),
     failure_class |-> IF reason = "NONE" THEN None
                       ELSE IF reason = "DEADLINE_EXCEEDED" THEN reason
                       ELSE LastClass(cap),
     failure_stage |-> stage,
     failure_reason |-> reason,
     provider_error |-> cap.provider_error,
     failure_level |-> None,
     http_status |-> NoStatus]

\* _request_failure_diagnostics: the engine built none.
RequestFailureDiagnostics ==
    [BuildDiagnostics(NewCapture, "request", "UNKNOWN", NoStatus)
        EXCEPT !.failure_class = None]

-----------------------------------------------------------------------------
(* The envelope: the handlers of api/main.py                               *)

\* What DEVELOPER_MODE_ENABLED and DEVELOPER_TOKEN are, and what the two
\* headers of the request say.
Accesses == [enabled : BOOLEAN, has_token : BOOLEAN, token_matches : BOOLEAN,
             asked : BOOLEAN]

\* _developer_mode.
DeveloperMode ==
    /\ access.enabled
    /\ access.has_token => access.token_matches
    /\ access.asked

Reply(status, code, level) == [status |-> status, code |-> code, level |-> level]

\* The handler of each exception that a chat request can end in.
Handler ==
    [RequestValidationError |-> Reply(422, "INVALID_REQUEST", "request"),
     HTTPException |-> Reply(422, "INVALID_REQUEST", "request"),
     InvalidRoutingRequestError |-> Reply(422, "INVALID_REQUEST", "request"),
     ConversationNotFoundError |-> Reply(404, "INVALID_CONVERSATION", "request"),
     PolicyNotFoundError |-> Reply(404, "POLICY_NOT_FOUND", "policy"),
     GovernanceDeniedError |->
        Reply(403, "GOVERNANCE_POLICY_DENIED", "governance"),
     RoutingEngineError |-> Reply(503, "ROUTER_FAILURE", "router"),
     ProviderExecutionError |-> Reply(503, "PROVIDER_UNAVAILABLE", "provider"),
     GatewayExecutionError |-> Reply(503, "GATEWAY_FAILURE", "gateway"),
     DeadlineExceededError |-> Reply(504, "DEADLINE_EXCEEDED", "deadline"),
     UnexpectedExecutionError |-> Reply(500, "INTERNAL_ERROR", "unknown")]

NoResponse == [status |-> NoStatus, code |-> None, failure_level |-> None,
               diagnostics |-> None]

\* _error_response: beside the error, and for developers only.
ErrorResponse(exception, diagnostics) ==
    LET reply == Handler[exception]
    IN  [status |-> reply.status,
         code |-> reply.code,
         failure_level |-> IF DeveloperMode THEN reply.level ELSE None,
         diagnostics |->
            IF DeveloperMode
            THEN [diagnostics EXCEPT !.http_status = reply.status,
                                     !.failure_level = reply.level]
            ELSE None]

\* chat and chat_v2, with _attach_diagnostics.
SuccessResponse(action, cap) ==
    [status |-> 200,
     code |-> action,
     failure_level |-> None,
     diagnostics |->
        IF DeveloperMode
        THEN [BuildDiagnostics(cap, "none", "NONE", NoStatus)
                EXCEPT !.http_status = 200]
        ELSE None]

\* The request ends: its exception reaches a handler, or its result the
\* client.
Fail(exception, diagnostics) ==
    /\ pc' = "done"
    /\ response' = ErrorResponse(exception, diagnostics)

\* Mutant of Conclude: a missing return.
ConcludeGoesOn(action, cap) ==
    /\ UNCHANGED pc
    /\ response' = SuccessResponse(action, cap)

Conclude(action, cap) ==
    /\ pc' = "done"
    /\ response' = SuccessResponse(action, cap)

\* handle: the deadline, which no capture escapes.
DeadlineExceeded(cap) ==
    Fail("DeadlineExceededError",
         BuildDiagnostics(cap, "deadline", "DEADLINE_EXCEEDED", NoStatus))

Observe(error) ==
    observed' = IF error.status # NoStatus THEN error.status ELSE observed

-----------------------------------------------------------------------------
(* The request                                                             *)

Init ==
    /\ pc = "new"
    /\ access \in Accesses
    /\ is_retry = FALSE
    /\ rounds = 0
    /\ tier = "primary_router"
    /\ queue = << >>
    /\ blocked = {}
    /\ capture = NewCapture
    /\ last_error = None
    /\ response = NoResponse
    /\ observed = NoStatus
    /\ candidates = << >>
    /\ answered_by = None

\* The body or the tenant header is invalid, a retry names a conversation
\* that does not exist, or a V2 request a policy that does not.
Reject ==
    /\ pc = "new"
    /\ \E exception \in {"RequestValidationError", "HTTPException",
                         "ConversationNotFoundError", "PolicyNotFoundError"} :
          Fail(exception, RequestFailureDiagnostics)
    /\ UNCHANGED <<handled, pathVars, historyVars, capture>>

\* A retry of an image turn without its image.
RejectImageless ==
    /\ pc = "new"
    /\ Fail("InvalidRoutingRequestError",
            BuildDiagnostics(capture, "request", "IMAGE_REQUIRED", NoStatus))
    /\ UNCHANGED <<handled, pathVars, historyVars, capture>>

\* _handle goes on to _route.
Accept ==
    /\ pc = "new"
    /\ \E retry \in BOOLEAN :
          /\ is_retry' = retry
          /\ rounds' = IF retry THEN MaxRounds ELSE 0
    /\ pc' = "round"
    /\ UNCHANGED <<pathVars, historyVars, access, tier, capture, response>>

\* The retry guard fires: at once, or after a round's charge.
Stop ==
    /\ pc = "round"
    /\ Conclude("STOP", capture)
    /\ UNCHANGED <<handled, pathVars, historyVars, capture>>

\* No provider is left under the active governance policy.
Deny ==
    /\ pc = "round"
    /\ Fail("GovernanceDeniedError",
            BuildDiagnostics(capture, "governance", "GOVERNANCE_POLICY_DENIED",
                             NoStatus))
    /\ UNCHANGED <<handled, pathVars, historyVars, capture>>

\* The ladder of the round starts.
AskRouters ==
    /\ pc = "round"
    /\ pc' = "router"
    /\ tier' = "primary_router"
    /\ UNCHANGED <<pathVars, historyVars, access, is_retry, rounds, capture,
                   response>>

\* A tier fails: the other is asked, or the ladder is exhausted.
RouterFails ==
    /\ pc = "router"
    /\ \E error \in RouterErrors :
          /\ capture' = [LogRouter(capture, "failed", FailureClass(error),
                                   error.status) EXCEPT !.fallback_used = TRUE]
          /\ blocked' = IF error.blocks THEN blocked \cup {RouterBackend[tier]}
                        ELSE blocked
          /\ Observe(error)
    /\ IF tier = "primary_router"
       THEN tier' = "fallback_router" /\ UNCHANGED <<pc, response>>
       ELSE /\ Fail("RoutingEngineError",
                    BuildDiagnostics(capture', "fallback_router",
                                     "ROUTER_CHAIN_EXHAUSTED", NoStatus))
            /\ UNCHANGED tier
    /\ UNCHANGED <<access, is_retry, rounds, queue, last_error, candidates,
                   answered_by>>

\* The deadline cancels the call of a router.
RouterCancelled ==
    /\ pc = "router"
    /\ capture' = LogRouter(capture, "cancelled", "DEADLINE_EXCEEDED", NoStatus)
    /\ DeadlineExceeded(capture')
    /\ UNCHANGED <<handled, pathVars, historyVars>>

\* A valid decision is logged, whatever it is.
Decided == [LogRouter(capture, "success", None, NoStatus)
                EXCEPT !.router_used = tier]

\* RETRY, on a retry: another round, which the budget may refuse.
RouterRetries ==
    /\ pc = "router"
    /\ is_retry
    /\ capture' = Decided
    /\ IF rounds > 0
       THEN /\ rounds' = rounds - 1
            /\ pc' = "round"
            /\ UNCHANGED response
       ELSE Conclude("STOP", capture') /\ UNCHANGED rounds
    /\ UNCHANGED <<pathVars, historyVars, access, is_retry, tier>>

RouterConcludes ==
    /\ pc = "router"
    /\ capture' = Decided
    /\ \E action \in {"CLARIFY", "STOP"} : Conclude(action, capture')
    /\ UNCHANGED <<handled, pathVars, historyVars>>

\* ANSWER names a group, which fixes the candidates.
RouterAnswers ==
    /\ pc = "router"
    /\ \E list \in CandidateLists :
          /\ queue' = list
          /\ candidates' = list
          /\ capture' = IF list = << >> THEN Decided
                        ELSE [Decided EXCEPT !.initial_provider = Head(list)]
    /\ pc' = "candidates"
    /\ UNCHANGED <<handled, blocked, last_error, response, observed,
                   answered_by>>

-----------------------------------------------------------------------------
(* _execute_with_fallback                                                  *)

\* Every candidate was tried or skipped: the reason is the last failure's.
Exhausted ==
    /\ pc = "candidates"
    /\ queue = << >>
    /\ LET reason == IF last_error = None THEN "NO_ELIGIBLE_PROVIDER"
                     ELSE last_error.reason
           status == IF last_error = None THEN NoStatus ELSE last_error.status
       IN  Fail("ProviderExecutionError",
                BuildDiagnostics(capture, "provider", reason, status))
    /\ UNCHANGED <<handled, pathVars, historyVars, capture>>

\* The deadline has passed before a candidate is tried.
LateAtCandidate ==
    /\ pc = "candidates"
    /\ queue # << >>
    /\ DeadlineExceeded(capture)
    /\ UNCHANGED <<handled, pathVars, historyVars, capture>>

\* The candidate's backend has denied this request.
SkipBlocked ==
    /\ pc = "candidates"
    /\ queue # << >>
    /\ BackendOf[Head(queue)] \in blocked
    /\ capture' = LogProvider(capture, "skipped_auth_failure", "AUTH", NoStatus)
    /\ queue' = Tail(queue)
    /\ UNCHANGED <<handled, historyVars, pc, blocked, last_error, response>>

\* Mutant of AskProvider: the provider is selected before it answers.
AskProviderSelects ==
    /\ pc = "candidates"
    /\ queue # << >>
    /\ BackendOf[Head(queue)] \notin blocked
    /\ pc' = "provider"
    /\ capture' = [capture EXCEPT !.selected_provider = Head(queue)]
    /\ UNCHANGED <<handled, pathVars, historyVars, response>>

AskProvider ==
    /\ pc = "candidates"
    /\ queue # << >>
    /\ BackendOf[Head(queue)] \notin blocked
    /\ pc' = "provider"
    /\ UNCHANGED <<handled, pathVars, historyVars, capture, response>>

\* ProviderUnavailableError or ProviderDisabledError: the next one is tried.
ProviderFails ==
    /\ pc = "provider"
    /\ \E error \in ProviderErrors :
          /\ last_error' = error
          /\ blocked' = IF error.blocks
                        THEN blocked \cup {BackendOf[Head(queue)]} ELSE blocked
          /\ capture' = [LogProvider(capture, "failed", FailureClass(error),
                                     error.status)
                            EXCEPT !.fallback_used = TRUE,
                                   !.provider_error = error.reason]
          /\ Observe(error)
    /\ queue' = Tail(queue)
    /\ pc' = "candidates"
    /\ UNCHANGED <<handled, response, candidates, answered_by>>

\* Any other exception ends the request.
ProviderBreaks ==
    /\ pc = "provider"
    /\ capture' = LogProvider(capture, "failed", "UNKNOWN", NoStatus)
    /\ Fail("UnexpectedExecutionError",
            BuildDiagnostics(capture', "dispatcher", "UNKNOWN", NoStatus))
    /\ UNCHANGED <<handled, pathVars, historyVars>>

\* The deadline cancels the call; the candidates left are logged with it.
ProviderCancelled ==
    /\ pc = "provider"
    /\ LET cut == LogProvider(capture, "cancelled", "DEADLINE_EXCEEDED", NoStatus)
           Skipped(p) == Attempt(p, "skipped_deadline", "DEADLINE_EXCEEDED",
                                 NoStatus)
           pending == [i \in DOMAIN Tail(queue) |-> Skipped(Tail(queue)[i])]
       IN  capture' = [cut EXCEPT !.provider_attempts = @ \o pending]
    /\ DeadlineExceeded(capture')
    /\ UNCHANGED <<handled, pathVars, historyVars>>

\* The call succeeds; its answer goes to the gateway.
ProviderAnswers ==
    /\ pc = "provider"
    /\ LET cap == LogProvider(capture, "success", None, NoStatus)
       IN  capture' = [cap EXCEPT
                         !.selected_provider = Head(queue),
                         !.fallback_used = @ \/ Len(cap.provider_attempts) > 1]
    /\ answered_by' = Head(queue)
    /\ pc' = "gateway"
    /\ UNCHANGED <<handled, pathVars, response, observed, candidates>>

\* The gateway cleans the answer, or fails on it, or the deadline has passed.
Gateway ==
    /\ pc = "gateway"
    /\ \/ Conclude("ANSWER", capture)
       \/ Fail("GatewayExecutionError",
               BuildDiagnostics(capture, "gateway", "UNKNOWN", NoStatus))
       \/ DeadlineExceeded(capture)
    /\ UNCHANGED <<handled, pathVars, historyVars, capture>>

Next ==
    \/ Reject \/ RejectImageless \/ Accept
    \/ Stop \/ Deny \/ AskRouters
    \/ RouterFails \/ RouterCancelled \/ RouterRetries \/ RouterConcludes
    \/ RouterAnswers
    \/ Exhausted \/ LateAtCandidate \/ SkipBlocked \/ AskProvider
    \/ ProviderFails \/ ProviderBreaks \/ ProviderCancelled \/ ProviderAnswers
    \/ Gateway

Spec == Init /\ [][Next]_vars

-----------------------------------------------------------------------------
(* Properties                                                              *)

Outcomes == {"success", "failed", "skipped_auth_failure", "cancelled",
             "skipped_deadline"}

\* The classes of failures in a log: a redirect, say, has none of its own
\* and is logged under its reason.
FailureClasses ==
    {"AUTH", "HTTP_429", "HTTP_5XX", "HTTP_4XX", "MODEL_UNAVAILABLE",
     "CIRCUIT_OPEN", "TIMEOUT", "NETWORK_ERROR", "INVALID_ROUTER_JSON",
     "SCHEMA_VALIDATION_FAILED", "DEADLINE_EXCEEDED", "UNKNOWN"}
    \cup {HttpFailureReason[status] : status \in {s \in Statuses : s < 400}}

AttemptsOf(whom) ==
    Seq([who : whom, outcome : Outcomes,
         failure_class : FailureClasses \cup {None},
         upstream_status : Statuses \cup {NoStatus}])

TypeOK ==
    /\ pc \in {"new", "round", "router", "candidates", "provider", "gateway",
               "done"}
    /\ access \in Accesses
    /\ is_retry \in BOOLEAN
    /\ rounds \in 0..MaxRounds
    /\ tier \in Tiers
    /\ queue \in Seq(Providers)
    /\ blocked \subseteq Backends
    /\ capture \in
          [router_used : Tiers \cup {None},
           selected_provider : Providers \cup {None},
           initial_provider : Providers \cup {None},
           router_attempts : AttemptsOf(Tiers),
           provider_attempts : AttemptsOf(Providers),
           fallback_used : BOOLEAN,
           provider_error :
               {error.reason : error \in ProviderErrors} \cup {None}]
    /\ last_error \in ProviderErrors \cup {None}
    /\ (pc = "done") = (response # NoResponse)
    /\ observed \in Statuses \cup {NoStatus}
    /\ candidates \in Seq(Providers)
    /\ answered_by \in Providers \cup {None}

Reported == pc = "done" /\ response.diagnostics # None

\* "upstream_status is the last observed upstream error status, or null when
\* unavailable" (API_Contracts): of all HTTP errors that routers and
\* candidates sent in all rounds, every response that has diagnostics shows
\* the last one, though the engine reads two logs and an explicit status.
UpstreamStatusLast ==
    Reported => response.diagnostics.upstream_status = observed

\* However the request ended, its diagnostics explain it: the path lists the
\* candidates in the order of the ladder, from the initial provider on; the
\* final provider is the one that answered, if any did, and its success ends
\* the path; only a completed request has no failure reason; the statuses
\* agree.  And they are shown to developers only.
EndExplained ==
    /\ Reported =>
          LET shown == response.diagnostics
              path == shown.fallback_path
          IN  /\ [i \in DOMAIN path |-> path[i].who]
                    = SubSeq(candidates, 1, Len(path))
              /\ path # << >> => shown.initial_provider = path[1].who
              /\ shown.final_provider = answered_by
              /\ (answered_by # None)
                    = (path # << >> /\ Last(path).outcome = "success")
              /\ (shown.failure_reason = "NONE") = (response.status = 200)
              /\ (shown.failure_stage = "none") = (response.status = 200)
              /\ response.status = 200 => shown.failure_class = None
              /\ shown.http_status = response.status
    /\ Reported => /\ access.enabled /\ access.asked
                   /\ access.has_token => access.token_matches

\* The class that is reported is that of the failure that the reason names.
\* It does not hold: after the last failure a candidate may be skipped, and
\* a failed gateway reports a failure that the fallback had recovered from
\* (README.md, section 4).
ClassMatchesReason ==
    Reported =>
        /\ response.code = "PROVIDER_UNAVAILABLE" /\ last_error # None =>
              response.diagnostics.failure_class = FailureClass(last_error)
        /\ response.code = "GATEWAY_FAILURE" =>
              response.diagnostics.failure_class = "UNKNOWN"

\* "The legacy fallback_used aggregate" (API_Contracts) is the disjunction of
\* its two parts.  It does not hold: one failing candidate without a
\* successor sets it, and candidates skipped at the deadline do not.
AggregateMatches ==
    Reported =>
        LET shown == response.diagnostics
        IN  shown.fallback_used = \/ shown.router_fallback_used
                                  \/ shown.provider_fallback_used

\* A ladder that is exhausted has used no router.  It does not hold in a
\* second round: the router of the first one is still shown.
ExhaustedUsedNoRouter ==
    Reported /\ response.code = "ROUTER_FAILURE" =>
        response.diagnostics.router_used = None

=============================================================================
