-------------------------- MODULE DiagnosticsProofs --------------------------
(***************************************************************************)
(* Proofs about Diagnostics, for any providers, backends, upstream         *)
(* statuses and lists of candidates: its types, that the last upstream     *)
(* status is the one shown, and that the diagnostics explain how the       *)
(* request ended.                                                          *)
(*                                                                         *)
(* The diagnostics are built from the capture at the very end, so the      *)
(* capture has to be right wherever a request may end.  Explained says so  *)
(* of the path, StatusKept of the status; the parts between them say what  *)
(* each stage of the request relies on.                                    *)
(***************************************************************************)
EXTENDS Diagnostics, SequenceTheorems, WellFoundedInduction, TLAPS

\* What a capture tells of the candidates tried fits the list it had and
\* the provider that answered.
Explains(cap, list, who) ==
    LET path == cap.provider_attempts
    IN  /\ Len(path) <= Len(list)
        /\ \A i \in 1..Len(path) : path[i].who = list[i]
        /\ path # << >> => cap.initial_provider = path[1].who
        /\ cap.selected_provider = who
        /\ (who # None)
              = (path # << >> /\ path[Len(path)].outcome = "success")

Explained == Explains(capture, candidates, answered_by)

\* No candidate is tried before the routers are done.
Untried ==
    pc \in {"new", "round", "router"} =>
        capture.provider_attempts = << >> /\ last_error = None

\* Nothing at all is known of a request that is new.
Fresh == pc = "new" => capture = NewCapture /\ observed = NoStatus

\* The path and what is left of the queue make up the list of candidates.
Divides(path, list, rest) ==
    /\ Len(list) = Len(path) + Len(rest)
    /\ \A i \in 1..Len(path) : path[i].who = list[i]
    /\ \A j \in 1..Len(rest) : rest[j] = list[Len(path) + j]

\* So it is while candidates are tried, and none of them has answered.
Divided ==
    pc \in {"candidates", "provider"} =>
        /\ Divides(capture.provider_attempts, candidates, queue)
        /\ candidates # << >> => capture.initial_provider = candidates[1]
        /\ answered_by = None

\* A provider is called only while it heads the queue.
Asking == pc = "provider" => queue # << >>

\* The logs end with the last status observed, and so does the last failure
\* of a candidate if it has a status.
StatusKept ==
    /\ LastStatus(capture) = observed
    /\ last_error # None /\ last_error.status # NoStatus
       => last_error.status = observed

CaptureRight == Explained /\ Untried /\ Fresh /\ Divided /\ StatusKept

ReportInv ==
    TypeOK /\ Asking /\ CaptureRight /\ UpstreamStatusLast /\ EndExplained

-----------------------------------------------------------------------------
(* Type correctness.                                                       *)

AttemptOf(whom) ==
    [who : whom, outcome : Outcomes, failure_class : FailureClasses \cup {None},
     upstream_status : Statuses \cup {NoStatus}]

Reasons == {error.reason : error \in ProviderErrors}

Captures ==
    [router_used : Tiers \cup {None},
     selected_provider : Providers \cup {None},
     initial_provider : Providers \cup {None},
     router_attempts : Seq(AttemptOf(Tiers)),
     provider_attempts : Seq(AttemptOf(Providers)),
     fallback_used : BOOLEAN,
     provider_error : Reasons \cup {None}]

LEMMA CaptureTyped == TypeOK => capture \in Captures
  BY DEF TypeOK, Captures, AttemptsOf, AttemptOf, Reasons

\* What the errors of a router or a provider are.
LEMMA ErrorTyped ==
    ASSUME NEW error \in RouterErrors \cup ProviderErrors
    PROVE  /\ error.status \in Statuses \cup {NoStatus}
           /\ error.reason # "NONE"
           /\ FailureClass(error) \in FailureClasses
<1>1. CASE error \in HttpErrors
  <2>1. PICK status \in Statuses, blames_model \in BOOLEAN :
           error = [status |-> status, reason |-> HttpFailureReason[status],
                    scope |-> ClassifyHttpFailure(status, blames_model),
                    blocks |-> status \in {401, 403}]
    BY <1>1 DEF HttpErrors
  <2>2. error.status = status /\ error.reason = HttpFailureReason[status]
    BY <2>1
  <2>3. status \in 100..999 /\ HttpFailureReason[status] # "NONE"
    BY DiagnosticsAssumption
  <2>4. CASE status >= 400
    <3>1. error.status \in Int /\ error.status >= 400
      BY <2>2, <2>3, <2>4
    <3>2. FailureClass(error)
             \in {"AUTH", "HTTP_429", "HTTP_5XX", "MODEL_UNAVAILABLE", "HTTP_4XX"}
      BY <3>1 DEF FailureClass
    <3>3. QED  BY <2>2, <2>3, <3>2 DEF FailureClasses
  \* Its reason is its class, unless its body blames the model.
  <2>5. CASE status < 400
    <3>1. error.reason \in {HttpFailureReason[s] : s \in {t \in Statuses : t < 400}}
      BY <2>2, <2>5
    <3>2. FailureClass(error) \in {"MODEL_UNAVAILABLE", "UNKNOWN", error.reason}
      BY <2>2, <2>3, <2>5 DEF FailureClass
    <3>3. QED  BY <2>2, <2>3, <3>1, <3>2 DEF FailureClasses
  <2>6. QED  BY <2>3, <2>4, <2>5
<1>2. CASE error \notin HttpErrors
  <2>1. \/ \E reason \in {"CIRCUIT_OPEN", "TIMEOUT", "NETWORK_ERROR"} :
              error = LocalError(reason, "BACKEND_TRANSIENT")
        \/ \E reason \in {"INVALID_ROUTER_JSON", "SCHEMA_VALIDATION_FAILED",
                          "UNKNOWN"} : error = LocalError(reason, "NON_TRANSIENT")
        \/ error = LocalError("INVALID_DECISION", "NONE")
        \/ error = LocalError("INVALID_PROVIDER_RESPONSE", "MODEL_SPECIFIC")
        \/ error = LocalError("UNKNOWN", "NONE")
    BY <1>2 DEF RouterErrors, ProviderErrors, SharedErrors
  <2>2. /\ error.status = NoStatus /\ error.reason # "NONE"
        /\ \/ error.scope = "MODEL_SPECIFIC"
           \/ error.reason = "INVALID_DECISION"
           \/ error.reason \in FailureClasses
    BY <2>1 DEF LocalError, FailureClasses
  <2>3. FailureClass(error) \in FailureClasses
    BY <2>2 DEF FailureClass, FailureClasses, NoStatus
  <2>4. QED  BY <2>2, <2>3
<1>3. QED  BY <1>1, <1>2

\* An attempt added to a log, and the other fields that steps set.
LEMMA RouterAttemptTyped ==
    ASSUME NEW cap \in Captures, NEW a \in AttemptOf(Tiers)
    PROVE  [cap EXCEPT !.router_attempts = Append(@, a)] \in Captures
<1>1. Append(cap.router_attempts, a) \in Seq(AttemptOf(Tiers))
  BY AppendProperties DEF Captures
<1>2. QED  BY <1>1 DEF Captures

LEMMA ProviderAttemptTyped ==
    ASSUME NEW cap \in Captures, NEW a \in AttemptOf(Providers)
    PROVE  [cap EXCEPT !.provider_attempts = Append(@, a)] \in Captures
<1>1. Append(cap.provider_attempts, a) \in Seq(AttemptOf(Providers))
  BY AppendProperties DEF Captures
<1>2. QED  BY <1>1 DEF Captures

LEMMA AttemptTyped ==
    ASSUME NEW whom, NEW who \in whom, NEW outcome \in Outcomes,
           NEW class \in FailureClasses \cup {None},
           NEW status \in Statuses \cup {NoStatus}
    PROVE  Attempt(who, outcome, class, status) \in AttemptOf(whom)
  BY DEF Attempt, AttemptOf

\* Every handler replies with a status, and none with that of an answer.
Exceptions ==
    {"RequestValidationError", "HTTPException", "InvalidRoutingRequestError",
     "ConversationNotFoundError", "PolicyNotFoundError",
     "GovernanceDeniedError", "RoutingEngineError", "ProviderExecutionError",
     "GatewayExecutionError", "DeadlineExceededError",
     "UnexpectedExecutionError"}

LEMMA HandlersReply ==
    \A exception \in Exceptions :
        Handler[exception].status \in Nat \ {NoStatus, 200}
  BY DEF Exceptions, Handler, Reply, NoStatus

\* A request ends with a response, and has none before.
RequestEnds == pc' = "done" /\ response' # NoResponse

LEMMA ErrorReplies ==
    ASSUME NEW exception \in Exceptions, NEW diagnostics,
           pc' = "done", response' = ErrorResponse(exception, diagnostics)
    PROVE  /\ RequestEnds
           /\ response'.status = Handler[exception].status
           /\ response'.status # 200
<1>1. response'.status = Handler[exception].status
  BY DEF ErrorResponse
<1>2. NoResponse.status = NoStatus
  BY DEF NoResponse
<1>3. QED  BY <1>1, <1>2, HandlersReply DEF RequestEnds

LEMMA AnswerReplies ==
    ASSUME NEW action, NEW cap,
           pc' = "done", response' = SuccessResponse(action, cap)
    PROVE  RequestEnds /\ response'.status = 200
<1>1. response'.status = 200
  BY DEF SuccessResponse
<1>2. NoResponse.status = NoStatus
  BY DEF NoResponse
<1>3. QED  BY <1>1, <1>2 DEF RequestEnds, NoStatus

\* What each kind of step does to the log it writes.
LEMMA LogsTyped ==
    ASSUME TypeOK, NEW outcome \in Outcomes,
           NEW class \in FailureClasses \cup {None},
           NEW status \in Statuses \cup {NoStatus}
    PROVE  /\ LogRouter(capture, outcome, class, status) \in Captures
           /\ queue # << >> =>
                 LogProvider(capture, outcome, class, status) \in Captures
<1>1. capture \in Captures
  BY CaptureTyped
<1>2. tier \in Tiers /\ (queue # << >> => Head(queue) \in Providers)
  BY DEF TypeOK
<1>3. Attempt(tier, outcome, class, status) \in AttemptOf(Tiers)
  BY <1>2, AttemptTyped
<1>4. queue # << >> =>
         Attempt(Head(queue), outcome, class, status) \in AttemptOf(Providers)
  BY <1>2, AttemptTyped
<1>5. LogRouter(capture, outcome, class, status) \in Captures
  BY <1>1, <1>3, RouterAttemptTyped DEF LogRouter
<1>6. queue # << >> =>
         LogProvider(capture, outcome, class, status) \in Captures
  BY <1>1, <1>4, ProviderAttemptTyped DEF LogProvider
<1>7. QED  BY <1>5, <1>6

\* The variables that a step types, capture and response apart.
RestTyped ==
    /\ pc \in {"new", "round", "router", "candidates", "provider", "gateway",
               "done"}
    /\ access \in Accesses
    /\ is_retry \in BOOLEAN
    /\ rounds \in 0..MaxRounds
    /\ tier \in Tiers
    /\ queue \in Seq(Providers)
    /\ blocked \subseteq Backends
    /\ last_error \in ProviderErrors \cup {None}
    /\ observed \in Statuses \cup {NoStatus}
    /\ candidates \in Seq(Providers)
    /\ answered_by \in Providers \cup {None}

\* A step replies exactly when it ends the request.
Replies == RequestEnds \/ (pc' # "done" /\ UNCHANGED response)

LEMMA TypeParts ==
    TypeOK <=> /\ RestTyped /\ capture \in Captures
               /\ (pc = "done") = (response # NoResponse)
  BY DEF TypeOK, RestTyped, Captures, AttemptsOf, AttemptOf, Reasons

\* The steps that neither ask routers nor try candidates.
LEMMA TypeKept ==
    ASSUME TypeOK, Asking,
           Reject \/ RejectImageless \/ Accept \/ Stop \/ Deny \/ AskRouters
              \/ Exhausted \/ LateAtCandidate \/ AskProvider \/ Gateway
    PROVE  RestTyped' /\ UNCHANGED capture /\ Replies /\ Asking'
<1> USE DEF RestTyped, Asking, Exceptions
<1> USE DEF handled, pathVars, historyVars
<1>1. RestTyped /\ capture \in Captures /\ (pc # "done" => response = NoResponse)
  BY TypeParts
<1>2. CASE Reject
  <2>1. PICK exception \in {"RequestValidationError", "HTTPException",
                            "ConversationNotFoundError", "PolicyNotFoundError"} :
           Fail(exception, RequestFailureDiagnostics)
    BY <1>2 DEF Reject
  <2>2. RequestEnds
    BY <2>1, ErrorReplies DEF Fail
  <2>3. QED  BY <1>1, <1>2, <2>2 DEF Reject, Replies, RequestEnds
<1>3. CASE RejectImageless
  <2>1. RequestEnds
    BY <1>3, ErrorReplies DEF RejectImageless, Fail
  <2>2. QED  BY <1>1, <1>3, <2>1 DEF RejectImageless, Replies, RequestEnds
<1>4. CASE Accept
  BY <1>1, <1>4, DiagnosticsAssumption DEF Accept, Replies
<1>5. CASE Stop
  <2>1. RequestEnds
    BY <1>5, AnswerReplies DEF Stop, Conclude
  <2>2. QED  BY <1>1, <1>5, <2>1 DEF Stop, Replies, RequestEnds
<1>6. CASE Deny
  <2>1. RequestEnds
    BY <1>6, ErrorReplies DEF Deny, Fail
  <2>2. QED  BY <1>1, <1>6, <2>1 DEF Deny, Replies, RequestEnds
<1>7. CASE AskRouters
  BY <1>1, <1>7 DEF AskRouters, Replies, Tiers
<1>8. CASE Exhausted
  <2>1. RequestEnds
    BY <1>8, ErrorReplies DEF Exhausted, Fail
  <2>2. QED  BY <1>1, <1>8, <2>1 DEF Exhausted, Replies, RequestEnds
<1>9. CASE LateAtCandidate
  <2>1. RequestEnds
    BY <1>9, ErrorReplies DEF LateAtCandidate, DeadlineExceeded, Fail
  <2>2. QED  BY <1>1, <1>9, <2>1 DEF LateAtCandidate, Replies, RequestEnds
<1>10. CASE AskProvider
  BY <1>1, <1>10 DEF AskProvider, Replies
<1>11. CASE Gateway
  <2>1. RequestEnds
    BY <1>11, ErrorReplies, AnswerReplies
       DEF Gateway, DeadlineExceeded, Fail, Conclude
  <2>2. QED  BY <1>1, <1>11, <2>1 DEF Gateway, Replies, RequestEnds
<1>12. QED
  BY <1>2, <1>3, <1>4, <1>5, <1>6, <1>7, <1>8, <1>9, <1>10, <1>11

\* A field of the capture set by a step.
LEMMA FieldsTyped ==
    ASSUME NEW cap \in Captures
    PROVE  /\ [cap EXCEPT !.fallback_used = TRUE] \in Captures
           /\ \A router \in Tiers : [cap EXCEPT !.router_used = router] \in Captures
           /\ \A p \in Providers : [cap EXCEPT !.initial_provider = p] \in Captures
           /\ \A reason \in Reasons :
                 [cap EXCEPT !.fallback_used = TRUE, !.provider_error = reason]
                     \in Captures
           /\ \A p \in Providers, used \in BOOLEAN :
                 [cap EXCEPT !.selected_provider = p, !.fallback_used = used]
                     \in Captures
           /\ \A log \in Seq(AttemptOf(Providers)) :
                 [cap EXCEPT !.provider_attempts = log] \in Captures
  BY DEF Captures

LEMMA TypeOfRouterStep ==
    ASSUME TypeOK, Asking,
           RouterFails \/ RouterCancelled \/ RouterRetries \/ RouterConcludes
              \/ RouterAnswers
    PROVE  RestTyped' /\ capture' \in Captures /\ Replies /\ Asking'
<1> USE DEF RestTyped, Asking, Exceptions
<1> USE DEF handled, pathVars, historyVars
<1>1. RestTyped /\ capture \in Captures /\ (pc # "done" => response = NoResponse)
  BY TypeParts
<1>2. /\ LogRouter(capture, "success", None, NoStatus) \in Captures
      /\ LogRouter(capture, "cancelled", "DEADLINE_EXCEEDED", NoStatus)
            \in Captures
  BY LogsTyped DEF Outcomes, FailureClasses
<1>3. Decided \in Captures
  BY <1>1, <1>2, FieldsTyped DEF Decided
<1>4. CASE RouterFails
  <2>1. PICK error \in RouterErrors :
           /\ capture' = [LogRouter(capture, "failed", FailureClass(error),
                                    error.status) EXCEPT !.fallback_used = TRUE]
           /\ blocked' = IF error.blocks THEN blocked \cup {RouterBackend[tier]}
                         ELSE blocked
           /\ Observe(error)
    BY <1>4 DEF RouterFails
  <2>2. /\ error.status \in Statuses \cup {NoStatus}
        /\ FailureClass(error) \in FailureClasses
    BY ErrorTyped
  <2>3. LogRouter(capture, "failed", FailureClass(error), error.status)
           \in Captures
    BY <2>2, LogsTyped DEF Outcomes
  <2>4. capture' \in Captures
    BY <2>1, <2>3, FieldsTyped
  <2>5. blocked' \subseteq Backends
    BY <1>1, <2>1, DiagnosticsAssumption
  <2>6. observed' \in Statuses \cup {NoStatus}
    BY <1>1, <2>1, <2>2 DEF Observe
  <2>7. Replies /\ pc' \in {"router", "done"} /\ tier' \in Tiers
    <3>1. CASE tier = "primary_router"
      BY <1>1, <1>4, <3>1 DEF RouterFails, Replies, Tiers
    <3>2. CASE tier # "primary_router"
      <4>1. RequestEnds
        BY <1>4, <3>2, ErrorReplies DEF RouterFails, Fail
      <4>2. QED  BY <1>1, <1>4, <3>2, <4>1 DEF RouterFails, Replies, RequestEnds
    <3>3. QED  BY <3>1, <3>2
  <2>8. QED  BY <1>1, <1>4, <2>4, <2>5, <2>6, <2>7 DEF RouterFails
<1>5. CASE RouterCancelled
  <2>1. RequestEnds
    BY <1>5, ErrorReplies DEF RouterCancelled, DeadlineExceeded, Fail
  <2>2. QED  BY <1>1, <1>2, <1>5, <2>1 DEF RouterCancelled, Replies, RequestEnds
<1>6. CASE RouterRetries
  <2>1. CASE rounds > 0
    BY <1>1, <1>3, <1>6, <2>1, DiagnosticsAssumption DEF RouterRetries, Replies
  <2>2. CASE ~(rounds > 0)
    <3>1. RequestEnds
      BY <1>6, <2>2, AnswerReplies DEF RouterRetries, Conclude
    <3>2. QED
      BY <1>1, <1>3, <1>6, <2>2, <3>1 DEF RouterRetries, Replies, RequestEnds
  <2>3. QED  BY <2>1, <2>2
<1>7. CASE RouterConcludes
  <2>1. RequestEnds
    BY <1>7, AnswerReplies DEF RouterConcludes, Conclude
  <2>2. QED  BY <1>1, <1>3, <1>7, <2>1 DEF RouterConcludes, Replies, RequestEnds
<1>8. CASE RouterAnswers
  <2>1. PICK list \in CandidateLists :
           /\ queue' = list /\ candidates' = list
           /\ capture' = IF list = << >> THEN Decided
                         ELSE [Decided EXCEPT !.initial_provider = Head(list)]
    BY <1>8 DEF RouterAnswers
  <2>2. list \in Seq(Providers) /\ (list # << >> => Head(list) \in Providers)
    BY DiagnosticsAssumption
  <2>3. capture' \in Captures
    BY <1>3, <2>1, <2>2, FieldsTyped
  <2>4. QED  BY <1>1, <1>8, <2>1, <2>2, <2>3 DEF RouterAnswers, Replies
<1>9. QED  BY <1>4, <1>5, <1>6, <1>7, <1>8

LEMMA TypeOfProviderStep ==
    ASSUME TypeOK, Asking,
           SkipBlocked \/ ProviderFails \/ ProviderBreaks \/ ProviderCancelled
              \/ ProviderAnswers
    PROVE  RestTyped' /\ capture' \in Captures /\ Replies /\ Asking'
<1> USE DEF RestTyped, Asking, Exceptions
<1> USE DEF handled, pathVars, historyVars
<1>1. RestTyped /\ capture \in Captures /\ (pc # "done" => response = NoResponse)
  BY TypeParts
<1>2. /\ queue # << >>
      /\ Head(queue) \in Providers /\ Tail(queue) \in Seq(Providers)
  <2>1. queue # << >>
    BY DEF SkipBlocked, ProviderFails, ProviderBreaks, ProviderCancelled,
           ProviderAnswers
  <2>2. QED  BY <1>1, <2>1, HeadTailProperties
<1>3. /\ LogProvider(capture, "success", None, NoStatus) \in Captures
      /\ LogProvider(capture, "cancelled", "DEADLINE_EXCEEDED", NoStatus)
            \in Captures
      /\ LogProvider(capture, "skipped_auth_failure", "AUTH", NoStatus)
            \in Captures
      /\ LogProvider(capture, "failed", "UNKNOWN", NoStatus) \in Captures
  BY <1>2, LogsTyped DEF Outcomes, FailureClasses
<1>4. CASE SkipBlocked
  BY <1>1, <1>2, <1>3, <1>4 DEF SkipBlocked, Replies
<1>5. CASE ProviderFails
  <2>1. PICK error \in ProviderErrors :
           /\ last_error' = error
           /\ blocked' = IF error.blocks
                         THEN blocked \cup {BackendOf[Head(queue)]} ELSE blocked
           /\ capture' = [LogProvider(capture, "failed", FailureClass(error),
                                      error.status)
                             EXCEPT !.fallback_used = TRUE,
                                    !.provider_error = error.reason]
           /\ Observe(error)
    BY <1>5 DEF ProviderFails
  <2>2. /\ error.status \in Statuses \cup {NoStatus}
        /\ FailureClass(error) \in FailureClasses
    BY ErrorTyped
  <2>3. LogProvider(capture, "failed", FailureClass(error), error.status)
           \in Captures
    BY <1>2, <2>2, LogsTyped DEF Outcomes
  <2>4. capture' \in Captures
    BY <2>1, <2>3, FieldsTyped DEF Reasons
  <2>5. blocked' \subseteq Backends
    BY <1>1, <1>2, <2>1, DiagnosticsAssumption
  <2>6. observed' \in Statuses \cup {NoStatus}
    BY <1>1, <2>1, <2>2 DEF Observe
  <2>7. QED
    BY <1>1, <1>2, <1>5, <2>1, <2>4, <2>5, <2>6 DEF ProviderFails, Replies
<1>6. CASE ProviderBreaks
  <2>1. RequestEnds
    BY <1>6, ErrorReplies DEF ProviderBreaks, Fail
  <2>2. QED  BY <1>1, <1>3, <1>6, <2>1 DEF ProviderBreaks, Replies, RequestEnds
<1>7. CASE ProviderCancelled
  <2> DEFINE cut == LogProvider(capture, "cancelled", "DEADLINE_EXCEEDED",
                                NoStatus)
             pending == [i \in DOMAIN Tail(queue) |->
                            Attempt(Tail(queue)[i], "skipped_deadline",
                                    "DEADLINE_EXCEEDED", NoStatus)]
  <2>1. capture' = [cut EXCEPT !.provider_attempts = @ \o pending]
    BY <1>7 DEF ProviderCancelled
  <2>2. pending \in Seq(AttemptOf(Providers))
    <3>1. \A i \in DOMAIN Tail(queue) :
             Attempt(Tail(queue)[i], "skipped_deadline", "DEADLINE_EXCEEDED",
                     NoStatus) \in AttemptOf(Providers)
      <4>1. "skipped_deadline" \in Outcomes
            /\ "DEADLINE_EXCEEDED" \in FailureClasses
        BY DEF Outcomes, FailureClasses
      <4>2. \A i \in DOMAIN Tail(queue) : Tail(queue)[i] \in Providers
        BY <1>2
      <4>3. QED  BY <4>1, <4>2, AttemptTyped
    <3>2. DOMAIN Tail(queue) = 1..Len(Tail(queue)) /\ Len(Tail(queue)) \in Nat
      BY <1>2
    <3>3. QED  BY <3>1, <3>2
  <2>3. cut \in Captures /\ cut.provider_attempts \in Seq(AttemptOf(Providers))
    BY <1>3 DEF Captures
  <2> HIDE DEF cut, pending
  <2>4. cut.provider_attempts \o pending \in Seq(AttemptOf(Providers))
    BY <2>2, <2>3, ConcatProperties
  <2>5. capture' \in Captures
    BY <2>1, <2>3, <2>4, FieldsTyped
  <2>6. RequestEnds
    BY <1>7, ErrorReplies DEF ProviderCancelled, DeadlineExceeded, Fail
  <2>7. QED  BY <1>1, <1>7, <2>5, <2>6 DEF ProviderCancelled, Replies, RequestEnds
<1>8. CASE ProviderAnswers
  <2>1. PICK cap \in Captures :
           /\ cap = LogProvider(capture, "success", None, NoStatus)
           /\ capture' = [cap EXCEPT
                            !.selected_provider = Head(queue),
                            !.fallback_used =
                                @ \/ Len(cap.provider_attempts) > 1]
    BY <1>3, <1>8 DEF ProviderAnswers
  <2>2. (cap.fallback_used \/ Len(cap.provider_attempts) > 1) \in BOOLEAN
    OBVIOUS
  <2>3. capture' \in Captures
    BY <1>2, <2>1, <2>2, FieldsTyped
  <2>4. QED  BY <1>1, <1>2, <1>8, <2>3 DEF ProviderAnswers, Replies
<1>9. QED  BY <1>4, <1>5, <1>6, <1>7, <1>8

LEMMA TypeStep ==
    ASSUME TypeOK, Asking, [Next]_vars
    PROVE  TypeOK' /\ Asking'
<1>1. CASE UNCHANGED vars
  BY <1>1 DEF TypeOK, Asking, vars, handled, pathVars, historyVars
<1>2. CASE Next
  <2>1. RestTyped' /\ capture' \in Captures /\ Replies /\ Asking'
    BY <1>2, TypeKept, TypeOfRouterStep, TypeOfProviderStep, CaptureTyped
       DEF Next
  <2>2. pc # "done"
    BY <1>2 DEF Next, Reject, RejectImageless, Accept, Stop, Deny, AskRouters,
                RouterFails, RouterCancelled, RouterRetries, RouterConcludes,
                RouterAnswers, Exhausted, LateAtCandidate, SkipBlocked,
                AskProvider, ProviderFails, ProviderBreaks, ProviderCancelled,
                ProviderAnswers, Gateway
  <2>3. (pc' = "done") = (response' # NoResponse)
    BY <2>1, <2>2 DEF TypeOK, Replies, RequestEnds
  <2>4. TypeOK'
    BY <2>1, <2>3
       DEF TypeOK, RestTyped, Captures, AttemptsOf, AttemptOf, Reasons
  <2>5. QED  BY <2>1, <2>4
<1>3. QED  BY <1>1, <1>2

LEMMA TypeInit == Init => TypeOK /\ Asking
<1> SUFFICES ASSUME Init PROVE TypeOK /\ Asking
  OBVIOUS
<1>1. capture \in Captures
  BY DEF Init, NewCapture, Captures
<1>2. 0 \in 0..MaxRounds
  BY DiagnosticsAssumption
<1>3. << >> \in Seq(Providers) /\ {} \subseteq Backends
  OBVIOUS
<1>4. RestTyped
  BY <1>2, <1>3 DEF Init, RestTyped, Tiers
<1>5. pc # "done" /\ response = NoResponse /\ Asking
  BY DEF Init, Asking
<1>6. QED  BY <1>1, <1>4, <1>5, TypeParts

\* The types hold throughout, the classes of failures in the logs included;
\* and the request has a response exactly when it has ended.
THEOREM TypeCorrect == Spec => []TypeOK
<1>1. Init => TypeOK /\ Asking
  BY TypeInit
<1>2. TypeOK /\ Asking /\ [Next]_vars => TypeOK' /\ Asking'
  BY TypeStep
<1>3. QED  BY <1>1, <1>2, PTL DEF Spec

-----------------------------------------------------------------------------
(* The last status.                                                        *)

\* The attempts of a log that have a status.
WithStatus(log) == {i \in 1..Len(log) : log[i].upstream_status # NoStatus}

LEMMA LastStatusIs ==
    ASSUME NEW cap
    PROVE  LastStatus(cap) =
              IF WithStatus(Attempts(cap)) = {} THEN NoStatus
              ELSE LET i == Max(WithStatus(Attempts(cap)))
                   IN  IF i = 0 THEN NoStatus
                       ELSE Attempts(cap)[i].upstream_status
  BY DEF LastStatus, SelectLastInSeq, WithStatus

\* Some indices into a log have a greatest one: the one at the least
\* distance from its end.
LEMMA LatestExists ==
    ASSUME NEW n \in Nat, NEW some \in SUBSET (1..n), some # {}
    PROVE  \E latest \in some : \A i \in some : latest >= i
<1> DEFINE distances == {n - i : i \in some}
<1>1. \A i \in some : i \in Nat /\ n - i \in Nat
  OBVIOUS
<1>2. distances \subseteq Nat /\ distances # {}
  BY <1>1
<1>3. PICK least \in distances :
         \A other \in distances : ~(<<other, least>> \in OpToRel(<, Nat))
  <2> HIDE DEF distances
  <2>1. QED  BY <1>2, WFMin, NatLessThanWellFounded
<1>4. \A other \in distances : ~(other < least)
  BY <1>2, <1>3 DEF OpToRel
<1>5. PICK latest \in some : least = n - latest
  OBVIOUS
<1>6. \A i \in some : ~(n - i < n - latest)
  BY <1>4, <1>5
<1>7. QED  BY <1>1, <1>6

\* The attempts of a capture, with more of them after those.
Extends(cap2, cap, more) ==
    /\ Len(Attempts(cap)) \in Nat
    /\ Len(Attempts(cap2)) = Len(Attempts(cap)) + Len(more)
    /\ \A i \in 1..Len(Attempts(cap)) : Attempts(cap2)[i] = Attempts(cap)[i]
    /\ \A i \in 1..Len(more) : Attempts(cap2)[Len(Attempts(cap)) + i] = more[i]

\* An attempt with a status is the last one from then on.
LEMMA StatusSupersedes ==
    ASSUME NEW cap, NEW cap2, NEW a, Extends(cap2, cap, <<a>>),
           a.upstream_status # NoStatus
    PROVE  LastStatus(cap2) = a.upstream_status
<1> DEFINE n == Len(Attempts(cap)) + 1
<1>1. n \in Nat \ {0} /\ Len(Attempts(cap2)) = n /\ Attempts(cap2)[n] = a
  <2>1. Len(<<a>>) = 1 /\ 1 \in 1..Len(<<a>>) /\ <<a>>[1] = a
    OBVIOUS
  <2>2. QED  BY <2>1 DEF Extends
<1>2. n \in WithStatus(Attempts(cap2))
  BY <1>1 DEF WithStatus
<1>3. \A i \in WithStatus(Attempts(cap2)) : i \in Int /\ n >= i
  BY <1>1 DEF WithStatus
<1>4. Max(WithStatus(Attempts(cap2))) = n
  BY <1>1, <1>2, <1>3 DEF Max
<1>5. QED  BY <1>1, <1>2, <1>4, LastStatusIs

\* Attempts without a status leave it as it was.
LEMMA StatusStays ==
    ASSUME NEW cap, NEW cap2, NEW S, NEW more \in Seq(S),
           Extends(cap2, cap, more),
           \A i \in 1..Len(more) : more[i].upstream_status = NoStatus
    PROVE  LastStatus(cap2) = LastStatus(cap)
<1> DEFINE s == Attempts(cap)
<1>1. /\ Len(s) \in Nat /\ Len(more) \in Nat
      /\ Len(Attempts(cap2)) = Len(s) + Len(more)
      /\ \A i \in 1..Len(s) : Attempts(cap2)[i] = s[i]
      /\ \A i \in 1..Len(more) : Attempts(cap2)[Len(s) + i] = more[i]
  BY DEF Extends
<1>2. WithStatus(Attempts(cap2)) = WithStatus(s)
  <2>1. \A i \in 1..(Len(s) + Len(more)) :
           i \notin 1..Len(s) => i - Len(s) \in 1..Len(more)
                                /\ i = Len(s) + (i - Len(s))
    BY <1>1
  <2>2. \A i \in 1..(Len(s) + Len(more)) :
           i \notin 1..Len(s) => Attempts(cap2)[i].upstream_status = NoStatus
    BY <1>1, <2>1
  <2>3. \A i \in 1..Len(s) : i \in 1..(Len(s) + Len(more))
    BY <1>1
  <2> HIDE DEF s
  <2>4. QED  BY <1>1, <2>2, <2>3 DEF WithStatus
<1>3. \A i \in WithStatus(s) : Attempts(cap2)[i] = s[i]
  BY <1>1 DEF WithStatus
<1>4. CASE WithStatus(s) = {}
  BY <1>2, <1>4, LastStatusIs
<1>5. CASE WithStatus(s) # {}
  <2>1. WithStatus(s) \in SUBSET (1..Len(s))
    BY DEF WithStatus
  <2>2. \E latest \in WithStatus(s) : \A i \in WithStatus(s) : latest >= i
    BY <1>1, <1>5, <2>1, LatestExists
  <2>3. Max(WithStatus(s)) \in WithStatus(s)
    BY <2>2 DEF Max
  <2>4. QED  BY <1>2, <1>3, <1>5, <2>3, LastStatusIs
<1>6. QED  BY <1>4, <1>5

\* Both logs together, and what a step that writes one makes of its status.
LEMMA AttemptsTyped ==
    ASSUME NEW cap \in Captures
    PROVE  /\ cap.router_attempts \in Seq(AttemptOf(Tiers \cup Providers))
           /\ cap.provider_attempts \in Seq(AttemptOf(Tiers \cup Providers))
           /\ Attempts(cap) \in Seq(AttemptOf(Tiers \cup Providers))
<1>1. /\ cap.router_attempts \in Seq(AttemptOf(Tiers))
      /\ cap.provider_attempts \in Seq(AttemptOf(Providers))
  BY DEF Captures
<1>2. /\ AttemptOf(Tiers) \subseteq AttemptOf(Tiers \cup Providers)
      /\ AttemptOf(Providers) \subseteq AttemptOf(Tiers \cup Providers)
  BY DEF AttemptOf
<1>3. /\ cap.router_attempts \in Seq(AttemptOf(Tiers \cup Providers))
      /\ cap.provider_attempts \in Seq(AttemptOf(Tiers \cup Providers))
  BY <1>1, <1>2, SeqMonotonic
<1>4. QED  BY <1>3, ConcatProperties DEF Attempts

LEMMA LogsExtend ==
    ASSUME NEW cap \in Captures, NEW cap2,
           NEW more \in Seq(AttemptOf(Tiers \cup Providers)),
           \/ /\ cap.provider_attempts = << >> /\ cap2.provider_attempts = << >>
              /\ cap2.router_attempts = cap.router_attempts \o more
           \/ /\ cap2.router_attempts = cap.router_attempts
              /\ cap2.provider_attempts = cap.provider_attempts \o more
    PROVE  Extends(cap2, cap, more)
<1> DEFINE S == AttemptOf(Tiers \cup Providers)
<1>1. cap.router_attempts \in Seq(S) /\ cap.provider_attempts \in Seq(S)
  BY AttemptsTyped
<1> HIDE DEF S
<1>2. PICK r \in Seq(S), p \in Seq(S), m \in Seq(S) :
         r = cap.router_attempts /\ p = cap.provider_attempts /\ m = more
  BY <1>1 DEF S
<1>3. Attempts(cap) = r \o p
  BY <1>2, Zenon DEF Attempts
<1>4. \/ Attempts(cap2) = r \o (p \o m)
      \/ p = << >> /\ Attempts(cap2) = (r \o m) \o << >>
  BY <1>2, Zenon DEF Attempts
<1>5. Len(r) + Len(p) \in Nat /\ Len(r \o p) = Len(r) + Len(p)
  OBVIOUS
<1>6. CASE Attempts(cap2) = r \o (p \o m)
  <2>1. /\ Len(r \o (p \o m)) = Len(r \o p) + Len(m)
        /\ \A i \in 1..Len(r \o p) : (r \o (p \o m))[i] = (r \o p)[i]
        /\ \A i \in 1..Len(m) : (r \o (p \o m))[Len(r \o p) + i] = m[i]
    OBVIOUS
  <2>2. QED  BY <1>2, <1>3, <1>5, <1>6, <2>1, Zenon DEF Extends
<1>7. CASE p = << >> /\ Attempts(cap2) = (r \o m) \o << >>
  <2>1. /\ Len((r \o m) \o << >>) = Len(r \o << >>) + Len(m)
        /\ \A i \in 1..Len(r \o << >>) :
              ((r \o m) \o << >>)[i] = (r \o << >>)[i]
        /\ \A i \in 1..Len(m) :
              ((r \o m) \o << >>)[Len(r \o << >>) + i] = m[i]
    OBVIOUS
  <2>2. QED  BY <1>2, <1>3, <1>5, <1>7, <2>1, Zenon DEF Extends
<1>8. QED  BY <1>4, <1>6, <1>7

-----------------------------------------------------------------------------
(* The path.                                                               *)

\* The candidate at the head of the queue moves to the path.
LEMMA PathGrows ==
    ASSUME NEW path \in Seq(AttemptOf(Providers)), NEW list \in Seq(Providers),
           NEW rest \in Seq(Providers), Divides(path, list, rest), rest # << >>,
           NEW a \in AttemptOf(Providers), a.who = Head(rest)
    PROVE  /\ Divides(Append(path, a), list, Tail(rest))
           /\ Append(path, a) # << >>
           /\ Len(Append(path, a)) <= Len(list)
           /\ Append(path, a)[Len(Append(path, a))] = a
           /\ Append(path, a)[1].who = list[1]
<1> DEFINE longer == Append(path, a)
<1>1. /\ Len(longer) = Len(path) + 1 /\ longer # << >>
      /\ \A i \in 1..Len(path) : longer[i] = path[i]
      /\ longer[Len(path) + 1] = a
  BY AppendProperties
<1>2. /\ Len(rest) >= 1 /\ Len(Tail(rest)) = Len(rest) - 1 /\ Head(rest) = rest[1]
      /\ \A j \in 1..Len(Tail(rest)) : Tail(rest)[j] = rest[j + 1]
  BY HeadTailProperties
<1>3. Len(path) \in Nat /\ Len(rest) \in Nat /\ Len(list) \in Nat
  OBVIOUS
<1> HIDE DEF longer
<1>4. Head(rest) = list[Len(path) + 1]
  BY <1>2, <1>3 DEF Divides
<1>5. \A i \in 1..Len(longer) : longer[i].who = list[i]
  <2> SUFFICES ASSUME NEW i \in 1..Len(longer) PROVE longer[i].who = list[i]
    OBVIOUS
  <2>1. CASE i \in 1..Len(path)
    BY <1>1, <2>1 DEF Divides
  <2>2. CASE i = Len(path) + 1
    BY <1>1, <1>4, <2>2
  <2>3. QED  BY <1>1, <1>3, <2>1, <2>2
<1>6. \A j \in 1..Len(Tail(rest)) : Tail(rest)[j] = list[Len(longer) + j]
  BY <1>1, <1>2, <1>3 DEF Divides
<1>7. Len(list) = Len(longer) + Len(Tail(rest)) /\ Len(longer) <= Len(list)
  BY <1>1, <1>2, <1>3 DEF Divides
<1>8. longer[1].who = list[1] /\ longer[Len(longer)] = a
  BY <1>1, <1>3, <1>5
<1>9. QED  BY <1>1, <1>5, <1>6, <1>7, <1>8 DEF longer, Divides

-----------------------------------------------------------------------------
(* What the steps that write a log leave behind.                           *)

LEMMA RouterLogged ==
    ASSUME TypeOK, capture.provider_attempts = << >>,
           NEW outcome \in Outcomes,
           NEW class \in FailureClasses \cup {None},
           NEW status \in Statuses \cup {NoStatus},
           NEW cap2,
           cap2.router_attempts = Append(capture.router_attempts,
                                     Attempt(tier, outcome, class, status)),
           cap2.provider_attempts = << >>
    PROVE  LastStatus(cap2)
              = IF status # NoStatus THEN status ELSE LastStatus(capture)
<1> DEFINE a == Attempt(tier, outcome, class, status)
           S == AttemptOf(Tiers \cup Providers)
<1>1. a \in S /\ a.upstream_status = status
  BY AttemptTyped DEF TypeOK, Attempt
<1>2. capture \in Captures /\ capture.router_attempts \in Seq(S)
  BY CaptureTyped, AttemptsTyped
<1> HIDE DEF a, S
<1>3. Append(capture.router_attempts, a) = capture.router_attempts \o <<a>>
      /\ <<a>> \in Seq(S)
  BY <1>1, <1>2, AppendIsConcat
<1>4. cap2.router_attempts = capture.router_attempts \o <<a>>
  BY <1>3, Zenon DEF a
<1>5. Extends(cap2, capture, <<a>>)
  BY <1>2, <1>3, <1>4, LogsExtend DEF S
<1>6. CASE status # NoStatus
  BY <1>1, <1>5, <1>6, StatusSupersedes
<1>7. CASE status = NoStatus
  <2>1. \A i \in 1..Len(<<a>>) : <<a>>[i].upstream_status = NoStatus
    BY <1>1, <1>7
  <2>2. QED  BY <1>3, <1>5, <1>7, <2>1, StatusStays
<1>8. QED  BY <1>6, <1>7

\* A log of the candidates that has the head of the queue added.
Adds(cap2, outcome, class, status) ==
    /\ outcome \in Outcomes
    /\ class \in FailureClasses \cup {None}
    /\ status \in Statuses \cup {NoStatus}
    /\ cap2.provider_attempts
          = Append(capture.provider_attempts,
                   Attempt(Head(queue), outcome, class, status))
    /\ cap2.router_attempts = capture.router_attempts

LEMMA ProviderLogged ==
    ASSUME TypeOK, queue # << >>,
           Divides(capture.provider_attempts, candidates, queue),
           NEW cap2, NEW outcome, NEW class, NEW status,
           Adds(cap2, outcome, class, status)
    PROVE  /\ LastStatus(cap2)
                 = IF status # NoStatus THEN status ELSE LastStatus(capture)
           /\ Divides(cap2.provider_attempts, candidates, Tail(queue))
           /\ cap2.provider_attempts # << >>
           /\ Len(cap2.provider_attempts) <= Len(candidates)
           /\ cap2.provider_attempts[Len(cap2.provider_attempts)].outcome
                 = outcome
           /\ cap2.provider_attempts[1].who = candidates[1]
<1> DEFINE a == Attempt(Head(queue), outcome, class, status)
           S == AttemptOf(Tiers \cup Providers)
<1>1. /\ queue \in Seq(Providers) /\ Head(queue) \in Providers
      /\ candidates \in Seq(Providers)
  BY DEF TypeOK
<1>2. /\ a \in S /\ a \in AttemptOf(Providers)
      /\ a.upstream_status = status /\ a.outcome = outcome
      /\ a.who = Head(queue)
  BY <1>1, AttemptTyped DEF Attempt, Adds
<1>3. /\ capture \in Captures /\ capture.provider_attempts \in Seq(S)
      /\ capture.provider_attempts \in Seq(AttemptOf(Providers))
  BY CaptureTyped, AttemptsTyped DEF Captures
<1> HIDE DEF a, S
<1>4. Append(capture.provider_attempts, a) = capture.provider_attempts \o <<a>>
      /\ <<a>> \in Seq(S)
  BY <1>2, <1>3, AppendIsConcat
<1>5. cap2.provider_attempts = capture.provider_attempts \o <<a>>
  BY <1>4, Zenon DEF a, Adds
<1>6. Extends(cap2, capture, <<a>>)
  BY <1>3, <1>4, <1>5, LogsExtend DEF S, Adds
<1>7. LastStatus(cap2) = IF status # NoStatus THEN status ELSE LastStatus(capture)
  <2>1. CASE status # NoStatus
    BY <1>2, <1>6, <2>1, StatusSupersedes
  <2>2. CASE status = NoStatus
    <3>1. \A i \in 1..Len(<<a>>) : <<a>>[i].upstream_status = NoStatus
      BY <1>2, <2>2
    <3>2. QED  BY <1>4, <1>6, <2>2, <3>1, StatusStays
  <2>3. QED  BY <2>1, <2>2
<1>8. PICK longer : longer = Append(capture.provider_attempts, a)
  OBVIOUS
<1>9. /\ Divides(longer, candidates, Tail(queue))
      /\ longer # << >> /\ Len(longer) <= Len(candidates)
      /\ longer[Len(longer)] = a /\ longer[1].who = candidates[1]
  BY <1>1, <1>2, <1>3, <1>8, PathGrows
<1>10. cap2.provider_attempts = longer
  BY <1>8, Zenon DEF a, Adds
<1>11. QED  BY <1>2, <1>7, <1>9, <1>10

-----------------------------------------------------------------------------
(* What the client is shown in the end.                                    *)

\* The diagnostics of a capture that explains the path do so themselves.
LEMMA PathShown ==
    ASSUME NEW cap \in Captures, NEW list \in Seq(Providers), NEW who,
           Explains(cap, list, who)
    PROVE  LET path == cap.provider_attempts
           IN  /\ [i \in DOMAIN path |-> path[i].who]
                     = SubSeq(list, 1, Len(path))
               /\ path # << >> => cap.initial_provider = path[1].who
               /\ cap.selected_provider = who
               /\ (who # None)
                     = (path # << >> /\ Last(path).outcome = "success")
<1>1. PICK path \in Seq(AttemptOf(Providers)) : path = cap.provider_attempts
  BY DEF Captures
<1>2. Len(path) \in 0..Len(list) /\ DOMAIN path = 1..Len(path)
  BY <1>1 DEF Explains
<1>3. SubSeq(list, 1, Len(path)) = [i \in 1..Len(path) |-> list[i]]
  BY <1>2
<1>4. \A i \in 1..Len(path) : path[i].who = list[i]
  BY <1>1 DEF Explains
<1>5. [i \in DOMAIN path |-> path[i].who] = SubSeq(list, 1, Len(path))
  BY <1>2, <1>3, <1>4
<1>6. QED  BY <1>1, <1>5 DEF Explains, Last

\* What a request is shown that fails, and one that is answered.
LEMMA FailureExplained ==
    ASSUME TypeOK, NEW exception \in Exceptions, NEW cap \in Captures,
           NEW stage, NEW reason, NEW status, NEW diagnostics,
           stage # "none", reason # "NONE",
           diagnostics \in {BuildDiagnostics(cap, stage, reason, status),
                            [BuildDiagnostics(cap, stage, reason, status)
                                EXCEPT !.failure_class = None]},
           pc' = "done", response' = ErrorResponse(exception, diagnostics),
           access' = access, candidates' \in Seq(Providers),
           Explains(cap, candidates', answered_by'),
           observed' = IF status # NoStatus THEN status ELSE LastStatus(cap)
    PROVE  EndExplained' /\ UpstreamStatusLast'
<1>1. response'.status # 200 /\ response'.status = Handler[exception].status
  BY ErrorReplies
<1>2. CASE DeveloperMode
  <2>1. response'.diagnostics =
           [diagnostics EXCEPT !.http_status = Handler[exception].status,
                               !.failure_level = Handler[exception].level]
    BY <1>2 DEF ErrorResponse
  <2>2. /\ response'.diagnostics.fallback_path = cap.provider_attempts
        /\ response'.diagnostics.initial_provider = cap.initial_provider
        /\ response'.diagnostics.final_provider = cap.selected_provider
        /\ response'.diagnostics.failure_reason = reason
        /\ response'.diagnostics.failure_stage = stage
        /\ response'.diagnostics.http_status = Handler[exception].status
        /\ response'.diagnostics.upstream_status =
              IF status # NoStatus THEN status ELSE LastStatus(cap)
    <3>1. CASE diagnostics = BuildDiagnostics(cap, stage, reason, status)
      BY <2>1, <3>1 DEF BuildDiagnostics
    <3>2. CASE diagnostics = [BuildDiagnostics(cap, stage, reason, status)
                                 EXCEPT !.failure_class = None]
      BY <2>1, <3>2 DEF BuildDiagnostics
    <3>3. QED  BY <3>1, <3>2
  <2>3. UpstreamStatusLast'
    BY <2>2 DEF UpstreamStatusLast
  <2>4. access'.enabled /\ access'.asked
        /\ (access'.has_token => access'.token_matches)
    BY <1>2 DEF DeveloperMode
  <2>5. LET path == response'.diagnostics.fallback_path
        IN  /\ [i \in DOMAIN path |-> path[i].who]
                  = SubSeq(candidates', 1, Len(path))
            /\ path # << >> =>
                  response'.diagnostics.initial_provider = path[1].who
            /\ response'.diagnostics.final_provider = answered_by'
            /\ (answered_by' # None)
                  = (path # << >> /\ Last(path).outcome = "success")
    BY <2>2, PathShown DEF Last
  <2>6. EndExplained'
    BY <1>1, <2>2, <2>4, <2>5, Zenon DEF EndExplained, Reported, Last
  <2>7. QED  BY <2>3, <2>6
<1>3. CASE ~DeveloperMode
  <2>1. response'.diagnostics = None
    BY <1>3 DEF ErrorResponse
  <2>2. QED  BY <2>1 DEF EndExplained, UpstreamStatusLast, Reported
<1>4. QED  BY <1>2, <1>3

LEMMA AnswerExplained ==
    ASSUME TypeOK, NEW action, NEW cap \in Captures,
           pc' = "done", response' = SuccessResponse(action, cap),
           access' = access, candidates' \in Seq(Providers),
           Explains(cap, candidates', answered_by'),
           observed' = LastStatus(cap)
    PROVE  EndExplained' /\ UpstreamStatusLast'
<1>1. response'.status = 200
  BY AnswerReplies
<1>2. CASE DeveloperMode
  <2>1. response'.diagnostics =
           [BuildDiagnostics(cap, "none", "NONE", NoStatus)
               EXCEPT !.http_status = 200]
    BY <1>2 DEF SuccessResponse
  <2>2. /\ response'.diagnostics.fallback_path = cap.provider_attempts
        /\ response'.diagnostics.initial_provider = cap.initial_provider
        /\ response'.diagnostics.final_provider = cap.selected_provider
        /\ response'.diagnostics.failure_reason = "NONE"
        /\ response'.diagnostics.failure_stage = "none"
        /\ response'.diagnostics.failure_class = None
        /\ response'.diagnostics.http_status = 200
        /\ response'.diagnostics.upstream_status = LastStatus(cap)
    BY <2>1 DEF BuildDiagnostics
  <2>3. UpstreamStatusLast'
    BY <2>2 DEF UpstreamStatusLast
  <2>4. access'.enabled /\ access'.asked
        /\ (access'.has_token => access'.token_matches)
    BY <1>2 DEF DeveloperMode
  <2>5. LET path == response'.diagnostics.fallback_path
        IN  /\ [i \in DOMAIN path |-> path[i].who]
                  = SubSeq(candidates', 1, Len(path))
            /\ path # << >> =>
                  response'.diagnostics.initial_provider = path[1].who
            /\ response'.diagnostics.final_provider = answered_by'
            /\ (answered_by' # None)
                  = (path # << >> /\ Last(path).outcome = "success")
    BY <2>2, PathShown DEF Last
  <2>6. EndExplained'
    BY <1>1, <2>2, <2>4, <2>5, Zenon DEF EndExplained, Reported, Last
  <2>7. QED  BY <2>3, <2>6
<1>3. CASE ~DeveloperMode
  <2>1. response'.diagnostics = None
    BY <1>3 DEF SuccessResponse
  <2>2. QED  BY <2>1 DEF EndExplained, UpstreamStatusLast, Reported
<1>4. QED  BY <1>2, <1>3

-----------------------------------------------------------------------------
(* Every step keeps the capture right, and shows it right if it ends the   *)
(* request.                                                                *)

Right == CaptureRight' /\ UpstreamStatusLast' /\ EndExplained'

LEMMA SameStatus ==
    ASSUME NEW cap, NEW cap2, cap2 = cap
    PROVE  LastStatus(cap2) = LastStatus(cap)
  OBVIOUS

\* A step that leaves the capture and ends the request, or goes on.
LEMMA CaptureKept ==
    ASSUME ReportInv, pc' \in {"done", "round", "router", "provider"},
           pc' = "round" \/ pc' = "router" => pc \in {"new", "round"},
           pc' = "provider" => pc = "candidates" /\ UNCHANGED queue,
           UNCHANGED <<capture, candidates, answered_by, observed, last_error>>
    PROVE  CaptureRight'
<1>1. Explained'
  BY DEF ReportInv, CaptureRight, Explained, Explains
<1>2. Untried' /\ Fresh'
  BY DEF ReportInv, CaptureRight, Untried, Fresh
<1>3. Divided'
  BY DEF ReportInv, CaptureRight, Divided, Divides
<1>4. StatusKept'
  BY SameStatus DEF ReportInv, CaptureRight, StatusKept
<1>5. QED  BY <1>1, <1>2, <1>3, <1>4 DEF CaptureRight

LEMMA GoesOn ==
    ASSUME pc' # "done"
    PROVE  UpstreamStatusLast' /\ EndExplained'
  BY DEF UpstreamStatusLast, EndExplained, Reported

LEMMA CaptureFacts ==
    ASSUME ReportInv
    PROVE  /\ TypeOK /\ Asking
           /\ capture \in Captures /\ candidates \in Seq(Providers)
           /\ Explains(capture, candidates, answered_by)
           /\ observed = LastStatus(capture)
  BY CaptureTyped DEF ReportInv, TypeOK, CaptureRight, Explained, StatusKept

LEMMA QuietSteps ==
    ASSUME ReportInv,
           Reject \/ RejectImageless \/ Accept \/ Stop \/ Deny \/ AskRouters
              \/ LateAtCandidate \/ AskProvider \/ Gateway
    PROVE  Right
<1> USE DEF Right, Exceptions, handled, pathVars, historyVars
<1>1. CaptureRight'
  BY CaptureKept DEF Reject, RejectImageless, Accept, Stop, Deny, AskRouters,
        LateAtCandidate, AskProvider, Gateway, Fail, Conclude, DeadlineExceeded
<1>2. /\ TypeOK /\ capture \in Captures /\ candidates \in Seq(Providers)
      /\ Explains(capture, candidates, answered_by)
      /\ observed = LastStatus(capture)
  BY CaptureFacts
<1>3. CASE Reject
  <2>1. PICK exception \in {"RequestValidationError", "HTTPException",
                            "ConversationNotFoundError", "PolicyNotFoundError"} :
           Fail(exception, RequestFailureDiagnostics)
    BY <1>3 DEF Reject
  <2>2. capture = NewCapture /\ observed = NoStatus
    BY <1>3 DEF Reject, ReportInv, CaptureRight, Fresh
  <2>3. RequestFailureDiagnostics =
           [BuildDiagnostics(capture, "request", "UNKNOWN", NoStatus)
               EXCEPT !.failure_class = None]
    BY <2>2, Zenon DEF RequestFailureDiagnostics
  <2>4. QED
    BY <1>1, <1>2, <1>3, <2>1, <2>3, FailureExplained DEF Reject, Fail
<1>4. CASE RejectImageless
  BY <1>1, <1>2, <1>4, FailureExplained DEF RejectImageless, Fail
<1>5. CASE Accept \/ AskRouters \/ AskProvider
  BY <1>1, <1>5, GoesOn DEF Accept, AskRouters, AskProvider
<1>6. CASE Stop
  BY <1>1, <1>2, <1>6, AnswerExplained DEF Stop, Conclude
<1>7. CASE Deny
  BY <1>1, <1>2, <1>7, FailureExplained DEF Deny, Fail
<1>8. CASE LateAtCandidate
  BY <1>1, <1>2, <1>8, FailureExplained
     DEF LateAtCandidate, DeadlineExceeded, Fail
<1>9. CASE Gateway
  <2>1. CASE Conclude("ANSWER", capture)
    BY <1>1, <1>2, <1>9, <2>1, AnswerExplained DEF Gateway, Conclude
  <2>2. CASE Fail("GatewayExecutionError",
                  BuildDiagnostics(capture, "gateway", "UNKNOWN", NoStatus))
    BY <1>1, <1>2, <1>9, <2>2, FailureExplained DEF Gateway, Fail
  <2>3. CASE DeadlineExceeded(capture)
    BY <1>1, <1>2, <1>9, <2>3, FailureExplained
       DEF Gateway, DeadlineExceeded, Fail
  <2>4. QED  BY <1>9, <2>1, <2>2, <2>3 DEF Gateway
<1>10. QED  BY <1>3, <1>4, <1>5, <1>6, <1>7, <1>8, <1>9

\* Every candidate failed or was skipped: the last failure's status is the
\* last one observed, if it has one.
LEMMA ExhaustedStep ==
    ASSUME ReportInv, Exhausted
    PROVE  Right
<1> USE DEF Right, Exceptions, handled, pathVars, historyVars
<1> DEFINE reason == IF last_error = None THEN "NO_ELIGIBLE_PROVIDER"
                     ELSE last_error.reason
           status == IF last_error = None THEN NoStatus ELSE last_error.status
<1>1. CaptureRight'
  BY CaptureKept DEF Exhausted, Fail
<1>2. /\ TypeOK /\ capture \in Captures /\ candidates \in Seq(Providers)
      /\ Explains(capture, candidates, answered_by)
      /\ observed = LastStatus(capture)
  BY CaptureFacts
<1>3. last_error # None => last_error \in ProviderErrors
  BY <1>2 DEF TypeOK
<1>4. reason # "NONE"
  BY <1>3, ErrorTyped
<1>5. observed = IF status # NoStatus THEN status ELSE LastStatus(capture)
  BY <1>2 DEF ReportInv, CaptureRight, StatusKept
<1>6. Fail("ProviderExecutionError",
           BuildDiagnostics(capture, "provider", reason, status))
  BY DEF Exhausted
<1> HIDE DEF reason, status
<1>7. QED
  BY <1>1, <1>2, <1>4, <1>5, <1>6, FailureExplained DEF Exhausted, Fail

\* Before the candidates are tried, an empty path explains everything.
LEMMA EmptyPath ==
    ASSUME ReportInv, pc = "router", NEW cap2, NEW list \in Seq(Providers),
           cap2.provider_attempts = << >>,
           cap2.selected_provider = capture.selected_provider
    PROVE  Explains(cap2, list, answered_by) /\ answered_by = None
<1>1. capture.provider_attempts = << >>
  BY DEF ReportInv, CaptureRight, Untried
<1>2. answered_by = None /\ capture.selected_provider = answered_by
  BY <1>1 DEF ReportInv, CaptureRight, Explained, Explains
<1>3. Len(<< >>) = 0 /\ Len(list) \in Nat
  OBVIOUS
<1>4. QED  BY <1>2, <1>3 DEF Explains

LEMMA RouterSteps ==
    ASSUME ReportInv,
           RouterFails \/ RouterCancelled \/ RouterRetries \/ RouterConcludes
              \/ RouterAnswers
    PROVE  Right
<1> USE DEF Right, Exceptions, handled, pathVars, historyVars
<1>1. /\ TypeOK /\ Asking /\ capture \in Captures
      /\ candidates \in Seq(Providers) /\ observed = LastStatus(capture)
  BY CaptureFacts
<1>2. /\ pc = "router" /\ capture.provider_attempts = << >> /\ last_error = None
  BY DEF RouterFails, RouterCancelled, RouterRetries, RouterConcludes,
         RouterAnswers, ReportInv, CaptureRight, Untried
<1>3. capture' \in Captures
  BY <1>1, TypeOfRouterStep
<1>4. /\ Decided.router_attempts = Append(capture.router_attempts,
                                     Attempt(tier, "success", None, NoStatus))
      /\ Decided.provider_attempts = << >>
      /\ Decided.selected_provider = capture.selected_provider
  BY <1>1, <1>2 DEF Decided, LogRouter, Captures
<1>5. CASE RouterFails
  <2>1. PICK error \in RouterErrors :
           /\ capture' = [LogRouter(capture, "failed", FailureClass(error),
                                    error.status) EXCEPT !.fallback_used = TRUE]
           /\ Observe(error)
    BY <1>5 DEF RouterFails
  <2>2. /\ error.status \in Statuses \cup {NoStatus}
        /\ FailureClass(error) \in FailureClasses
    BY ErrorTyped
  <2>3. /\ capture'.router_attempts
              = Append(capture.router_attempts,
                       Attempt(tier, "failed", FailureClass(error), error.status))
        /\ capture'.provider_attempts = << >>
        /\ capture'.selected_provider = capture.selected_provider
    BY <1>1, <1>2, <2>1 DEF LogRouter, Captures
  <2>4. LastStatus(capture') = IF error.status # NoStatus THEN error.status
                               ELSE LastStatus(capture)
    BY <1>1, <1>2, <2>2, <2>3, RouterLogged DEF Outcomes
  <2>5. LastStatus(capture') = observed'
    BY <1>1, <2>1, <2>4 DEF Observe
  <2>6. /\ Explains(capture', candidates', answered_by')
        /\ UNCHANGED <<candidates, answered_by, last_error, access>>
    BY <1>1, <1>2, <1>5, <2>3, EmptyPath DEF RouterFails
  <2>7. pc' \in {"router", "done"}
    BY <1>2, <1>5 DEF RouterFails, Fail
  <2>8. CaptureRight'
    BY <1>2, <2>3, <2>5, <2>6, <2>7
       DEF CaptureRight, Explained, Untried, Fresh, Divided, StatusKept
  <2>9. CASE tier = "primary_router"
    <3>1. pc' # "done"
      BY <1>2, <1>5, <2>9 DEF RouterFails
    <3>2. QED  BY <2>8, <3>1, GoesOn
  <2>10. CASE tier # "primary_router"
    <3>1. Fail("RoutingEngineError",
               BuildDiagnostics(capture', "fallback_router",
                                "ROUTER_CHAIN_EXHAUSTED", NoStatus))
      BY <1>5, <2>10 DEF RouterFails
    <3>2. QED
      BY <1>1, <1>3, <2>5, <2>6, <2>8, <3>1, FailureExplained DEF Fail
  <2>11. QED  BY <2>9, <2>10
<1>6. CASE RouterCancelled
  <2>1. /\ capture'.router_attempts
              = Append(capture.router_attempts,
                       Attempt(tier, "cancelled", "DEADLINE_EXCEEDED", NoStatus))
        /\ capture'.provider_attempts = << >>
        /\ capture'.selected_provider = capture.selected_provider
    BY <1>1, <1>2, <1>6 DEF RouterCancelled, LogRouter, Captures
  <2>2. LastStatus(capture') = observed'
    <3>1. LastStatus(capture') = LastStatus(capture)
      BY <1>1, <1>2, <2>1, RouterLogged DEF Outcomes, FailureClasses
    <3>2. QED  BY <1>1, <1>6, <3>1 DEF RouterCancelled
  <2>3. /\ Explains(capture', candidates', answered_by')
        /\ UNCHANGED <<candidates, answered_by, last_error, access>>
    BY <1>1, <1>2, <1>6, <2>1, EmptyPath DEF RouterCancelled
  <2>4. Fail("DeadlineExceededError",
             BuildDiagnostics(capture', "deadline", "DEADLINE_EXCEEDED", NoStatus))
    BY <1>6 DEF RouterCancelled, DeadlineExceeded
  <2>5. CaptureRight'
    BY <1>2, <2>1, <2>2, <2>3, <2>4
       DEF CaptureRight, Explained, Untried, Fresh, Divided, StatusKept, Fail
  <2>6. QED
    BY <1>1, <1>3, <2>2, <2>3, <2>4, <2>5, FailureExplained DEF Fail
<1>7. CASE (RouterRetries \/ RouterConcludes) /\ capture' = Decided
  <2>1. LastStatus(capture') = observed'
    <3>1. LastStatus(capture') = LastStatus(capture)
      BY <1>1, <1>2, <1>4, <1>7, RouterLogged DEF Outcomes
    <3>2. QED  BY <1>1, <1>7, <3>1 DEF RouterRetries, RouterConcludes
  <2>2. UNCHANGED <<candidates, answered_by, last_error, access>>
    BY <1>7 DEF RouterRetries, RouterConcludes
  <2>3. Explains(capture', candidates', answered_by')
    BY <1>1, <1>2, <1>4, <1>7, <2>2, EmptyPath
  <2>4. pc' \in {"round", "done"}
    BY <1>7 DEF RouterRetries, RouterConcludes, Conclude
  <2>5. CaptureRight'
    BY <1>2, <1>4, <1>7, <2>1, <2>2, <2>3, <2>4
       DEF CaptureRight, Explained, Untried, Fresh, Divided, StatusKept
  <2>6. CASE \E action \in {"CLARIFY", "STOP"} : Conclude(action, capture')
    BY <1>1, <1>3, <2>1, <2>2, <2>3, <2>5, <2>6, AnswerExplained DEF Conclude
  <2>7. CASE pc' = "round"
    BY <2>5, <2>7, GoesOn
  <2>8. QED  BY <1>7, <2>6, <2>7 DEF RouterRetries, RouterConcludes
<1>8. CASE RouterAnswers
  <2>1. PICK list \in CandidateLists :
           /\ queue' = list /\ candidates' = list
           /\ capture' = IF list = << >> THEN Decided
                         ELSE [Decided EXCEPT !.initial_provider = Head(list)]
    BY <1>8 DEF RouterAnswers
  <2>2. list \in Seq(Providers) /\ (list # << >> => Head(list) = list[1])
    BY DiagnosticsAssumption
  <2>3. Decided \in Captures
    BY <1>1, LogsTyped, FieldsTyped DEF Decided, Outcomes, TypeOK
  <2>4. /\ capture'.router_attempts
              = Append(capture.router_attempts,
                       Attempt(tier, "success", None, NoStatus))
        /\ capture'.provider_attempts = << >>
        /\ capture'.selected_provider = capture.selected_provider
        /\ list # << >> => capture'.initial_provider = list[1]
    BY <1>4, <2>1, <2>2, <2>3 DEF Captures
  <2>5. LastStatus(capture') = observed'
    <3>1. LastStatus(capture') = LastStatus(capture)
      <4>1. /\ "success" \in Outcomes /\ None \in FailureClasses \cup {None}
            /\ NoStatus \in Statuses \cup {NoStatus}
        BY DEF Outcomes
      <4>2. /\ capture'.router_attempts
                  = Append(capture.router_attempts,
                           Attempt(tier, "success", None, NoStatus))
            /\ capture'.provider_attempts = << >>
        BY <2>4
      <4>3. QED  BY <1>1, <1>2, <4>1, <4>2, RouterLogged, ZenonT(30)
    <3>2. QED  BY <1>1, <1>8, <3>1 DEF RouterAnswers
  <2>6. UNCHANGED <<answered_by, last_error>> /\ pc' = "candidates"
    BY <1>8 DEF RouterAnswers
  <2>7. Explains(capture', candidates', answered_by') /\ answered_by' = None
    BY <1>2, <2>1, <2>2, <2>4, <2>6, EmptyPath
  <2>8. Divides(capture'.provider_attempts, candidates', queue')
    BY <2>1, <2>2, <2>4 DEF Divides
  <2>9. CaptureRight'
    BY <1>2, <2>1, <2>4, <2>5, <2>6, <2>7, <2>8
       DEF CaptureRight, Explained, Untried, Fresh, Divided, StatusKept
  <2>10. QED  BY <2>6, <2>9, GoesOn
<1>9. QED
  BY <1>5, <1>6, <1>7, <1>8 DEF RouterRetries, RouterConcludes

\* What the steps on a candidate find.
LEMMA AtCandidate ==
    ASSUME ReportInv,
           SkipBlocked \/ ProviderFails \/ ProviderBreaks \/ ProviderCancelled
              \/ ProviderAnswers
    PROVE  /\ TypeOK /\ Asking /\ capture \in Captures
           /\ candidates \in Seq(Providers) /\ observed = LastStatus(capture)
           /\ queue # << >> /\ Head(queue) \in Providers
           /\ Divides(capture.provider_attempts, candidates, queue)
           /\ candidates # << >>
           /\ capture.initial_provider = candidates[1]
           /\ answered_by = None /\ capture.selected_provider = None
           /\ pc \in {"candidates", "provider"}
<1>1. /\ TypeOK /\ Asking /\ capture \in Captures
      /\ candidates \in Seq(Providers) /\ observed = LastStatus(capture)
      /\ Explains(capture, candidates, answered_by)
  BY CaptureFacts
<1>2. queue # << >> /\ pc \in {"candidates", "provider"}
  BY <1>1 DEF Asking, SkipBlocked, ProviderFails, ProviderBreaks,
              ProviderCancelled, ProviderAnswers
<1>3. queue \in Seq(Providers)
  BY <1>1 DEF TypeOK
<1>4. Len(queue) \in Nat \ {0} /\ Head(queue) \in Providers
  BY <1>2, <1>3
<1>5. /\ Divides(capture.provider_attempts, candidates, queue)
      /\ candidates # << >> => capture.initial_provider = candidates[1]
      /\ answered_by = None
  BY <1>2 DEF ReportInv, CaptureRight, Divided
<1>6. capture.selected_provider = None
  BY <1>1, <1>5 DEF Explains
<1>7. candidates # << >>
  <2>1. PICK path \in Seq(AttemptOf(Providers)) :
           path = capture.provider_attempts
    BY <1>1 DEF Captures
  <2>2. Len(path) \in Nat /\ Len(candidates) = Len(path) + Len(queue)
    BY <1>5, <2>1 DEF Divides
  <2>3. Len(candidates) # 0
    BY <1>4, <2>2
  <2>4. QED  BY <2>3
<1>8. QED  BY <1>1, <1>2, <1>4, <1>5, <1>6, <1>7

\* A candidate is dealt with, and did not answer.
LEMMA CandidateLogged ==
    ASSUME ReportInv,
           SkipBlocked \/ ProviderFails \/ ProviderBreaks \/ ProviderCancelled,
           NEW cap2, NEW outcome, NEW class, NEW status,
           Adds(cap2, outcome, class, status), outcome # "success",
           cap2.initial_provider = capture.initial_provider,
           cap2.selected_provider = capture.selected_provider
    PROVE  /\ LastStatus(cap2)
                 = IF status # NoStatus THEN status ELSE LastStatus(capture)
           /\ Divides(cap2.provider_attempts, candidates, Tail(queue))
           /\ Explains(cap2, candidates, None)
           /\ cap2.provider_attempts # << >>
           /\ cap2.initial_provider = candidates[1]
<1>1. /\ TypeOK /\ queue # << >>
      /\ Divides(capture.provider_attempts, candidates, queue)
      /\ capture.initial_provider = candidates[1]
      /\ capture.selected_provider = None
  BY AtCandidate
<1>2. /\ LastStatus(cap2)
            = IF status # NoStatus THEN status ELSE LastStatus(capture)
      /\ Divides(cap2.provider_attempts, candidates, Tail(queue))
      /\ cap2.provider_attempts # << >>
      /\ Len(cap2.provider_attempts) <= Len(candidates)
      /\ cap2.provider_attempts[Len(cap2.provider_attempts)].outcome = outcome
      /\ cap2.provider_attempts[1].who = candidates[1]
  BY <1>1, ProviderLogged
<1>3. Explains(cap2, candidates, None)
  BY <1>1, <1>2 DEF Explains, Divides
<1>4. QED  BY <1>1, <1>2, <1>3

LEMMA ProviderSteps ==
    ASSUME ReportInv,
           SkipBlocked \/ ProviderFails \/ ProviderBreaks \/ ProviderCancelled
              \/ ProviderAnswers
    PROVE  Right
<1> USE DEF Right, Exceptions, handled, pathVars, historyVars
<1>1. /\ TypeOK /\ Asking /\ capture \in Captures
      /\ candidates \in Seq(Providers) /\ observed = LastStatus(capture)
      /\ queue # << >> /\ Head(queue) \in Providers
      /\ Divides(capture.provider_attempts, candidates, queue)
      /\ answered_by = None /\ pc \in {"candidates", "provider"}
  BY AtCandidate
<1>2. capture' \in Captures
  BY <1>1, TypeOfProviderStep
<1>3. last_error # None /\ last_error.status # NoStatus
         => last_error.status = observed
  BY DEF ReportInv, CaptureRight, StatusKept
<1>4. CASE SkipBlocked
  <2>1. /\ Adds(capture', "skipped_auth_failure", "AUTH", NoStatus)
        /\ capture'.initial_provider = capture.initial_provider
        /\ capture'.selected_provider = capture.selected_provider
    BY <1>1, <1>4 DEF SkipBlocked, LogProvider, Captures, Adds, Outcomes,
                      FailureClasses
  <2>2. /\ LastStatus(capture') = LastStatus(capture)
        /\ Divides(capture'.provider_attempts, candidates, Tail(queue))
        /\ Explains(capture', candidates, None)
        /\ capture'.initial_provider = candidates[1]
    BY <1>4, <2>1, CandidateLogged
  <2>3. /\ UNCHANGED <<candidates, answered_by, observed, last_error, pc>>
        /\ queue' = Tail(queue)
    BY <1>4 DEF SkipBlocked
  <2>4. CaptureRight'
    BY <1>1, <1>3, <2>2, <2>3
       DEF CaptureRight, Explained, Untried, Fresh, Divided, StatusKept
  <2>5. QED  BY <1>1, <2>3, <2>4, GoesOn
<1>5. CASE ProviderFails
  <2>1. PICK error \in ProviderErrors :
           /\ last_error' = error
           /\ capture' = [LogProvider(capture, "failed", FailureClass(error),
                                      error.status)
                             EXCEPT !.fallback_used = TRUE,
                                    !.provider_error = error.reason]
           /\ Observe(error)
    BY <1>5 DEF ProviderFails
  <2>2. /\ error.status \in Statuses \cup {NoStatus}
        /\ FailureClass(error) \in FailureClasses
    BY ErrorTyped
  <2>3. /\ Adds(capture', "failed", FailureClass(error), error.status)
        /\ capture'.initial_provider = capture.initial_provider
        /\ capture'.selected_provider = capture.selected_provider
    BY <1>1, <2>1, <2>2 DEF LogProvider, Captures, Adds, Outcomes
  <2>4. /\ LastStatus(capture') = IF error.status # NoStatus THEN error.status
                                  ELSE LastStatus(capture)
        /\ Divides(capture'.provider_attempts, candidates, Tail(queue))
        /\ Explains(capture', candidates, None)
        /\ capture'.initial_provider = candidates[1]
    BY <1>5, <2>3, CandidateLogged
  <2>5. LastStatus(capture') = observed'
    BY <1>1, <2>1, <2>4 DEF Observe
  <2>6. last_error'.status # NoStatus => last_error'.status = observed'
    BY <2>1 DEF Observe
  <2>7. /\ UNCHANGED <<candidates, answered_by>> /\ pc' = "candidates"
        /\ queue' = Tail(queue)
    BY <1>5 DEF ProviderFails
  <2>8. CaptureRight'
    BY <1>1, <2>4, <2>5, <2>6, <2>7
       DEF CaptureRight, Explained, Untried, Fresh, Divided, StatusKept
  <2>9. QED  BY <2>7, <2>8, GoesOn
<1>6. CASE ProviderBreaks
  <2>1. /\ Adds(capture', "failed", "UNKNOWN", NoStatus)
        /\ capture'.initial_provider = capture.initial_provider
        /\ capture'.selected_provider = capture.selected_provider
    BY <1>1, <1>6 DEF ProviderBreaks, LogProvider, Captures, Adds, Outcomes,
                      FailureClasses
  <2>2. /\ LastStatus(capture') = LastStatus(capture)
        /\ Explains(capture', candidates, None)
    BY <1>6, <2>1, CandidateLogged
  <2>3. /\ UNCHANGED <<candidates, answered_by, observed, last_error, access>>
        /\ Fail("UnexpectedExecutionError",
                BuildDiagnostics(capture', "dispatcher", "UNKNOWN", NoStatus))
    BY <1>6 DEF ProviderBreaks
  <2>4. CaptureRight'
    BY <1>1, <1>3, <2>2, <2>3
       DEF CaptureRight, Explained, Untried, Fresh, Divided, StatusKept, Fail
  <2>5. QED
    BY <1>1, <1>2, <2>2, <2>3, <2>4, FailureExplained DEF Fail
<1>7. CASE ProviderCancelled
  <2> DEFINE cut == LogProvider(capture, "cancelled", "DEADLINE_EXCEEDED",
                                NoStatus)
             pending == [i \in DOMAIN Tail(queue) |->
                            Attempt(Tail(queue)[i], "skipped_deadline",
                                    "DEADLINE_EXCEEDED", NoStatus)]
  <2>1. capture' = [cut EXCEPT !.provider_attempts = @ \o pending]
    BY <1>7 DEF ProviderCancelled
  <2>2. /\ Adds(cut, "cancelled", "DEADLINE_EXCEEDED", NoStatus)
        /\ cut.initial_provider = capture.initial_provider
        /\ cut.selected_provider = capture.selected_provider
    BY <1>1 DEF LogProvider, Captures, Adds, Outcomes, FailureClasses
  <2>3. cut \in Captures
    BY <1>1, LogsTyped DEF Outcomes, FailureClasses
  <2>4. PICK rest \in Seq(Providers) : rest = Tail(queue)
    <3>1. queue \in Seq(Providers)
      BY <1>1 DEF TypeOK
    <3>2. QED  BY <1>1, <3>1, HeadTailProperties
  <2>5. /\ Len(pending) = Len(rest)
        /\ pending \in Seq(AttemptOf(Providers))
        /\ \A i \in 1..Len(rest) : /\ pending[i].who = rest[i]
                                   /\ pending[i].upstream_status = NoStatus
                                   /\ pending[i].outcome = "skipped_deadline"
    <3>1. pending = [i \in DOMAIN rest |->
                        Attempt(rest[i], "skipped_deadline",
                                "DEADLINE_EXCEEDED", NoStatus)]
      BY <2>4, Zenon
    <3>2. DOMAIN rest = 1..Len(rest) /\ Len(rest) \in Nat
          /\ \A i \in 1..Len(rest) : rest[i] \in Providers
      OBVIOUS
    <3>3. \A i \in 1..Len(rest) :
             Attempt(rest[i], "skipped_deadline", "DEADLINE_EXCEEDED", NoStatus)
                \in AttemptOf(Providers)
      <4>1. /\ "skipped_deadline" \in Outcomes
            /\ "DEADLINE_EXCEEDED" \in FailureClasses \cup {None}
            /\ NoStatus \in Statuses \cup {NoStatus}
        BY DEF Outcomes, FailureClasses
      <4>2. QED  BY <3>2, <4>1, AttemptTyped
    <3>4. PICK m : m = [i \in 1..Len(rest) |->
                           Attempt(rest[i], "skipped_deadline",
                                   "DEADLINE_EXCEEDED", NoStatus)]
      OBVIOUS
    <3>5. /\ Len(m) = Len(rest) /\ m \in Seq(AttemptOf(Providers))
          /\ \A i \in 1..Len(rest) :
                m[i] = Attempt(rest[i], "skipped_deadline",
                               "DEADLINE_EXCEEDED", NoStatus)
      BY <3>2, <3>3, <3>4
    <3>6. \A i \in 1..Len(rest) : /\ m[i].who = rest[i]
                                  /\ m[i].upstream_status = NoStatus
                                  /\ m[i].outcome = "skipped_deadline"
      <4> SUFFICES ASSUME NEW i \in 1..Len(rest)
                   PROVE  /\ m[i].who = rest[i]
                          /\ m[i].upstream_status = NoStatus
                          /\ m[i].outcome = "skipped_deadline"
        OBVIOUS
      <4>1. PICK a : a = Attempt(rest[i], "skipped_deadline",
                                 "DEADLINE_EXCEEDED", NoStatus)
        OBVIOUS
      <4>2. /\ a.who = rest[i] /\ a.upstream_status = NoStatus
            /\ a.outcome = "skipped_deadline"
        BY <4>1 DEF Attempt
      <4>3. m[i] = a
        BY <3>5, <4>1, Zenon
      <4>4. QED  BY <4>2, <4>3, Zenon
    <3>7. pending = m
      BY <3>1, <3>2, <3>4, Zenon
    <3>8. QED  BY <3>5, <3>6, <3>7, Zenon
  <2> HIDE DEF cut, pending
  <2>6. /\ LastStatus(cut) = LastStatus(capture)
        /\ Divides(cut.provider_attempts, candidates, rest)
        /\ Explains(cut, candidates, None)
        /\ cut.provider_attempts # << >>
        /\ cut.initial_provider = candidates[1]
    BY <1>7, <2>2, <2>4, CandidateLogged
  <2>7. /\ capture'.provider_attempts = cut.provider_attempts \o pending
        /\ capture'.router_attempts = cut.router_attempts
        /\ capture'.initial_provider = cut.initial_provider
        /\ capture'.selected_provider = cut.selected_provider
    BY <2>1, <2>3 DEF Captures
  <2>8. LastStatus(capture') = LastStatus(capture)
    <3>1. pending \in Seq(AttemptOf(Tiers \cup Providers))
      <4>1. AttemptOf(Providers) \subseteq AttemptOf(Tiers \cup Providers)
        BY DEF AttemptOf
      <4>2. QED  BY <2>5, <4>1, SeqMonotonic
    <3>2. Extends(capture', cut, pending)
      BY <2>3, <2>7, <3>1, LogsExtend
    <3>3. \A i \in 1..Len(pending) : pending[i].upstream_status = NoStatus
      BY <2>5
    <3>4. LastStatus(capture') = LastStatus(cut)
      BY <3>1, <3>2, <3>3, StatusStays
    <3>5. QED  BY <2>6, <3>4
  <2>9. Explains(capture', candidates, None)
    <3>1. PICK path \in Seq(AttemptOf(Providers)) : path = cut.provider_attempts
      BY <2>3 DEF Captures
    <3>2. PICK m \in Seq(AttemptOf(Providers)) : m = pending
      BY <2>5
    <3>3. /\ Len(path) \in Nat \ {0} /\ Len(m) \in Nat /\ Len(rest) = Len(m)
          /\ Len(candidates) = Len(path) + Len(m)
      <4>1. path # << >> /\ Len(candidates) = Len(path) + Len(rest)
        BY <2>6, <3>1 DEF Divides
      <4>2. Len(rest) = Len(m)
        BY <2>5, <3>2
      <4>3. QED  BY <4>1, <4>2
    <3>4. /\ \A i \in 1..Len(path) : path[i].who = candidates[i]
          /\ \A i \in 1..Len(m) : m[i].who = candidates[Len(path) + i]
          /\ path[1].who = candidates[1] /\ path[Len(path)].outcome # "success"
      <4>1. \A i \in 1..Len(path) : path[i].who = candidates[i]
        BY <2>6, <3>1 DEF Divides
      <4>2. \A i \in 1..Len(m) : m[i].who = candidates[Len(path) + i]
        BY <2>5, <2>6, <3>1, <3>2, <3>3 DEF Divides
      <4>3. path[Len(path)].outcome # "success"
        BY <2>6, <3>1 DEF Explains
      <4>4. path[1].who = candidates[1]
        BY <3>3, <4>1
      <4>5. QED  BY <4>1, <4>2, <4>3, <4>4
    <3>5. PICK full : full = path \o m
      OBVIOUS
    <3>6. /\ Len(full) = Len(path) + Len(m)
          /\ \A i \in 1..Len(path) : full[i] = path[i]
          /\ \A i \in 1..Len(m) : full[Len(path) + i] = m[i]
      <4>1. /\ path \o m \in Seq(AttemptOf(Providers))
            /\ Len(path \o m) = Len(path) + Len(m)
            /\ \A i \in 1..Len(path) : (path \o m)[i] = path[i]
            /\ \A i \in 1..Len(m) : (path \o m)[Len(path) + i] = m[i]
        BY <3>3, ConcatProperties
      <4>2. QED  BY <3>5, <4>1, Zenon
    <3>7. \A i \in 1..Len(full) : full[i].who = candidates[i]
      <4> SUFFICES ASSUME NEW i \in 1..Len(full)
                   PROVE  full[i].who = candidates[i]
        OBVIOUS
      <4>1. CASE i \in 1..Len(path)
        BY <3>4, <3>6, <4>1
      <4>2. CASE i \notin 1..Len(path)
        <5>1. i - Len(path) \in 1..Len(m) /\ i = Len(path) + (i - Len(path))
          BY <3>3, <3>6, <4>2
        <5>2. PICK j \in 1..Len(m) : i = Len(path) + j
          BY <5>1
        <5>3. QED  BY <3>4, <3>6, <5>2
      <4>3. QED  BY <4>1, <4>2
    <3>8. full[Len(full)].outcome # "success"
      <4>1. CASE Len(m) = 0
        BY <3>3, <3>4, <3>6, <4>1
      <4>2. CASE Len(m) # 0
        <5>1. full[Len(full)] = m[Len(m)] /\ m[Len(m)].outcome = "skipped_deadline"
          BY <2>5, <3>2, <3>3, <3>6, <4>2
        <5>2. QED  BY <5>1
      <4>3. QED  BY <4>1, <4>2
    <3>9. full # << >> /\ full[1].who = candidates[1]
      BY <3>3, <3>6, <3>7
    <3>10. capture'.provider_attempts = full
      BY <2>7, <3>1, <3>2, <3>5, Zenon
    <3>11. cut.selected_provider = None
      BY <2>6 DEF Explains
    <3>12. capture'.initial_provider = candidates[1]
           /\ capture'.selected_provider = None
      BY <2>6, <2>7, <3>11
    <3>13. Len(full) <= Len(candidates)
      BY <3>3, <3>6
    <3>14. QED  BY <3>7, <3>8, <3>9, <3>10, <3>12, <3>13 DEF Explains
  <2>10. /\ UNCHANGED <<candidates, answered_by, observed, last_error, access>>
         /\ Fail("DeadlineExceededError",
                 BuildDiagnostics(capture', "deadline", "DEADLINE_EXCEEDED",
                                  NoStatus))
    BY <1>7 DEF ProviderCancelled, DeadlineExceeded
  <2>11. CaptureRight'
    BY <1>1, <1>3, <2>8, <2>9, <2>10
       DEF CaptureRight, Explained, Untried, Fresh, Divided, StatusKept, Fail
  <2>12. QED
    BY <1>1, <1>2, <2>8, <2>9, <2>10, <2>11, FailureExplained DEF Fail
<1>8. CASE ProviderAnswers
  <2>1. /\ Adds(capture', "success", None, NoStatus)
        /\ capture'.initial_provider = capture.initial_provider
        /\ capture'.selected_provider = Head(queue)
    BY <1>1, <1>8 DEF ProviderAnswers, LogProvider, Captures, Adds, Outcomes
  <2>2. /\ LastStatus(capture') = LastStatus(capture)
        /\ Divides(capture'.provider_attempts, candidates, Tail(queue))
        /\ capture'.provider_attempts # << >>
        /\ Len(capture'.provider_attempts) <= Len(candidates)
        /\ capture'.provider_attempts[Len(capture'.provider_attempts)].outcome
              = "success"
        /\ capture'.provider_attempts[1].who = candidates[1]
    BY <1>1, <2>1, ProviderLogged
  <2>3. capture'.initial_provider = candidates[1] /\ Head(queue) # None
    BY <1>1, <1>8, <2>1, AtCandidate, DiagnosticsAssumption
  <2>4. Explains(capture', candidates, Head(queue))
    BY <2>1, <2>2, <2>3 DEF Explains, Divides
  <2>5. /\ UNCHANGED <<candidates, observed, last_error>>
        /\ answered_by' = Head(queue) /\ pc' = "gateway"
    BY <1>8 DEF ProviderAnswers
  <2>6. CaptureRight'
    BY <1>1, <1>3, <2>2, <2>4, <2>5
       DEF CaptureRight, Explained, Untried, Fresh, Divided, StatusKept
  <2>7. QED  BY <2>5, <2>6, GoesOn
<1>9. QED  BY <1>4, <1>5, <1>6, <1>7, <1>8


-----------------------------------------------------------------------------
(* The invariant, and what it says of the response.                        *)

LEMMA ReportInit == Init => ReportInv
<1> SUFFICES ASSUME Init PROVE ReportInv
  OBVIOUS
<1>1. TypeOK /\ Asking
  BY TypeInit
<1>2. pc = "new" /\ capture = NewCapture
      /\ candidates = << >> /\ answered_by = None
      /\ last_error = None /\ observed = NoStatus
  BY DEF Init
<1>3. /\ NewCapture.router_attempts = << >>
      /\ NewCapture.provider_attempts = << >>
      /\ NewCapture.selected_provider = None
  BY DEF NewCapture
<1>4. LastStatus(NewCapture) = NoStatus
  <2>1. Attempts(NewCapture) = << >>
    BY <1>3 DEF Attempts
  <2>2. WithStatus(Attempts(NewCapture)) = {}
    BY <2>1 DEF WithStatus
  <2>3. QED  BY <2>2, LastStatusIs
<1>5. Explained /\ Untried /\ Fresh /\ Divided
  BY <1>2, <1>3 DEF Explained, Explains, Untried, Fresh, Divided
<1>6. StatusKept
  BY <1>2, <1>4, SameStatus DEF StatusKept
<1>7. UpstreamStatusLast /\ EndExplained
  BY <1>2 DEF UpstreamStatusLast, EndExplained, Reported
<1>8. QED  BY <1>1, <1>5, <1>6, <1>7 DEF ReportInv, CaptureRight

LEMMA ReportStep ==
    ASSUME ReportInv, [Next]_vars
    PROVE  ReportInv'
<1>1. TypeOK' /\ Asking'
  BY TypeStep DEF ReportInv
<1>2. CASE Next
  <2>1. Right
    BY <1>2, QuietSteps, ExhaustedStep, RouterSteps, ProviderSteps DEF Next
  <2>2. QED  BY <1>1, <2>1 DEF ReportInv, Right
<1>3. CASE UNCHANGED vars
  <2> USE <1>3 DEF vars, handled, pathVars, historyVars
  <2>1. Explained' /\ Untried' /\ Fresh' /\ Divided'
    BY DEF ReportInv, CaptureRight, Explained, Explains, Untried, Fresh,
           Divided, Divides
  <2>2. StatusKept'
    BY SameStatus DEF ReportInv, CaptureRight, StatusKept
  <2>3. UpstreamStatusLast' /\ EndExplained'
    BY DEF ReportInv, UpstreamStatusLast, EndExplained, Reported
  <2>4. QED  BY <1>1, <2>1, <2>2, <2>3 DEF ReportInv, CaptureRight
<1>4. QED  BY <1>2, <1>3

LEMMA ReportAlways == Spec => []ReportInv
<1>1. ReportInv /\ [Next]_vars => ReportInv'
  BY ReportStep
<1>2. QED  BY <1>1, ReportInit, PTL DEF Spec

\* Every response with diagnostics shows the last HTTP error that any
\* upstream sent, routers and candidates of all rounds together.
THEOREM StatusShown == Spec => []UpstreamStatusLast
<1>1. ReportInv => UpstreamStatusLast
  BY DEF ReportInv
<1>2. QED  BY <1>1, ReportAlways, PTL

\* However a request ended, its diagnostics explain it: the path shown is
\* the list of candidates as far as it went, the final provider is the one
\* that answered, and only a completed request has no failure.
THEOREM EndsExplained == Spec => []EndExplained
<1>1. ReportInv => EndExplained
  BY DEF ReportInv
<1>2. QED  BY <1>1, ReportAlways, PTL

=============================================================================
