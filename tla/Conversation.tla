---------------------------- MODULE Conversation ----------------------------
(***************************************************************************)
(* One conversation: its record in ConversationStateManager                *)
(* (state/manager.py) and what RoutingEngine._handle, _prepare_retry and   *)
(* _route (routing/engine.py) do with it.                                  *)
(*                                                                         *)
(* A request loads a private copy of the record, works on the copy across  *)
(* the awaits of its router and provider calls, and each write stores the  *)
(* whole copy.  Nothing orders the requests of one conversation: a step    *)
(* here is the code a request runs from one await to the next, and the     *)
(* steps of several requests interleave.  The awaits of one routing round  *)
(* are one, as no step between them reads or writes the conversation.      *)
(*                                                                         *)
(* Timestamps and texts are left out: a message is the request that sent   *)
(* it, an answer the request and the provider that gave it.                *)
(***************************************************************************)
EXTENDS Integers, FiniteSets

CONSTANTS
    Requests,           \* the chat requests, each handled once
    Providers,          \* the enabled providers of the registry
    ImageProviders,     \* those that accept an image (multimodal)
    MaxAttempts,        \* settings.max_retries
    MaxInFlight,        \* how many requests the clients overlap
    NoConversation,     \* no record under the conversation's key
    NoProvider,         \* last_provider is None
    NoAnswer,           \* previous_response is None
    NoMessage           \* no message has been sent yet

ASSUME ConversationAssumption ==
    /\ IsFiniteSet(Requests)
    /\ IsFiniteSet(Providers)
    /\ ImageProviders \subseteq Providers
    /\ MaxAttempts \in Nat
    /\ MaxInFlight \in Nat \ {0}
    /\ NoProvider \notin Providers
    /\ NoMessage \notin Requests

Answers == [by : Requests, from : Providers]

ConversationState ==
    [original_query : Requests,
     attempt_count : 0..MaxAttempts,
     excluded_providers : SUBSET Providers,
     last_provider : Providers \cup {NoProvider},
     previous_response : Answers \cup {NoAnswer},
     has_image : BOOLEAN]

ASSUME SentinelAssumption ==
    /\ NoConversation \notin ConversationState
    /\ NoAnswer \notin Answers

VARIABLES
    store,      \* the record kept by the ConversationStateManager
    copy,       \* the private copy of each request
    phase,      \* "new", "routing" or "done", for each request
    retry,      \* request.retry, once the request has arrived
    image,      \* request.image is not None, likewise
    result,     \* the outcome of each request that is done
    prior,      \* history: store.last_provider when each request started
    latest,     \* history: the latest message that was not a retry
    rounds      \* history: how often the routers were asked, per turn;
                \* it alternates above MaxAttempts, so that a loop without
                \* an end would be a cycle of states

vars == <<store, copy, phase, retry, image, result, prior, latest,
          rounds>>

Outcomes == {"ANSWER", "CLARIFY", "STOP", "CONVERSATION_NOT_FOUND",
             "IMAGE_REQUIRED", "ERROR"}

TypeOK ==
    /\ store \in ConversationState \cup {NoConversation}
    /\ copy \in [Requests -> ConversationState \cup {NoConversation}]
    /\ phase \in [Requests -> {"new", "routing", "done"}]
    /\ retry \in [Requests -> BOOLEAN]
    /\ image \in [Requests -> BOOLEAN]
    /\ result \in [Requests -> Outcomes \cup {"none"}]
    /\ prior \in [Requests -> Providers \cup {NoProvider}]
    /\ latest \in Requests \cup {NoMessage}
    /\ rounds \in [Requests -> 0..(MaxAttempts + 1)]

Init ==
    /\ store = NoConversation
    /\ copy = [r \in Requests |-> NoConversation]
    /\ phase = [r \in Requests |-> "new"]
    /\ retry = [r \in Requests |-> FALSE]
    /\ image = [r \in Requests |-> FALSE]
    /\ result = [r \in Requests |-> "none"]
    /\ prior = [r \in Requests |-> NoProvider]
    /\ latest = NoMessage
    /\ rounds = [r \in Requests |-> 0]

-----------------------------------------------------------------------------

\* The record that create() makes for a first message.
Create(r) == [original_query |-> r, attempt_count |-> 0,
              excluded_providers |-> {}, last_provider |-> NoProvider,
              previous_response |-> NoAnswer, has_image |-> FALSE]

\* Mutants of NewTurn: the query, or the retry state, is not reset.
NewTurnKeepsQuery(s, r, with_image) ==
    [s EXCEPT !.attempt_count = 0, !.excluded_providers = {},
              !.last_provider = NoProvider, !.has_image = with_image]

NewTurnKeepsBudget(s, r, with_image) ==
    [s EXCEPT !.original_query = r, !.excluded_providers = {},
              !.last_provider = NoProvider, !.has_image = with_image]

\* A message that is not a retry starts a turn: everything is reset but the
\* previous answer, which stays as context.
NewTurn(s, r, with_image) ==
    [s EXCEPT !.original_query = r, !.attempt_count = 0,
              !.excluded_providers = {}, !.last_provider = NoProvider,
              !.has_image = with_image]

\* Mutant of RetryGuardFired: one attempt too late.
RetryGuardLate(s) ==
    \/ s.attempt_count > MaxAttempts
    \/ Providers \subseteq s.excluded_providers

\* _retry_guard_fired: the budget is spent, or no provider is left.
RetryGuardFired(s) ==
    \/ s.attempt_count >= MaxAttempts
    \/ Providers \subseteq s.excluded_providers

\* Mutants of Charge: one of its two parts is missing.
ChargeAttemptOnly(s) == [s EXCEPT !.attempt_count = @ + 1]

ChargeProviderOnly(s) ==
    [s EXCEPT !.excluded_providers = @ \cup ({s.last_provider} \ {NoProvider})]

\* exclude_provider and increment_attempt, on a copy that passed the guard.
Charge(s) ==
    [s EXCEPT !.excluded_providers =
                  IF s.last_provider = NoProvider THEN @
                  ELSE @ \cup {s.last_provider},
              !.attempt_count = @ + 1]

\* _candidates_for, whatever task group the router names.
Candidates(s, with_image) ==
    (IF with_image THEN ImageProviders ELSE Providers) \ s.excluded_providers

InFlight == {r \in Requests : phase[r] = "routing"}

Finish(r, outcome) ==
    /\ phase' = [phase EXCEPT ![r] = "done"]
    /\ result' = [result EXCEPT ![r] = outcome]

\* The head of _route's loop with the copy s: stop, or ask the routers.
Route(r, s) ==
    /\ copy' = [copy EXCEPT ![r] = s]
    /\ IF RetryGuardFired(s)
       THEN Finish(r, "STOP") /\ UNCHANGED rounds
       ELSE /\ phase' = [phase EXCEPT ![r] = "routing"]
            /\ rounds' = [rounds EXCEPT ![s.original_query] =
                             IF @ <= MaxAttempts THEN @ + 1 ELSE MaxAttempts]
            /\ UNCHANGED result

\* _prepare_retry with the copy s, and the round of routing it allows.  A
\* copy that meets the guard at once is not written back.
PrepareRetry(r, s) ==
    IF RetryGuardFired(s)
    THEN /\ copy' = [copy EXCEPT ![r] = s]
         /\ Finish(r, "STOP")
         /\ UNCHANGED <<store, rounds>>
    ELSE /\ store' = Charge(s)
         /\ Route(r, Charge(s))

\* A request arrives.
Arrive(r, is_retry, with_image) ==
    /\ phase[r] = "new"
    /\ Cardinality(InFlight) < MaxInFlight
    /\ retry' = [retry EXCEPT ![r] = is_retry]
    /\ image' = [image EXCEPT ![r] = with_image]

\* retry: false.
HandleMessage(r, with_image) ==
    /\ Arrive(r, FALSE, with_image)
    /\ LET s == NewTurn(IF store = NoConversation THEN Create(r) ELSE store,
                        r, with_image)
       IN  /\ store' = s
           /\ Route(r, s)
    /\ latest' = r
    /\ UNCHANGED prior

\* retry: true, of a conversation that is not there.
HandleRetryUnknown(r, with_image) ==
    /\ Arrive(r, TRUE, with_image)
    /\ store = NoConversation
    /\ Finish(r, "CONVERSATION_NOT_FOUND")
    /\ UNCHANGED <<store, copy, prior, latest, rounds>>

\* retry: true, without the image that the turn needs.
HandleRetryImageless(r, with_image) ==
    /\ Arrive(r, TRUE, with_image)
    /\ store # NoConversation
    /\ store.has_image /\ ~with_image
    /\ copy' = [copy EXCEPT ![r] = store]
    /\ Finish(r, "IMAGE_REQUIRED")
    /\ UNCHANGED <<store, prior, latest, rounds>>

\* Mutant of HandleRetry: the image of the turn is not asked for.
HandleRetryUnchecked(r, with_image) ==
    /\ Arrive(r, TRUE, with_image)
    /\ store # NoConversation
    /\ PrepareRetry(r, [store EXCEPT !.has_image = with_image])
    /\ prior' = [prior EXCEPT ![r] = store.last_provider]
    /\ UNCHANGED latest

\* retry: true.
HandleRetry(r, with_image) ==
    /\ Arrive(r, TRUE, with_image)
    /\ store # NoConversation
    /\ store.has_image => with_image
    /\ PrepareRetry(r, [store EXCEPT !.has_image = with_image])
    /\ prior' = [prior EXCEPT ![r] = store.last_provider]
    /\ UNCHANGED latest

\* The router decides RETRY, which the validator lets pass on a retry only.
RouterRetries(r) ==
    /\ phase[r] = "routing"
    /\ retry[r]
    /\ PrepareRetry(r, copy[r])
    /\ UNCHANGED <<retry, image, prior, latest>>

\* Mutant of ProviderAnswers: the answer itself is not kept.
ProviderAnswersForgets(r) ==
    /\ phase[r] = "routing"
    /\ \E p \in Candidates(copy[r], image[r]) :
          LET s == [copy[r] EXCEPT !.last_provider = p]
          IN  /\ copy' = [copy EXCEPT ![r] = s]
              /\ store' = s
    /\ Finish(r, "ANSWER")
    /\ UNCHANGED <<retry, image, prior, latest, rounds>>

\* A candidate of the group the router named answers.
ProviderAnswers(r) ==
    /\ phase[r] = "routing"
    /\ \E p \in Candidates(copy[r], image[r]) :
          LET s == [copy[r] EXCEPT !.previous_response = [by |-> r, from |-> p],
                                   !.last_provider = p]
          IN  /\ copy' = [copy EXCEPT ![r] = s]
              /\ store' = s
    /\ Finish(r, "ANSWER")
    /\ UNCHANGED <<retry, image, prior, latest, rounds>>

\* CLARIFY or STOP from the router, or an error: no eligible provider, both
\* routers or all candidates failed, the gateway failed, or the deadline.
EndsUnanswered(r) ==
    /\ phase[r] = "routing"
    /\ \E outcome \in {"CLARIFY", "STOP", "ERROR"} : Finish(r, outcome)
    /\ UNCHANGED <<store, copy, retry, image, prior, latest, rounds>>

Handle(r) ==
    \E with_image \in BOOLEAN :
        \/ HandleMessage(r, with_image)
        \/ HandleRetryUnknown(r, with_image)
        \/ HandleRetryImageless(r, with_image)
        \/ HandleRetry(r, with_image)

Continue(r) ==
    \/ RouterRetries(r)
    \/ ProviderAnswers(r)
    \/ EndsUnanswered(r)

Next == \E r \in Requests : Handle(r) \/ Continue(r)

Spec == Init /\ [][Next]_vars

\* Every round of routing ends: its calls have timeouts.  Nothing is assumed
\* of how it ends: the routers may decide RETRY whenever they can.
FairSpec == Spec /\ \A r \in Requests : WF_vars(Continue(r))

-----------------------------------------------------------------------------
(* Properties that hold however the requests overlap                       *)

\* No write mixes two requests: whenever a last provider is kept, the
\* previous answer is that provider's.
LastAnswerTogether ==
    store # NoConversation /\ store.last_provider # NoProvider =>
        /\ store.previous_response # NoAnswer
        /\ store.previous_response.from = store.last_provider

\* A retry is never answered by the provider whose answer it retries,
\* whatever the overlapping requests wrote meanwhile and however many RETRY
\* decisions it went through.
RetryElsewhere ==
    \A r \in Requests :
        result[r] = "ANSWER" => copy[r].last_provider # prior[r]

\* "A `retry: true` request excludes the preceding successful provider and
\* increments the turn's attempt count" (API_Contracts): within a turn, what
\* is charged stays charged.  It does not hold of overlapping requests, as
\* each writes back a copy of its own (README.md, section 4).
ChargesStay ==
    [][store # NoConversation /\ store'.original_query = store.original_query
       => /\ store'.attempt_count >= store.attempt_count
          /\ store.excluded_providers \subseteq store'.excluded_providers]_vars

\* Every request ends, although the loop of _route has no bound of its own:
\* each RETRY decision spends from a budget that the private copy carries.
EveryRequestEnds ==
    \A r \in Requests : phase[r] = "routing" ~> phase[r] = "done"

-----------------------------------------------------------------------------
(* Properties of a conversation whose requests do not overlap              *)

\* "Reaching MAX_RETRIES stops before another router call" (API_Contracts):
\* the routers are asked at most MaxAttempts times for one turn.
BudgetHolds == \A m \in Requests : rounds[m] <= MaxAttempts

\* "new messages reset retry state and update original_query" (README): the
\* record belongs to the turn of the latest message, and stays there.
QueryCurrent == store # NoConversation => store.original_query = latest

\* Once a turn had an image, no retry of it is routed without one.
ImageKept ==
    [][\A r, q \in Requests :
          /\ phase[r] = "new" /\ phase'[r] = "routing"
          /\ retry'[r] /\ ~image'[r]
          /\ phase[q] = "done" /\ image[q] /\ copy[q] # NoConversation
          => copy[q].original_query # copy'[r].original_query]_vars

\* MAX_RETRIES bounds "explicit conversation retries" (README): it stops no
\* message that is not a retry before the routers are asked.  It does not
\* hold for MaxAttempts = 0 (README.md, section 4).
MessageReachesRouter ==
    \A r \in Requests : ~retry[r] /\ phase[r] # "new" => rounds[r] > 0

\* The retry guard stops a request that has no provider left to go to.  It
\* does not hold for images: the guard counts the providers that take none
\* (README.md, section 4).
GuardSeesModality ==
    \A r \in Requests :
        phase[r] = "routing" => Candidates(copy[r], image[r]) # {}

\* The record implements the promise of TurnBudget.
Promise == INSTANCE TurnBudget WITH
    Messages <- Requests,
    turn  <- IF store = NoConversation THEN NoMessage
             ELSE store.original_query,
    begun <- {r \in Requests : ~retry[r] /\ phase[r] # "new"},
    spent <- IF store = NoConversation THEN 0 ELSE store.attempt_count,
    tried <- IF store = NoConversation THEN {}
             ELSE store.excluded_providers \cup
                      ({store.last_provider} \ {NoProvider})

KeepsPromise == Promise!Spec

=============================================================================
