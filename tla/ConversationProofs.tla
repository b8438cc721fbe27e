------------------------- MODULE ConversationProofs -------------------------
(***************************************************************************)
(* Proofs about Conversation, for any requests, providers and retry        *)
(* budget: first what holds however the requests overlap, then what holds  *)
(* when they do not (MaxInFlight = 1), up to the promise of TurnBudget.    *)
(***************************************************************************)
EXTENDS Conversation, FiniteSetTheorems, TLAPS

-----------------------------------------------------------------------------
(* The operations on a record.                                             *)

\* Whether a record keeps a last provider together with its answer.
Together(s) ==
    s.last_provider # NoProvider =>
        /\ s.previous_response # NoAnswer
        /\ s.previous_response.from = s.last_provider

\* The record of a retry that arrives: the stored one, but for the image.
WithImage(s, with_image) == [s EXCEPT !.has_image = with_image]

\* The record of a request that a provider answered.
Answered(s, r, p) ==
    [s EXCEPT !.previous_response = [by |-> r, from |-> p],
              !.last_provider = p]

\* A first message makes a record, of its own turn.
LEMMA CreateRecord ==
    ASSUME NEW r \in Requests
    PROVE  Create(r) \in ConversationState
BY ConversationAssumption DEF Create, ConversationState

\* A new turn keeps nothing of the record but the previous answer.
LEMMA NewTurnRecord ==
    ASSUME NEW s \in ConversationState, NEW r \in Requests,
           NEW with_image \in BOOLEAN
    PROVE  LET t == NewTurn(s, r, with_image)
           IN  /\ t \in ConversationState
               /\ t.original_query = r
               /\ t.attempt_count = 0
               /\ t.excluded_providers = {}
               /\ t.last_provider = NoProvider
               /\ t.has_image = with_image
<1>1. 0 \in 0..MaxAttempts
  BY ConversationAssumption
<1>2. NewTurn(s, r, with_image) \in ConversationState
  BY <1>1, ZenonT(30) DEF NewTurn, ConversationState
<1>3. QED  BY <1>2 DEF NewTurn, ConversationState

\* A charge spends one attempt, excludes the last provider and leaves the
\* rest of the record alone.
LEMMA ChargeRecord ==
    ASSUME NEW s \in ConversationState, ~RetryGuardFired(s)
    PROVE  /\ Charge(s) \in ConversationState
           /\ Charge(s).original_query = s.original_query
           /\ s.attempt_count < MaxAttempts
           /\ Charge(s).attempt_count = s.attempt_count + 1
           /\ Charge(s).excluded_providers =
                 s.excluded_providers \cup ({s.last_provider} \ {NoProvider})
           /\ Charge(s).last_provider = s.last_provider
           /\ Charge(s).previous_response = s.previous_response
           /\ Charge(s).has_image = s.has_image
<1>1. s.attempt_count < MaxAttempts
  BY ConversationAssumption DEF RetryGuardFired, ConversationState
<1>2. s.attempt_count + 1 \in 0..MaxAttempts
  BY <1>1, ConversationAssumption DEF ConversationState
<1>3. s.excluded_providers \cup {s.last_provider} \in SUBSET Providers
         \/ s.last_provider = NoProvider
  BY DEF ConversationState
<1>4. Charge(s) \in ConversationState
  BY <1>2, <1>3, ZenonT(30) DEF Charge, ConversationState
<1>5. QED  BY <1>1, <1>4 DEF Charge, ConversationState

\* A retry that arrives changes nothing of the record but the image.
LEMMA RetryRecord ==
    ASSUME NEW s \in ConversationState, NEW with_image \in BOOLEAN
    PROVE  /\ WithImage(s, with_image) \in ConversationState
           /\ WithImage(s, with_image).original_query = s.original_query
           /\ WithImage(s, with_image).attempt_count = s.attempt_count
           /\ WithImage(s, with_image).excluded_providers =
                 s.excluded_providers
           /\ WithImage(s, with_image).last_provider = s.last_provider
           /\ WithImage(s, with_image).previous_response =
                 s.previous_response
           /\ WithImage(s, with_image).has_image = with_image
           /\ RetryGuardFired(WithImage(s, with_image)) = RetryGuardFired(s)
BY DEF WithImage, ConversationState, RetryGuardFired

\* An answer is kept together with its provider, and spends nothing.
LEMMA AnswerRecord ==
    ASSUME NEW s \in ConversationState, NEW r \in Requests,
           NEW p \in Providers
    PROVE  /\ Answered(s, r, p) \in ConversationState
           /\ Answered(s, r, p).original_query = s.original_query
           /\ Answered(s, r, p).attempt_count = s.attempt_count
           /\ Answered(s, r, p).excluded_providers = s.excluded_providers
           /\ Answered(s, r, p).last_provider = p
           /\ Answered(s, r, p).has_image = s.has_image
           /\ RetryGuardFired(Answered(s, r, p)) = RetryGuardFired(s)
           /\ Together(Answered(s, r, p))
<1>1. [by |-> r, from |-> p] \in Answers
  BY DEF Answers
<1>2. QED
  BY <1>1, SentinelAssumption
     DEF Answered, Together, ConversationState, RetryGuardFired

-----------------------------------------------------------------------------
(* Type correctness.                                                       *)

\* A request that is routed has a copy, and the copy has budget left.
Underway ==
    \A r \in Requests :
        phase[r] = "routing" =>
            /\ copy[r] # NoConversation
            /\ ~RetryGuardFired(copy[r])

\* The head of the loop keeps the types, and routes no spent copy.
LEMMA RouteType ==
    ASSUME TypeOK, Underway, NEW r \in Requests,
           NEW s \in ConversationState, Route(r, s)
    PROVE  /\ copy' \in [Requests -> ConversationState \cup {NoConversation}]
           /\ phase' \in [Requests -> {"new", "routing", "done"}]
           /\ result' \in [Requests -> Outcomes \cup {"none"}]
           /\ rounds' \in [Requests -> 0..(MaxAttempts + 1)]
           /\ Underway'
<1>1. copy' = [copy EXCEPT ![r] = s]
  BY DEF Route
<1>2. copy' \in [Requests -> ConversationState \cup {NoConversation}]
  BY <1>1 DEF TypeOK
<1>3. CASE RetryGuardFired(s)
  <2>1. /\ phase' = [phase EXCEPT ![r] = "done"]
        /\ result' = [result EXCEPT ![r] = "STOP"]
        /\ rounds' = rounds
    BY <1>3 DEF Route, Finish
  <2>2. Underway'
    BY <1>1, <2>1 DEF Underway, TypeOK, RetryGuardFired
  <2>3. QED  BY <1>2, <2>1, <2>2 DEF TypeOK, Outcomes
<1>4. CASE ~RetryGuardFired(s)
  <2>1. /\ phase' = [phase EXCEPT ![r] = "routing"]
        /\ result' = result
        /\ rounds' = [rounds EXCEPT ![s.original_query] =
                         IF @ <= MaxAttempts THEN @ + 1 ELSE MaxAttempts]
    BY <1>4 DEF Route
  <2>2. Underway'
    BY <1>1, <1>4, <2>1, SentinelAssumption
       DEF Underway, TypeOK, RetryGuardFired
  <2>3. rounds' \in [Requests -> 0..(MaxAttempts + 1)]
    BY <2>1, ConversationAssumption DEF TypeOK, ConversationState
  <2>4. QED  BY <1>2, <2>1, <2>2, <2>3 DEF TypeOK
<1>5. QED  BY <1>3, <1>4

\* So does _prepare_retry, and what it writes is a record.
LEMMA PrepareRetryType ==
    ASSUME TypeOK, Underway, NEW r \in Requests,
           NEW s \in ConversationState, PrepareRetry(r, s)
    PROVE  /\ store' \in ConversationState \cup {NoConversation}
           /\ copy' \in [Requests -> ConversationState \cup {NoConversation}]
           /\ phase' \in [Requests -> {"new", "routing", "done"}]
           /\ result' \in [Requests -> Outcomes \cup {"none"}]
           /\ rounds' \in [Requests -> 0..(MaxAttempts + 1)]
           /\ Underway'
<1>1. CASE RetryGuardFired(s)
  <2>1. /\ copy' = [copy EXCEPT ![r] = s]
        /\ phase' = [phase EXCEPT ![r] = "done"]
        /\ result' = [result EXCEPT ![r] = "STOP"]
        /\ store' = store
        /\ rounds' = rounds
    BY <1>1 DEF PrepareRetry, Finish
  <2>2. Underway'
    BY <2>1 DEF Underway, TypeOK, RetryGuardFired
  <2>3. QED  BY <2>1, <2>2 DEF TypeOK, Outcomes
<1>2. CASE ~RetryGuardFired(s)
  <2>1. store' = Charge(s) /\ Route(r, Charge(s))
    BY <1>2 DEF PrepareRetry
  <2>2. Charge(s) \in ConversationState
    BY <1>2, ChargeRecord
  <2>3. QED  BY <2>1, <2>2, RouteType
<1>3. QED  BY <1>1, <1>2

\* The state before the first request.
LEMMA InitType == Init => TypeOK /\ Underway
BY ConversationAssumption DEF Init, TypeOK, Underway

\* Every step of a request keeps the types, and routes no spent copy.
LEMMA StepType ==
    TypeOK /\ Underway /\ [Next]_vars => TypeOK' /\ Underway'
<1> SUFFICES ASSUME TypeOK, Underway, [Next]_vars
             PROVE  TypeOK' /\ Underway'
  OBVIOUS
<1>a. ASSUME NEW r \in Requests, NEW is_retry \in BOOLEAN,
             NEW with_image \in BOOLEAN, Arrive(r, is_retry, with_image)
      PROVE  /\ retry' \in [Requests -> BOOLEAN]
             /\ image' \in [Requests -> BOOLEAN]
  BY <1>a DEF Arrive, TypeOK
<1>1. ASSUME NEW r \in Requests, NEW with_image \in BOOLEAN,
             HandleMessage(r, with_image)
      PROVE  TypeOK' /\ Underway'
  <2>1. PICK old \in ConversationState :
           /\ store' = NewTurn(old, r, with_image)
           /\ Route(r, NewTurn(old, r, with_image))
    BY <1>1, CreateRecord DEF HandleMessage, TypeOK
  <2>2. store' \in ConversationState
    BY <2>1, NewTurnRecord
  <2>3. QED  BY <1>1, <1>a, <2>1, <2>2, RouteType DEF HandleMessage, TypeOK
<1>2. ASSUME NEW r \in Requests, NEW with_image \in BOOLEAN,
             HandleRetryUnknown(r, with_image)
      PROVE  TypeOK' /\ Underway'
  BY <1>2, <1>a DEF HandleRetryUnknown, Finish, TypeOK, Outcomes, Underway,
                    RetryGuardFired
<1>3. ASSUME NEW r \in Requests, NEW with_image \in BOOLEAN,
             HandleRetryImageless(r, with_image)
      PROVE  TypeOK' /\ Underway'
  BY <1>3, <1>a DEF HandleRetryImageless, Finish, TypeOK, Outcomes, Underway,
                    RetryGuardFired
<1>4. ASSUME NEW r \in Requests, NEW with_image \in BOOLEAN,
             HandleRetry(r, with_image)
      PROVE  TypeOK' /\ Underway'
  <2>1. store \in ConversationState
    BY <1>4 DEF HandleRetry, TypeOK
  <2>2. prior' \in [Requests -> Providers \cup {NoProvider}]
    BY <1>4, <2>1 DEF HandleRetry, TypeOK, ConversationState
  <2>3. /\ Arrive(r, TRUE, with_image)
        /\ PrepareRetry(r, WithImage(store, with_image))
        /\ latest' = latest
    BY <1>4 DEF HandleRetry, WithImage
  <2>4. /\ retry' \in [Requests -> BOOLEAN]
        /\ image' \in [Requests -> BOOLEAN]
    BY <1>a, <2>3
  <2>5. PICK s \in ConversationState : PrepareRetry(r, s)
    BY <2>1, <2>3, RetryRecord
  <2>6. QED  BY <2>2, <2>3, <2>4, <2>5, PrepareRetryType DEF TypeOK
<1>5. ASSUME NEW r \in Requests, RouterRetries(r) PROVE TypeOK' /\ Underway'
  <2>1. copy[r] \in ConversationState
    BY <1>5 DEF RouterRetries, TypeOK, Underway
  <2>2. QED  BY <1>5, <2>1, PrepareRetryType DEF RouterRetries, TypeOK
<1>6. ASSUME NEW r \in Requests, ProviderAnswers(r)
      PROVE  TypeOK' /\ Underway'
  <2>1. copy[r] \in ConversationState
    BY <1>6 DEF ProviderAnswers, TypeOK, Underway
  <2>2. PICK s \in ConversationState :
           store' = s /\ copy' = [copy EXCEPT ![r] = s]
    <3>1. PICK p \in Providers :
             LET s == Answered(copy[r], r, p)
             IN  store' = s /\ copy' = [copy EXCEPT ![r] = s]
      BY <1>6, ConversationAssumption
         DEF ProviderAnswers, Candidates, Answered
    <3>2. QED  BY <2>1, <3>1, AnswerRecord
  <2>3. /\ phase' = [phase EXCEPT ![r] = "done"]
        /\ result' = [result EXCEPT ![r] = "ANSWER"]
        /\ UNCHANGED <<retry, image, prior, latest, rounds>>
    BY <1>6 DEF ProviderAnswers, Finish
  <2>4. Underway'
    BY <2>2, <2>3 DEF Underway, TypeOK, RetryGuardFired
  <2>5. QED  BY <2>2, <2>3, <2>4 DEF TypeOK, Outcomes
<1>7. ASSUME NEW r \in Requests, EndsUnanswered(r) PROVE TypeOK' /\ Underway'
  BY <1>7 DEF EndsUnanswered, Finish, TypeOK, Outcomes, Underway,
              RetryGuardFired
<1>8. CASE UNCHANGED vars
  BY <1>8 DEF vars, TypeOK, Underway, RetryGuardFired
<1>9. QED
  BY <1>1, <1>2, <1>3, <1>4, <1>5, <1>6, <1>7, <1>8
     DEF Next, Handle, Continue

\* The record, the copies and the outcomes have their types; in particular
\* no copy ever spends more than MaxAttempts.
THEOREM TypeCorrect == Spec => []TypeOK
<1>1. QED  BY InitType, StepType, PTL DEF Spec

-----------------------------------------------------------------------------
(* However the requests overlap.                                           *)

\* A step that finishes a request, or routes it on, with the copy s.
Settles(r, s) ==
    /\ copy' = [copy EXCEPT ![r] = s]
    /\ \/ /\ phase' = [phase EXCEPT ![r] = "done"]
          /\ result' = [result EXCEPT ![r] = "STOP"]
          /\ rounds' = rounds
       \/ /\ ~RetryGuardFired(s)
          /\ phase' = [phase EXCEPT ![r] = "routing"]
          /\ result' = result
          /\ rounds' = [rounds EXCEPT ![s.original_query] =
                           IF @ <= MaxAttempts THEN @ + 1 ELSE MaxAttempts]

\* The outcomes of _route's loop head.
LEMMA RouteSettles ==
    ASSUME NEW r \in Requests, NEW s \in ConversationState, Route(r, s)
    PROVE  Settles(r, s)
BY DEF Route, Finish, Settles

\* The outcomes of _prepare_retry: a stop that writes nothing, or a charge.
LEMMA PrepareRetryCases ==
    ASSUME NEW r \in Requests, NEW s \in ConversationState,
           PrepareRetry(r, s)
    PROVE  \/ /\ RetryGuardFired(s)
              /\ store' = store
              /\ copy' = [copy EXCEPT ![r] = s]
              /\ phase' = [phase EXCEPT ![r] = "done"]
              /\ result' = [result EXCEPT ![r] = "STOP"]
              /\ rounds' = rounds
           \/ /\ ~RetryGuardFired(s)
              /\ store' = Charge(s)
              /\ Settles(r, Charge(s))
<1>1. CASE RetryGuardFired(s)
  BY <1>1 DEF PrepareRetry, Finish
<1>2. CASE ~RetryGuardFired(s)
  BY <1>2, RouteSettles, ChargeRecord DEF PrepareRetry
<1>3. QED  BY <1>1, <1>2

\* The stored record and every copy keep provider and answer together.
AllTogether ==
    /\ store # NoConversation => Together(store)
    /\ \A r \in Requests :
          copy[r] # NoConversation => Together(copy[r])

\* No write separates a provider from its answer: each copies a record that
\* had them together, resets the provider, or sets both.
LEMMA StepTogether ==
    TypeOK /\ Underway /\ AllTogether /\ [Next]_vars => AllTogether'
<1> SUFFICES ASSUME TypeOK, Underway, AllTogether, [Next]_vars
             PROVE  AllTogether'
  OBVIOUS
<1>w. ASSUME NEW r \in Requests, NEW s \in ConversationState, Together(s),
             copy' = [copy EXCEPT ![r] = s], store' \in {store, s}
      PROVE  AllTogether'
  <2>1. \A q \in Requests : copy'[q] = IF q = r THEN s ELSE copy[q]
    BY <1>w DEF TypeOK
  <2>2. QED  BY <1>w, <2>1 DEF AllTogether, Together
<1>p. ASSUME NEW r \in Requests, NEW s \in ConversationState, Together(s),
             PrepareRetry(r, s)
      PROVE  AllTogether'
  <2>1. CASE ~RetryGuardFired(s)
    <3>1. Charge(s) \in ConversationState /\ Together(Charge(s))
      BY <1>p, <2>1, ChargeRecord DEF Together
    <3>2. QED  BY <1>p, <1>w, <2>1, <3>1, PrepareRetryCases DEF Settles
  <2>2. CASE RetryGuardFired(s)
    BY <1>p, <1>w, <2>2, PrepareRetryCases
  <2>3. QED  BY <2>1, <2>2
<1>1. ASSUME NEW r \in Requests, NEW with_image \in BOOLEAN,
             HandleMessage(r, with_image)
      PROVE  AllTogether'
  <2>1. PICK old \in ConversationState :
           /\ store' = NewTurn(old, r, with_image)
           /\ Route(r, NewTurn(old, r, with_image))
    BY <1>1, CreateRecord DEF HandleMessage, TypeOK
  <2>2. /\ store' \in ConversationState
        /\ Together(store')
    BY <2>1, NewTurnRecord DEF Together
  <2>3. QED  BY <2>1, <2>2, <1>w DEF Route
<1>2. ASSUME NEW r \in Requests, NEW with_image \in BOOLEAN,
             HandleRetryUnknown(r, with_image)
      PROVE  AllTogether'
  BY <1>2 DEF HandleRetryUnknown, AllTogether, Together
<1>3. ASSUME NEW r \in Requests, NEW with_image \in BOOLEAN,
             HandleRetryImageless(r, with_image)
      PROVE  AllTogether'
  BY <1>3, <1>w DEF HandleRetryImageless, AllTogether, TypeOK
<1>4. ASSUME NEW r \in Requests, NEW with_image \in BOOLEAN,
             HandleRetry(r, with_image)
      PROVE  AllTogether'
  <2>1. store \in ConversationState /\ Together(store)
    BY <1>4 DEF HandleRetry, TypeOK, AllTogether
  <2>2. PrepareRetry(r, WithImage(store, with_image))
    BY <1>4 DEF HandleRetry, WithImage
  <2>3. QED  BY <2>1, <2>2, <1>p, RetryRecord DEF Together
<1>5. ASSUME NEW r \in Requests, RouterRetries(r) PROVE AllTogether'
  <2>1. copy[r] \in ConversationState /\ Together(copy[r])
    BY <1>5 DEF RouterRetries, TypeOK, Underway, AllTogether
  <2>2. QED  BY <1>5, <2>1, <1>p DEF RouterRetries
<1>6. ASSUME NEW r \in Requests, ProviderAnswers(r) PROVE AllTogether'
  <2>1. copy[r] \in ConversationState
    BY <1>6 DEF ProviderAnswers, TypeOK, Underway
  <2>2. PICK p \in Providers :
           LET s == Answered(copy[r], r, p)
           IN  store' = s /\ copy' = [copy EXCEPT ![r] = s]
    BY <1>6, ConversationAssumption DEF ProviderAnswers, Candidates, Answered
  <2>3. QED  BY <2>1, <2>2, <1>w, AnswerRecord
<1>7. CASE UNCHANGED <<store, copy>>
  BY <1>7 DEF AllTogether, Together
<1>8. QED
  BY <1>1, <1>2, <1>3, <1>4, <1>5, <1>6, <1>7
     DEF Next, Handle, Continue, EndsUnanswered, vars

\* Whenever the stored record has a last provider, its previous answer is
\* that provider's, whichever requests wrote the record.
THEOREM AnswersTogether == Spec => []LastAnswerTogether
<1>1. Init => AllTogether
  BY DEF Init, AllTogether
<1>2. AllTogether => LastAnswerTogether
  BY DEF AllTogether, Together, LastAnswerTogether
<1>3. QED  BY <1>1, <1>2, InitType, StepType, StepTogether, PTL DEF Spec

-----------------------------------------------------------------------------
(* A retry goes elsewhere, however the requests overlap.                   *)

\* What keeps a request from the provider it retries: until it is answered,
\* its copy excludes that provider.
ElsewhereAt(r) ==
    /\ phase[r] = "new" => prior[r] = NoProvider
    /\ phase[r] # "done" => result[r] = "none"
    /\ phase[r] = "routing" =>
          prior[r] \in copy[r].excluded_providers \cup {NoProvider}
    /\ result[r] = "ANSWER" => copy[r].last_provider # prior[r]

Elsewhere == \A r \in Requests : ElsewhereAt(r)

\* A step of r leaves what the other requests hold.
LEMMA ElsewhereOthers ==
    ASSUME TypeOK, Elsewhere, NEW r \in Requests, NEW q \in Requests, q # r,
           copy' = copy \/ \E s : copy' = [copy EXCEPT ![r] = s],
           \E s : phase' = [phase EXCEPT ![r] = s],
           result' = result \/ \E s : result' = [result EXCEPT ![r] = s],
           prior' = prior \/ \E s : prior' = [prior EXCEPT ![r] = s]
    PROVE  ElsewhereAt(q)'
<1>1. /\ copy'[q] = copy[q] /\ phase'[q] = phase[q]
      /\ result'[q] = result[q] /\ prior'[q] = prior[q]
  BY DEF TypeOK
<1>2. QED  BY <1>1 DEF Elsewhere, ElsewhereAt

\* A copy is charged with the provider it retries before it is routed, no
\* copy loses an exclusion, and an answer comes from outside them.
LEMMA StepElsewhere ==
    TypeOK /\ Underway /\ Elsewhere /\ [Next]_vars => Elsewhere'
<1> SUFFICES ASSUME TypeOK, Underway, Elsewhere, [Next]_vars
             PROVE  Elsewhere'
  OBVIOUS
<1>s. ASSUME NEW r \in Requests, NEW s \in ConversationState, Settles(r, s),
             phase[r] # "done",
             prior'[r] \in s.excluded_providers \cup {NoProvider},
             prior' = prior \/ \E p : prior' = [prior EXCEPT ![r] = p]
      PROVE  Elsewhere'
  <2>1. ASSUME NEW q \in Requests, q # r PROVE ElsewhereAt(q)'
    BY <1>s, <2>1, ElsewhereOthers DEF Settles
  <2>2. /\ copy'[r] = s
        /\ \/ phase'[r] = "done" /\ result'[r] = "STOP"
           \/ phase'[r] = "routing" /\ result'[r] = result[r]
    BY <1>s DEF Settles, TypeOK
  <2>3. ElsewhereAt(r)'
    BY <1>s, <2>2 DEF Elsewhere, ElsewhereAt
  <2>4. QED  BY <2>1, <2>3 DEF Elsewhere
<1>f. ASSUME NEW r \in Requests, NEW outcome \in Outcomes \ {"ANSWER"},
             Finish(r, outcome),
             copy' = copy \/ \E s : copy' = [copy EXCEPT ![r] = s],
             prior' = prior \/ \E p : prior' = [prior EXCEPT ![r] = p]
      PROVE  Elsewhere'
  <2>1. ASSUME NEW q \in Requests, q # r PROVE ElsewhereAt(q)'
    BY <1>f, <2>1, ElsewhereOthers DEF Finish
  <2>2. phase'[r] = "done" /\ result'[r] = outcome
    BY <1>f DEF Finish, TypeOK
  <2>3. ElsewhereAt(r)'
    BY <1>f, <2>2 DEF ElsewhereAt
  <2>4. QED  BY <2>1, <2>3 DEF Elsewhere
<1>p. ASSUME NEW r \in Requests, NEW s \in ConversationState,
             PrepareRetry(r, s), phase[r] # "done",
             \/ prior' = prior /\ phase[r] = "routing" /\ s = copy[r]
             \/ prior' = [prior EXCEPT ![r] = s.last_provider]
      PROVE  Elsewhere'
  <2>1. CASE RetryGuardFired(s)
    BY <1>p, <1>f, <2>1, PrepareRetryCases DEF Finish, Outcomes
  <2>2. CASE ~RetryGuardFired(s)
    <3>1. prior'[r] \in Charge(s).excluded_providers \cup {NoProvider}
      <4>1. CASE prior' = prior /\ phase[r] = "routing" /\ s = copy[r]
        BY <1>p, <2>2, <4>1, ChargeRecord DEF Elsewhere, ElsewhereAt
      <4>2. CASE prior' = [prior EXCEPT ![r] = s.last_provider]
        <5>1. prior'[r] = s.last_provider
          BY <4>2 DEF TypeOK
        <5>2. QED  BY <2>2, <5>1, ChargeRecord
      <4>3. QED  BY <1>p, <4>1, <4>2
    <3>2. Charge(s) \in ConversationState /\ Settles(r, Charge(s))
      BY <1>p, <2>2, ChargeRecord, PrepareRetryCases
    <3>3. QED  BY <1>p, <1>s, <3>1, <3>2
  <2>3. QED  BY <2>1, <2>2
<1>1. ASSUME NEW r \in Requests, NEW with_image \in BOOLEAN,
             HandleMessage(r, with_image)
      PROVE  Elsewhere'
  <2>1. PICK old \in ConversationState :
           Route(r, NewTurn(old, r, with_image))
    BY <1>1, CreateRecord DEF HandleMessage, TypeOK
  <2>2. /\ phase[r] = "new"
        /\ prior' = prior
    BY <1>1 DEF HandleMessage, Arrive
  <2>3. prior'[r] = NoProvider
    BY <2>2 DEF Elsewhere, ElsewhereAt
  <2>4. QED  BY <2>1, <2>2, <2>3, <1>s, NewTurnRecord, RouteSettles
<1>2. ASSUME NEW r \in Requests, NEW with_image \in BOOLEAN,
             HandleRetryUnknown(r, with_image)
      PROVE  Elsewhere'
  BY <1>2, <1>f DEF HandleRetryUnknown, Outcomes
<1>3. ASSUME NEW r \in Requests, NEW with_image \in BOOLEAN,
             HandleRetryImageless(r, with_image)
      PROVE  Elsewhere'
  BY <1>3, <1>f DEF HandleRetryImageless, Outcomes
<1>4. ASSUME NEW r \in Requests, NEW with_image \in BOOLEAN,
             HandleRetry(r, with_image)
      PROVE  Elsewhere'
  <2>1. store \in ConversationState
    BY <1>4 DEF HandleRetry, TypeOK
  <2>2. /\ phase[r] = "new"
        /\ PrepareRetry(r, WithImage(store, with_image))
        /\ prior' = [prior EXCEPT ![r] = store.last_provider]
    BY <1>4 DEF HandleRetry, Arrive, WithImage
  <2>3. QED  BY <2>1, <2>2, <1>p, RetryRecord
<1>5. ASSUME NEW r \in Requests, RouterRetries(r) PROVE Elsewhere'
  BY <1>5, <1>p DEF RouterRetries, TypeOK, Underway
<1>6. ASSUME NEW r \in Requests, ProviderAnswers(r) PROVE Elsewhere'
  <2>1. copy[r] \in ConversationState
    BY <1>6 DEF ProviderAnswers, TypeOK, Underway
  <2>2. PICK p \in Candidates(copy[r], image[r]) :
           copy' = [copy EXCEPT ![r] = Answered(copy[r], r, p)]
    BY <1>6 DEF ProviderAnswers, Answered
  <2>3. /\ p \in Providers
        /\ p \notin copy[r].excluded_providers
        /\ p # NoProvider
    BY <2>2, ConversationAssumption DEF Candidates
  <2>4. /\ phase' = [phase EXCEPT ![r] = "done"]
        /\ result' = [result EXCEPT ![r] = "ANSWER"]
        /\ prior' = prior
    BY <1>6 DEF ProviderAnswers, Finish
  <2>5. ASSUME NEW q \in Requests, q # r PROVE ElsewhereAt(q)'
    BY <2>2, <2>4, <2>5, ElsewhereOthers
  <2>6. copy'[r].last_provider = p
    BY <2>1, <2>2, <2>3, AnswerRecord DEF TypeOK
  <2>7. prior[r] # p
    BY <1>6, <2>3 DEF ProviderAnswers, Elsewhere, ElsewhereAt
  <2>8. phase'[r] = "done" /\ prior'[r] = prior[r]
    BY <2>4 DEF TypeOK
  <2>9. QED  BY <2>5, <2>6, <2>7, <2>8 DEF Elsewhere, ElsewhereAt
<1>7. ASSUME NEW r \in Requests, EndsUnanswered(r) PROVE Elsewhere'
  BY <1>7, <1>f DEF EndsUnanswered, Outcomes
<1>8. CASE UNCHANGED vars
  BY <1>8 DEF vars, Elsewhere, ElsewhereAt
<1>9. QED
  BY <1>1, <1>2, <1>3, <1>4, <1>5, <1>6, <1>7, <1>8
     DEF Next, Handle, Continue

\* A retry is never answered by the provider whose answer it retries.
THEOREM RetriesElsewhere == Spec => []RetryElsewhere
<1>1. Init => Elsewhere
  BY DEF Init, Elsewhere, ElsewhereAt
<1>2. Elsewhere => RetryElsewhere
  BY DEF Elsewhere, ElsewhereAt, RetryElsewhere
<1>3. QED  BY <1>1, <1>2, InitType, StepType, StepElsewhere, PTL DEF Spec

-----------------------------------------------------------------------------
(* When the requests of the conversation do not overlap.                   *)

\* At most one request is routed, and its copy is the stored record.
Alone ==
    /\ \A r, q \in Requests :
          phase[r] = "routing" /\ phase[q] = "routing" => r = q
    /\ \A r \in Requests : phase[r] = "routing" => copy[r] = store

\* No request but r is under way.
OnlyUnderway(r) == \A q \in Requests \ {r} : phase[q] # "routing"

\* The four things a step of a request can then do to the conversation:
\* a message begins a turn,
BeginsTurn(r) ==
    /\ phase[r] = "new"
    /\ OnlyUnderway(r)
    /\ \E with_image \in BOOLEAN, old \in ConversationState :
          /\ store' = NewTurn(old, r, with_image)
          /\ Settles(r, store')
          /\ image' = [image EXCEPT ![r] = with_image]
    /\ retry' = [retry EXCEPT ![r] = FALSE]
    /\ latest' = r

\* a retry, arriving or decided by the router, is charged to the turn,
ChargesTurn(r) ==
    /\ OnlyUnderway(r)
    /\ store \in ConversationState
    /\ ~RetryGuardFired(store)
    /\ \E with_image \in BOOLEAN :
          /\ store.has_image => with_image
          /\ store' = Charge(WithImage(store, with_image))
          /\ Settles(r, store')
          /\ \/ /\ phase[r] = "new"
                /\ retry' = [retry EXCEPT ![r] = TRUE]
                /\ image' = [image EXCEPT ![r] = with_image]
             \/ /\ phase[r] = "routing"
                /\ with_image = store.has_image
                /\ UNCHANGED <<retry, image>>
    /\ latest' = latest

\* a provider that was not excluded answers it,
AnswersTurn(r) ==
    /\ phase[r] = "routing"
    /\ OnlyUnderway(r)
    /\ store \in ConversationState
    /\ ~RetryGuardFired(store)
    /\ \E p \in Providers \ store.excluded_providers :
          store' = Answered(store, r, p)
    /\ copy' = [copy EXCEPT ![r] = store']
    /\ phase' = [phase EXCEPT ![r] = "done"]
    /\ UNCHANGED <<retry, image, latest, rounds>>

\* or the request ends and the record stays as it was.
EndsTurn(r) ==
    /\ OnlyUnderway(r)
    /\ phase' = [phase EXCEPT ![r] = "done"]
    /\ \/ /\ phase[r] = "routing"
          /\ UNCHANGED <<copy, retry, image>>
       \/ /\ phase[r] = "new"
          /\ retry' = [retry EXCEPT ![r] = TRUE]
          /\ \E with_image \in BOOLEAN :
                /\ image' = [image EXCEPT ![r] = with_image]
                /\ \/ store = NoConversation /\ copy' = copy
                   \/ /\ store \in ConversationState
                      /\ with_image => RetryGuardFired(store)
                      /\ \E kept \in BOOLEAN :
                            copy' = [copy EXCEPT ![r] = WithImage(store, kept)]
    /\ UNCHANGED <<store, latest, rounds>>

\* A request arrives only when no other is under way.
LEMMA ArrivesAlone ==
    ASSUME MaxInFlight = 1, NEW r \in Requests, NEW is_retry \in BOOLEAN,
           NEW with_image \in BOOLEAN, Arrive(r, is_retry, with_image)
    PROVE  phase[r] = "new" /\ OnlyUnderway(r)
<1>1. IsFiniteSet(InFlight)
  BY ConversationAssumption, FS_Subset DEF InFlight
<1>2. Cardinality(InFlight) \in Nat /\ Cardinality(InFlight) < 1
  BY <1>1, FS_CardinalityType DEF Arrive
<1>3. Cardinality(InFlight) = 0
  BY <1>2
<1>4. InFlight = {}
  BY <1>1, <1>3, FS_EmptySet
<1>5. QED  BY <1>4 DEF Arrive, InFlight, OnlyUnderway

\* A record whose image is as it was is the record itself.
LEMMA SameImage ==
    ASSUME NEW s \in ConversationState
    PROVE  WithImage(s, s.has_image) = s
BY Zenon DEF WithImage, ConversationState

\* Those four are all.
LEMMA SequentialCases ==
    ASSUME MaxInFlight = 1, TypeOK, Underway, Alone,
           NEW r \in Requests, Handle(r) \/ Continue(r)
    PROVE  BeginsTurn(r) \/ ChargesTurn(r) \/ AnswersTurn(r) \/ EndsTurn(r)
<1>u. ASSUME phase[r] = "routing"
      PROVE  /\ OnlyUnderway(r)
             /\ copy[r] = store
             /\ store \in ConversationState
             /\ ~RetryGuardFired(store)
  BY <1>u DEF Alone, Underway, TypeOK, OnlyUnderway
<1>1. ASSUME NEW with_image \in BOOLEAN, HandleMessage(r, with_image)
      PROVE  BeginsTurn(r)
  <2>1. PICK old \in ConversationState :
           /\ store' = NewTurn(old, r, with_image)
           /\ Route(r, NewTurn(old, r, with_image))
    BY <1>1, CreateRecord DEF HandleMessage, TypeOK
  <2>2. Settles(r, store')
    BY <2>1, NewTurnRecord, RouteSettles
  <2>3. /\ Arrive(r, FALSE, with_image)
        /\ latest' = r
    BY <1>1 DEF HandleMessage
  <2>4. QED
    BY <2>1, <2>2, <2>3, ArrivesAlone DEF BeginsTurn, Arrive
<1>2. ASSUME NEW with_image \in BOOLEAN, HandleRetryUnknown(r, with_image)
      PROVE  EndsTurn(r)
  BY <1>2, ArrivesAlone DEF HandleRetryUnknown, EndsTurn, Arrive, Finish
<1>3. ASSUME NEW with_image \in BOOLEAN, HandleRetryImageless(r, with_image)
      PROVE  EndsTurn(r)
  <2>1. /\ Arrive(r, TRUE, with_image)
        /\ store \in ConversationState
        /\ ~with_image
        /\ copy' = [copy EXCEPT ![r] = store]
        /\ phase' = [phase EXCEPT ![r] = "done"]
        /\ UNCHANGED <<store, latest, rounds>>
    BY <1>3 DEF HandleRetryImageless, Finish, TypeOK
  <2>2. store = WithImage(store, store.has_image) /\ store.has_image \in BOOLEAN
    BY <2>1, SameImage DEF ConversationState
  <2>3. QED  BY <2>1, <2>2, ArrivesAlone DEF EndsTurn, Arrive
<1>4. ASSUME NEW with_image \in BOOLEAN, HandleRetry(r, with_image)
      PROVE  ChargesTurn(r) \/ EndsTurn(r)
  <2>1. /\ Arrive(r, TRUE, with_image)
        /\ store \in ConversationState
        /\ store.has_image => with_image
        /\ PrepareRetry(r, WithImage(store, with_image))
        /\ latest' = latest
    BY <1>4 DEF HandleRetry, TypeOK, WithImage
  <2>2. /\ WithImage(store, with_image) \in ConversationState
        /\ RetryGuardFired(WithImage(store, with_image)) =
              RetryGuardFired(store)
    BY <2>1, RetryRecord
  <2>3. CASE RetryGuardFired(store)
    <3>1. /\ store' = store
          /\ copy' = [copy EXCEPT ![r] = WithImage(store, with_image)]
          /\ phase' = [phase EXCEPT ![r] = "done"]
          /\ rounds' = rounds
      BY <2>1, <2>2, <2>3, PrepareRetryCases
    <3>2. QED  BY <2>1, <2>3, <3>1, ArrivesAlone DEF EndsTurn, Arrive
  <2>4. CASE ~RetryGuardFired(store)
    <3>1. /\ store' = Charge(WithImage(store, with_image))
          /\ Settles(r, store')
      BY <2>1, <2>2, <2>4, PrepareRetryCases
    <3>2. QED  BY <2>1, <2>4, <3>1, ArrivesAlone DEF ChargesTurn, Arrive
  <2>5. QED  BY <2>3, <2>4
<1>5. ASSUME RouterRetries(r) PROVE ChargesTurn(r)
  <2>1. /\ phase[r] = "routing"
        /\ PrepareRetry(r, copy[r])
        /\ UNCHANGED <<retry, image, latest>>
    BY <1>5 DEF RouterRetries
  <2>2. store = WithImage(store, store.has_image) /\ store.has_image \in BOOLEAN
    BY <1>u, <2>1, SameImage DEF ConversationState
  <2>3. store' = Charge(store) /\ Settles(r, store')
    BY <1>u, <2>1, PrepareRetryCases
  <2>4. QED  BY <1>u, <2>1, <2>2, <2>3 DEF ChargesTurn
<1>6. ASSUME ProviderAnswers(r) PROVE AnswersTurn(r)
  <2>1. PICK p \in Candidates(copy[r], image[r]) :
           /\ copy' = [copy EXCEPT ![r] = Answered(copy[r], r, p)]
           /\ store' = Answered(copy[r], r, p)
    BY <1>6 DEF ProviderAnswers, Answered
  <2>2. p \in Providers \ copy[r].excluded_providers
    BY <2>1, ConversationAssumption DEF Candidates
  <2>3. QED
    BY <1>6, <1>u, <2>1, <2>2 DEF ProviderAnswers, AnswersTurn, Finish
<1>7. ASSUME EndsUnanswered(r) PROVE EndsTurn(r)
  BY <1>7, <1>u DEF EndsUnanswered, EndsTurn, Finish
<1>8. QED
  BY <1>1, <1>2, <1>3, <1>4, <1>5, <1>6, <1>7 DEF Handle, Continue

\* What a conversation keeps track of, between requests that do not overlap:
\* the record and the copies belong to messages that have arrived, the
\* record to the latest of them, which is not a retry.
Arrived ==
    /\ \A r \in Requests :
          copy[r] # NoConversation => phase[copy[r].original_query] # "new"
    /\ store # NoConversation =>
          /\ store.original_query = latest
          /\ phase[latest] # "new"

\* The routers have been asked at most once more than the turn was charged.
Counted ==
    /\ \A m \in Requests : phase[m] = "new" => rounds[m] = 0
    /\ store # NoConversation =>
          rounds[store.original_query] <= store.attempt_count + 1
    /\ BudgetHolds

\* The record remembers an image of its turn, unless the turn is spent.
Remembered ==
    \A r \in Requests :
        /\ copy[r] # NoConversation /\ store # NoConversation
        /\ copy[r].original_query = store.original_query
        /\ image[r]
        => store.has_image \/ RetryGuardFired(store)

\* The last provider of a copy that is routed is excluded.
LastExcluded ==
    \A r \in Requests :
        phase[r] = "routing" =>
            copy[r].last_provider \in
                copy[r].excluded_providers \cup {NoProvider}

\* A step of r changes no other request.
LEMMA OthersUntouched ==
    ASSUME TypeOK, NEW r \in Requests, NEW q \in Requests, q # r,
           \/ BeginsTurn(r) \/ ChargesTurn(r)
           \/ AnswersTurn(r) \/ EndsTurn(r)
    PROVE  /\ phase'[q] = phase[q] /\ copy'[q] = copy[q]
           /\ image'[q] = image[q] /\ retry'[q] = retry[q]
BY DEF TypeOK, BeginsTurn, ChargesTurn, AnswersTurn, EndsTurn, Settles

\* What the three steps that write the record leave in it.
LEMMA Written ==
    ASSUME TypeOK, NEW r \in Requests,
           BeginsTurn(r) \/ ChargesTurn(r) \/ AnswersTurn(r)
    PROVE  /\ store' \in ConversationState
           /\ copy'[r] = store'
           /\ phase'[r] \in {"routing", "done"}
           /\ phase'[r] = "routing" => ~RetryGuardFired(store')
<1>1. CASE BeginsTurn(r)
  <2>1. store' \in ConversationState
    BY <1>1, NewTurnRecord DEF BeginsTurn
  <2>2. QED  BY <1>1, <2>1 DEF BeginsTurn, Settles, TypeOK
<1>2. CASE ChargesTurn(r)
  <2>1. store' \in ConversationState
    BY <1>2, RetryRecord, ChargeRecord DEF ChargesTurn
  <2>2. QED  BY <1>2, <2>1 DEF ChargesTurn, Settles, TypeOK
<1>3. CASE AnswersTurn(r)
  <2>1. store' \in ConversationState
    BY <1>3, AnswerRecord DEF AnswersTurn
  <2>2. QED  BY <1>3, <2>1 DEF AnswersTurn, TypeOK
<1>4. QED  BY <1>1, <1>2, <1>3

\* Every step is one of the four, or changes nothing.
LEMMA SequentialNext ==
    ASSUME MaxInFlight = 1, TypeOK, Underway, Alone, [Next]_vars
    PROVE  \/ \E r \in Requests : BeginsTurn(r) \/ ChargesTurn(r)
                                     \/ AnswersTurn(r) \/ EndsTurn(r)
           \/ UNCHANGED vars
BY SequentialCases DEF Next

\* Requests that arrive one by one stay alone.
LEMMA StepAlone ==
    ASSUME MaxInFlight = 1
    PROVE  TypeOK /\ Underway /\ Alone /\ [Next]_vars => Alone'
<1> SUFFICES ASSUME TypeOK, Underway, Alone, [Next]_vars PROVE Alone'
  OBVIOUS
<1>1. ASSUME NEW r \in Requests, OnlyUnderway(r),
             \A q \in Requests \ {r} : phase'[q] = phase[q],
             phase'[r] = "routing" => copy'[r] = store'
      PROVE  Alone'
  BY <1>1 DEF OnlyUnderway, Alone
<1>2. ASSUME NEW r \in Requests,
             BeginsTurn(r) \/ ChargesTurn(r) \/ AnswersTurn(r)
      PROVE  Alone'
  <2>1. OnlyUnderway(r)
    BY <1>2 DEF BeginsTurn, ChargesTurn, AnswersTurn
  <2>2. QED  BY <1>1, <1>2, <2>1, Written, OthersUntouched
<1>3. ASSUME NEW r \in Requests, EndsTurn(r) PROVE Alone'
  <2>1. OnlyUnderway(r) /\ phase'[r] = "done"
    BY <1>3 DEF EndsTurn, TypeOK
  <2>2. QED  BY <1>1, <1>3, <2>1, OthersUntouched
<1>4. CASE UNCHANGED vars
  BY <1>4 DEF vars, Alone
<1>5. QED  BY <1>2, <1>3, <1>4, SequentialNext

\* The record stays the latest message's.
LEMMA StepArrived ==
    ASSUME MaxInFlight = 1
    PROVE  TypeOK /\ Underway /\ Alone /\ Arrived /\ [Next]_vars => Arrived'
<1> SUFFICES ASSUME TypeOK, Underway, Alone, Arrived, [Next]_vars
             PROVE  Arrived'
  OBVIOUS
<1>1. ASSUME NEW r \in Requests,
             BeginsTurn(r) \/ ChargesTurn(r) \/ AnswersTurn(r)
      PROVE  Arrived'
  <2>1. /\ store'.original_query = latest' /\ latest' \in Requests
        /\ phase'[latest'] # "new"
    <3>1. CASE BeginsTurn(r)
      <4>1. store'.original_query = r
        BY <3>1, NewTurnRecord DEF BeginsTurn
      <4>2. latest' = r
        BY <3>1 DEF BeginsTurn
      <4>3. QED  BY <1>1, <4>1, <4>2, Written
    <3>2. CASE ChargesTurn(r) \/ AnswersTurn(r)
      <4>1. store \in ConversationState /\ latest' = latest
        BY <3>2 DEF ChargesTurn, AnswersTurn
      <4>2. store'.original_query = store.original_query
        BY <3>2, <4>1, RetryRecord, ChargeRecord, AnswerRecord
           DEF ChargesTurn, AnswersTurn
      <4>3. store.original_query = latest /\ phase[latest] # "new"
        BY <4>1, SentinelAssumption DEF Arrived
      <4>4. QED
        BY <1>1, <4>1, <4>2, <4>3, Written, OthersUntouched
           DEF ConversationState
    <3>3. QED  BY <1>1, <3>1, <3>2
  <2>2. \A q \in Requests :
           copy'[q] # NoConversation =>
              phase'[copy'[q].original_query] # "new"
    <3>1. SUFFICES ASSUME NEW q \in Requests, q # r,
                          copy[q] # NoConversation
                   PROVE  phase'[copy[q].original_query] # "new"
      BY <1>1, <2>1, Written, OthersUntouched
    <3>2. /\ copy[q].original_query \in Requests
          /\ phase[copy[q].original_query] # "new"
      BY <3>1 DEF Arrived, TypeOK, ConversationState
    <3>3. QED  BY <1>1, <3>2, Written, OthersUntouched
  <2>3. QED  BY <2>1, <2>2 DEF Arrived
<1>2. ASSUME NEW r \in Requests, EndsTurn(r) PROVE Arrived'
  <2>1. store' = store /\ latest' = latest /\ phase'[r] = "done"
    BY <1>2 DEF EndsTurn, TypeOK
  <2>2. \A q \in Requests :
           copy'[q] # NoConversation =>
              \/ copy'[q] = copy[q]
              \/ /\ store \in ConversationState
                 /\ copy'[q].original_query = store.original_query
    <3>1. SUFFICES ASSUME NEW q \in Requests, copy'[q] # copy[q]
                   PROVE  /\ store \in ConversationState
                          /\ copy'[q].original_query = store.original_query
      OBVIOUS
    <3>2. q = r
      BY <1>2, <3>1, OthersUntouched
    <3>3. /\ store \in ConversationState
          /\ \E kept \in BOOLEAN :
                copy' = [copy EXCEPT ![r] = WithImage(store, kept)]
      BY <1>2, <3>1 DEF EndsTurn
    <3>4. PICK kept \in BOOLEAN : copy'[r] = WithImage(store, kept)
      BY <3>3 DEF TypeOK
    <3>5. QED  BY <3>2, <3>3, <3>4, RetryRecord
  <2>3. \A m \in Requests : phase[m] # "new" => phase'[m] # "new"
    BY <1>2, <2>1, OthersUntouched
  <2>4. store # NoConversation =>
           /\ store.original_query = latest /\ latest \in Requests
           /\ phase[latest] # "new"
    BY DEF Arrived, TypeOK, ConversationState
  <2>5. \A q \in Requests :
           copy[q] # NoConversation =>
              /\ copy[q].original_query \in Requests
              /\ phase[copy[q].original_query] # "new"
    BY DEF Arrived, TypeOK, ConversationState
  <2>6. store \in ConversationState => store # NoConversation
    BY SentinelAssumption
  <2>7. QED
    BY <2>1, <2>2, <2>3, <2>4, <2>5, <2>6 DEF Arrived
<1>3. CASE UNCHANGED vars
  BY <1>3 DEF vars, Arrived
<1>4. QED  BY <1>1, <1>2, <1>3, SequentialNext

\* A message begins its turn with at most one round; a charge allows one
\* more, and is made only while the budget lasts.
LEMMA StepCounted ==
    ASSUME MaxInFlight = 1
    PROVE  TypeOK /\ Underway /\ Alone /\ Arrived /\ Counted /\ [Next]_vars
              => Counted'
<1> SUFFICES ASSUME TypeOK, Underway, Alone, Arrived, Counted, [Next]_vars
             PROVE  Counted'
  OBVIOUS
<1> USE ConversationAssumption
<1>r. rounds \in [Requests -> 0..(MaxAttempts + 1)]
  BY DEF TypeOK
<1>s. store # NoConversation =>
         /\ store \in ConversationState
         /\ store.original_query \in Requests
         /\ phase[store.original_query] # "new"
         /\ store.attempt_count \in Nat
  BY DEF Arrived, TypeOK, ConversationState
<1>1. ASSUME NEW r \in Requests, BeginsTurn(r) \/ ChargesTurn(r),
             NEW m \in Requests, store'.original_query = m,
             NEW n \in Nat, rounds[m] <= n, store'.attempt_count = n,
             phase'[m] # "new"
      PROVE  Counted'
  <2>1. store' \in ConversationState
    BY <1>1, Written
  <2>2. \/ rounds' = rounds
        \/ /\ n < MaxAttempts
           /\ rounds' = [rounds EXCEPT ![m] = rounds[m] + 1]
    <3>1. Settles(r, store')
      BY <1>1 DEF BeginsTurn, ChargesTurn
    <3>2. ~RetryGuardFired(store') => n < MaxAttempts
      BY <1>1, <2>1 DEF RetryGuardFired
    <3>3. rounds[m] <= MaxAttempts
      BY <1>1 DEF Counted, BudgetHolds
    <3>4. QED  BY <1>1, <3>1, <3>2, <3>3, <1>r DEF Settles
  <2>3. \A q \in Requests : phase'[q] = "new" => phase[q] = "new" /\ q # m
    BY <1>1, Written, OthersUntouched
  <2>4. rounds'[m] <= n + 1
    BY <1>1, <2>2, <1>r
  <2>5. \A q \in Requests : rounds'[q] <= MaxAttempts
    BY <1>1, <2>2, <1>r DEF Counted, BudgetHolds
  <2>6. \A q \in Requests : phase'[q] = "new" => rounds'[q] = 0
    BY <2>2, <2>3, <1>r DEF Counted
  <2>7. QED  BY <1>1, <2>4, <2>5, <2>6 DEF Counted, BudgetHolds
<1>2. ASSUME NEW r \in Requests, BeginsTurn(r) PROVE Counted'
  <2>1. store'.original_query = r /\ store'.attempt_count = 0
    BY <1>2, NewTurnRecord DEF BeginsTurn
  <2>2. rounds[r] = 0
    BY <1>2 DEF BeginsTurn, Counted
  <2>3. phase'[r] # "new"
    BY <1>2, Written
  <2>4. QED  BY <1>1, <1>2, <2>1, <2>2, <2>3
<1>3. ASSUME NEW r \in Requests, ChargesTurn(r) PROVE Counted'
  <2>1. store # NoConversation
    BY <1>3, SentinelAssumption DEF ChargesTurn
  <2>2. /\ store'.original_query = store.original_query
        /\ store'.attempt_count = store.attempt_count + 1
    BY <1>3, RetryRecord, ChargeRecord DEF ChargesTurn
  <2>3. rounds[store.original_query] <= store.attempt_count + 1
    BY <2>1 DEF Counted
  <2>4. phase'[store.original_query] # "new"
    BY <1>3, <1>s, <2>1, Written, OthersUntouched
  <2>5. store.attempt_count + 1 \in Nat
    BY <1>s, <2>1
  <2>6. QED  BY <1>1, <1>3, <1>s, <2>1, <2>2, <2>3, <2>4, <2>5
<1>4. ASSUME NEW r \in Requests, AnswersTurn(r) PROVE Counted'
  <2>1. /\ store'.original_query = store.original_query
        /\ store'.attempt_count = store.attempt_count
        /\ store \in ConversationState
        /\ rounds' = rounds
    BY <1>4, AnswerRecord DEF AnswersTurn
  <2>2. \A q \in Requests : phase'[q] = "new" => phase[q] = "new"
    BY <1>4, Written, OthersUntouched
  <2>3. QED  BY <2>1, <2>2, SentinelAssumption DEF Counted, BudgetHolds
<1>5. ASSUME NEW r \in Requests, EndsTurn(r) PROVE Counted'
  <2>1. store' = store /\ rounds' = rounds /\ phase'[r] = "done"
    BY <1>5 DEF EndsTurn, TypeOK
  <2>2. \A q \in Requests : phase'[q] = "new" => phase[q] = "new"
    BY <1>5, <2>1, OthersUntouched
  <2>3. QED  BY <2>1, <2>2 DEF Counted, BudgetHolds
<1>6. CASE UNCHANGED vars
  BY <1>6 DEF vars, Counted, BudgetHolds
<1>7. QED  BY <1>2, <1>3, <1>4, <1>5, <1>6, SequentialNext

\* A retry never takes the image of its turn away, and a spent turn stays so.
LEMMA StepRemembered ==
    ASSUME MaxInFlight = 1
    PROVE  TypeOK /\ Underway /\ Alone /\ Arrived /\ Remembered /\ [Next]_vars
              => Remembered'
<1> SUFFICES ASSUME TypeOK, Underway, Alone, Arrived, Remembered, [Next]_vars
             PROVE  Remembered'
  OBVIOUS
<1>1. ASSUME NEW r \in Requests, BeginsTurn(r) PROVE Remembered'
  <2>1. /\ store'.original_query = r
        /\ image'[r] = store'.has_image
    <3>1. PICK with_image \in BOOLEAN, old \in ConversationState :
             /\ store' = NewTurn(old, r, with_image)
             /\ image' = [image EXCEPT ![r] = with_image]
      BY <1>1 DEF BeginsTurn
    <3>2. image'[r] = with_image
      BY <3>1 DEF TypeOK
    <3>3. QED  BY <3>1, <3>2, NewTurnRecord
  <2>2. \A q \in Requests \ {r} :
           copy'[q] # NoConversation => copy'[q].original_query # r
    <3>1. phase[r] = "new"
      BY <1>1 DEF BeginsTurn
    <3>2. QED  BY <1>1, <3>1, OthersUntouched DEF Arrived
  <2>3. QED  BY <2>1, <2>2 DEF Remembered
<1>2. ASSUME NEW r \in Requests, ChargesTurn(r) PROVE Remembered'
  <2>1. PICK with_image \in BOOLEAN :
           /\ store.has_image => with_image
           /\ store' = Charge(WithImage(store, with_image))
           /\ \/ image' = [image EXCEPT ![r] = with_image]
              \/ /\ phase[r] = "routing"
                 /\ image' = image
    BY <1>2 DEF ChargesTurn
  <2>2. /\ store \in ConversationState
        /\ store # NoConversation
        /\ ~RetryGuardFired(store)
    BY <1>2, SentinelAssumption DEF ChargesTurn
  <2>3. /\ store'.original_query = store.original_query
        /\ store'.has_image = with_image
    BY <2>1, <2>2, RetryRecord, ChargeRecord
  <2>4. ASSUME NEW q \in Requests, image[q], copy[q] # NoConversation,
               copy[q].original_query = store.original_query
        PROVE  store'.has_image
    BY <2>1, <2>2, <2>3, <2>4 DEF Remembered
  <2>5. ASSUME NEW q \in Requests \ {r}, image'[q],
               copy'[q] # NoConversation,
               copy'[q].original_query = store'.original_query
        PROVE  store'.has_image
    BY <1>2, <2>3, <2>4, <2>5, OthersUntouched
  <2>6. ASSUME image'[r] PROVE store'.has_image
    <3>1. CASE image' = [image EXCEPT ![r] = with_image]
      BY <2>3, <2>6, <3>1 DEF TypeOK
    <3>2. CASE phase[r] = "routing" /\ image' = image
      <4>1. copy[r] = store
        BY <3>2 DEF Alone
      <4>2. QED  BY <2>2, <2>4, <2>6, <3>2, <4>1
    <3>3. QED  BY <2>1, <3>1, <3>2
  <2>7. QED  BY <2>5, <2>6 DEF Remembered
<1>3. ASSUME NEW r \in Requests, AnswersTurn(r) PROVE Remembered'
  <2>1. /\ store \in ConversationState
        /\ copy[r] = store
        /\ image' = image
        /\ copy'[r] = store'
    BY <1>3 DEF AnswersTurn, Alone, TypeOK
  <2>2. /\ store'.original_query = store.original_query
        /\ store'.has_image = store.has_image
        /\ RetryGuardFired(store') = RetryGuardFired(store)
    BY <1>3, AnswerRecord DEF AnswersTurn
  <2>3. store # NoConversation
    BY <2>1, SentinelAssumption
  <2>4. ASSUME NEW q \in Requests, copy'[q] # NoConversation, image'[q],
               copy'[q].original_query = store'.original_query
        PROVE  store'.has_image \/ RetryGuardFired(store')
    BY <1>3, <2>1, <2>2, <2>3, <2>4, OthersUntouched DEF Remembered
  <2>5. QED  BY <2>4 DEF Remembered, RetryGuardFired
<1>4. ASSUME NEW r \in Requests, EndsTurn(r) PROVE Remembered'
  <2>1. store' = store
    BY <1>4 DEF EndsTurn
  <2>2. CASE phase[r] = "routing" /\ UNCHANGED <<copy, image>>
    BY <2>1, <2>2 DEF Remembered, RetryGuardFired
  <2>3. CASE store = NoConversation
    BY <2>1, <2>3 DEF Remembered
  <2>4. CASE image'[r] => RetryGuardFired(store)
    <3>1. ASSUME NEW q \in Requests, copy'[q] # NoConversation,
                 store # NoConversation, image'[q],
                 copy'[q].original_query = store.original_query
          PROVE  store.has_image \/ RetryGuardFired(store)
      BY <1>4, <2>4, <3>1, OthersUntouched DEF Remembered
    <3>2. QED  BY <2>1, <3>1 DEF Remembered, RetryGuardFired
  <2>5. \/ phase[r] = "routing" /\ UNCHANGED <<copy, image>>
        \/ store = NoConversation
        \/ image'[r] => RetryGuardFired(store)
    BY <1>4 DEF EndsTurn, TypeOK
  <2>6. QED  BY <2>2, <2>3, <2>4, <2>5
<1>5. CASE UNCHANGED vars
  BY <1>5 DEF vars, Remembered, RetryGuardFired
<1>6. QED  BY <1>1, <1>2, <1>3, <1>4, <1>5, SequentialNext

\* Only a charged copy is routed again, and a new turn has no last provider.
LEMMA StepLastExcluded ==
    ASSUME MaxInFlight = 1
    PROVE  TypeOK /\ Underway /\ Alone /\ LastExcluded /\ [Next]_vars
              => LastExcluded'
<1> SUFFICES ASSUME TypeOK, Underway, Alone, LastExcluded, [Next]_vars
             PROVE  LastExcluded'
  OBVIOUS
<1>1. ASSUME NEW r \in Requests, BeginsTurn(r) PROVE LastExcluded'
  <2>1. store'.last_provider = NoProvider
    BY <1>1, NewTurnRecord DEF BeginsTurn
  <2>2. QED  BY <1>1, <2>1, Written, OthersUntouched DEF LastExcluded
<1>2. ASSUME NEW r \in Requests, ChargesTurn(r) PROVE LastExcluded'
  <2>1. store'.last_provider \in store'.excluded_providers \cup {NoProvider}
    BY <1>2, RetryRecord, ChargeRecord DEF ChargesTurn
  <2>2. QED  BY <1>2, <2>1, Written, OthersUntouched DEF LastExcluded
<1>3. ASSUME NEW r \in Requests, AnswersTurn(r) \/ EndsTurn(r)
      PROVE  LastExcluded'
  <2>1. phase'[r] = "done"
    BY <1>3 DEF AnswersTurn, EndsTurn, TypeOK
  <2>2. QED  BY <1>3, <2>1, OthersUntouched DEF LastExcluded
<1>4. CASE UNCHANGED vars
  BY <1>4 DEF vars, LastExcluded
<1>5. QED  BY <1>1, <1>2, <1>3, <1>4, SequentialNext

\* The inductive invariant of a conversation whose requests do not overlap.
Sequential ==
    /\ TypeOK /\ Underway /\ Alone
    /\ Arrived /\ Counted /\ Remembered /\ LastExcluded

\* It holds before the first request,
LEMMA InitSequential == Init => Sequential
<1> SUFFICES ASSUME Init PROVE Sequential
  OBVIOUS
<1>1. Alone /\ Arrived /\ Remembered /\ LastExcluded
  BY DEF Init, Alone, Arrived, Remembered, LastExcluded
<1>2. Counted
  BY ConversationAssumption DEF Init, Counted, BudgetHolds
<1>3. QED  BY <1>1, <1>2, InitType DEF Sequential

\* and every step keeps it.
LEMMA StepSequential ==
    ASSUME MaxInFlight = 1
    PROVE  Sequential /\ [Next]_vars => Sequential'
BY StepType, StepAlone, StepArrived, StepCounted, StepRemembered,
   StepLastExcluded DEF Sequential

\* When requests do not overlap, the routers are asked at most MaxAttempts
\* times for one turn, the router's own RETRY decisions included.
THEOREM BudgetKept == MaxInFlight = 1 => (Spec => []BudgetHolds)
<1> SUFFICES ASSUME MaxInFlight = 1 PROVE Spec => []BudgetHolds
  OBVIOUS
<1>1. Sequential /\ [Next]_vars => Sequential'
  BY StepSequential
<1>2. Sequential => BudgetHolds
  BY DEF Sequential, Counted
<1>3. QED  BY <1>1, <1>2, InitSequential, PTL DEF Spec

\* When requests do not overlap, the stored record always belongs to the
\* latest message.
THEOREM LatestQuery == MaxInFlight = 1 => (Spec => []QueryCurrent)
<1> SUFFICES ASSUME MaxInFlight = 1 PROVE Spec => []QueryCurrent
  OBVIOUS
<1>1. Sequential /\ [Next]_vars => Sequential'
  BY StepSequential
<1>2. Sequential => QueryCurrent
  BY DEF Sequential, Arrived, QueryCurrent
<1>3. QED  BY <1>1, <1>2, InitSequential, PTL DEF Spec

\* When requests do not overlap, a turn that had an image is never retried
\* without one: a retry that is routed finds the image in the record.
THEOREM ImagesKept == MaxInFlight = 1 => (Spec => ImageKept)
<1> SUFFICES ASSUME MaxInFlight = 1 PROVE Spec => ImageKept
  OBVIOUS
<1> DEFINE Kept ==
       \A r, q \in Requests :
          /\ phase[r] = "new" /\ phase'[r] = "routing"
          /\ retry'[r] /\ ~image'[r]
          /\ phase[q] = "done" /\ image[q] /\ copy[q] # NoConversation
          => copy[q].original_query # copy'[r].original_query
<1>1. Sequential /\ [Next]_vars => Sequential'
  BY StepSequential
<1>2. Sequential /\ [Next]_vars => [Kept]_vars
  <2> SUFFICES ASSUME Sequential, [Next]_vars, ~UNCHANGED vars,
                      NEW r \in Requests, NEW q \in Requests,
                      phase[r] = "new", phase'[r] = "routing",
                      retry'[r], ~image'[r],
                      image[q], copy[q] # NoConversation
               PROVE  copy[q].original_query # copy'[r].original_query
    OBVIOUS
  <2>1. TypeOK /\ Underway /\ Alone /\ Remembered
    BY DEF Sequential
  <2>2. BeginsTurn(r) \/ ChargesTurn(r) \/ AnswersTurn(r) \/ EndsTurn(r)
    <3>1. PICK s \in Requests : \/ BeginsTurn(s) \/ ChargesTurn(s)
                                \/ AnswersTurn(s) \/ EndsTurn(s)
      BY <2>1, SequentialNext
    <3>2. s = r
      BY <2>1, <3>1, OthersUntouched
    <3>3. QED  BY <3>1, <3>2
  <2>3. ChargesTurn(r)
    BY <2>1, <2>2 DEF BeginsTurn, AnswersTurn, EndsTurn, TypeOK
  <2>4. /\ store \in ConversationState /\ store # NoConversation
        /\ ~RetryGuardFired(store)
    BY <2>3, SentinelAssumption DEF ChargesTurn
  <2>5. PICK with_image \in BOOLEAN :
           /\ store.has_image => with_image
           /\ store' = Charge(WithImage(store, with_image))
           /\ image' = [image EXCEPT ![r] = with_image]
    BY <2>3 DEF ChargesTurn
  <2>6. ~store.has_image
    BY <2>1, <2>5 DEF TypeOK
  <2>7. copy'[r].original_query = store.original_query
    BY <2>1, <2>3, <2>4, <2>5, Written, RetryRecord, ChargeRecord
  <2>8. QED  BY <2>1, <2>4, <2>6, <2>7 DEF Remembered
<1>3. QED
  BY <1>1, <1>2, InitSequential, PTL DEF Spec, ImageKept, Kept

-----------------------------------------------------------------------------
(* The promise of TurnBudget.                                              *)

\* The variables of the promise, as KeepsPromise maps them.
Turn == IF store = NoConversation THEN NoMessage ELSE store.original_query
Begun == {r \in Requests : ~retry[r] /\ phase[r] # "new"}
Spent == IF store = NoConversation THEN 0 ELSE store.attempt_count
Tried == IF store = NoConversation THEN {}
         ELSE store.excluded_providers \cup
                  ({store.last_provider} \ {NoProvider})

\* Before the first request there is no turn.
LEMMA InitPromise == Init => Promise!Init
BY DEF Init, Promise!Init

\* A message begins a turn of the promise, a charge spends from it, an
\* answer adds to the providers tried, and every other step stutters.
LEMMA StepPromise ==
    ASSUME MaxInFlight = 1, Sequential, [Next]_vars
    PROVE  [Promise!Next]_<<Turn, Begun, Spent, Tried>>
<1>t. TypeOK /\ Underway /\ Alone /\ Arrived /\ LastExcluded
  BY DEF Sequential
<1>b. ASSUME NEW r \in Requests, ChargesTurn(r) \/ AnswersTurn(r) \/ EndsTurn(r)
      PROVE  Begun' = Begun
  <2>1. \A q \in Requests \ {r} :
           phase'[q] = phase[q] /\ retry'[q] = retry[q]
    BY <1>b, <1>t, OthersUntouched
  <2>2. \/ phase[r] = "new" /\ retry'[r]
        \/ phase[r] = "routing" /\ retry'[r] = retry[r]
    BY <1>b, <1>t DEF ChargesTurn, AnswersTurn, EndsTurn, TypeOK
  <2>3. phase'[r] # "new"
    BY <1>b, <1>t, Written DEF EndsTurn, TypeOK
  <2>4. QED  BY <2>1, <2>2, <2>3 DEF Begun
<1>1. ASSUME NEW r \in Requests, BeginsTurn(r) PROVE Promise!Begin
  <2>1. /\ store' \in ConversationState /\ store' # NoConversation
        /\ phase'[r] # "new"
    BY <1>1, <1>t, Written, SentinelAssumption
  <2>2. /\ store'.original_query = r
        /\ store'.attempt_count = 0
        /\ store'.excluded_providers = {}
        /\ store'.last_provider = NoProvider
    BY <1>1, NewTurnRecord DEF BeginsTurn
  <2>3. phase[r] = "new" /\ ~retry'[r]
    BY <1>1, <1>t DEF BeginsTurn, TypeOK
  <2>4. \A q \in Requests \ {r} :
           phase'[q] = phase[q] /\ retry'[q] = retry[q]
    BY <1>1, <1>t, OthersUntouched
  <2>5. r \in Requests \ Begun /\ Begun' = Begun \cup {r}
    BY <2>1, <2>3, <2>4 DEF Begun
  <2>6. Turn' = r /\ Spent' = 0 /\ Tried' = {}
    BY <2>1, <2>2 DEF Turn, Spent, Tried
  <2>7. QED
    BY <2>5, <2>6 DEF Promise!Begin, Turn, Begun, Spent, Tried
<1>2. ASSUME NEW r \in Requests, ChargesTurn(r) PROVE Promise!Spend
  <2>1. /\ store \in ConversationState /\ store # NoConversation
        /\ store' # NoConversation
        /\ ~RetryGuardFired(store)
    BY <1>2, <1>t, Written, SentinelAssumption DEF ChargesTurn
  <2>2. PICK with_image \in BOOLEAN :
           store' = Charge(WithImage(store, with_image))
    BY <1>2 DEF ChargesTurn
  <2>3. /\ store'.original_query = store.original_query
        /\ store.attempt_count < MaxAttempts
        /\ store'.attempt_count = store.attempt_count + 1
        /\ store'.excluded_providers = store.excluded_providers
              \cup ({store.last_provider} \ {NoProvider})
        /\ store'.last_provider = store.last_provider
    BY <2>1, <2>2, RetryRecord, ChargeRecord
  <2>4. /\ Turn # NoMessage /\ Turn' = Turn
        /\ Spent < MaxAttempts /\ Spent' = Spent + 1
    BY <2>1, <2>3, ConversationAssumption DEF Turn, Spent, ConversationState
  <2>5. Tried' = Tried
    BY <2>1, <2>3 DEF Tried
  <2>6. Begun' = Begun
    BY <1>2, <1>b
  <2>7. QED
    BY <2>4, <2>5, <2>6 DEF Promise!Spend, Turn, Begun, Spent, Tried
<1>3. ASSUME NEW r \in Requests, AnswersTurn(r) PROVE Promise!Answer
  <2>1. /\ store \in ConversationState /\ store # NoConversation
        /\ store' # NoConversation
    BY <1>3, <1>t, Written, SentinelAssumption DEF AnswersTurn
  <2>2. PICK p \in Providers \ store.excluded_providers :
           store' = Answered(store, r, p)
    BY <1>3 DEF AnswersTurn
  <2>3. /\ store'.original_query = store.original_query
        /\ store'.attempt_count = store.attempt_count
        /\ store'.excluded_providers = store.excluded_providers
        /\ store'.last_provider = p
    BY <2>1, <2>2, AnswerRecord
  <2>4. store.last_provider \in store.excluded_providers \cup {NoProvider}
    BY <1>3, <1>t DEF AnswersTurn, Alone, LastExcluded
  <2>5. /\ Turn # NoMessage /\ Turn' = Turn
        /\ Spent' = Spent
    BY <2>1, <2>3, ConversationAssumption DEF Turn, Spent, ConversationState
  <2>6. Tried = store.excluded_providers \ {NoProvider}
    BY <2>1, <2>4, ConversationAssumption DEF Tried, ConversationState
  <2>7. p \in Providers \ Tried /\ Tried' = Tried \cup {p}
    BY <2>1, <2>2, <2>3, <2>6, ConversationAssumption
       DEF Tried, ConversationState
  <2>8. Begun' = Begun
    BY <1>3, <1>b
  <2>9. QED
    BY <2>5, <2>7, <2>8 DEF Promise!Answer, Turn, Begun, Spent, Tried
<1>4. ASSUME NEW r \in Requests, EndsTurn(r)
      PROVE  UNCHANGED <<Turn, Begun, Spent, Tried>>
  BY <1>4, <1>b DEF EndsTurn, Turn, Spent, Tried
<1>5. CASE UNCHANGED vars
  BY <1>5 DEF vars, Turn, Begun, Spent, Tried
<1>6. QED
  BY <1>t, <1>1, <1>2, <1>3, <1>4, <1>5, SequentialNext DEF Promise!Next

\* A conversation whose requests do not overlap keeps the promise: one turn
\* at a time, at most MaxAttempts retries, no provider twice in a turn.
THEOREM PromiseKept == MaxInFlight = 1 => (Spec => KeepsPromise)
<1> SUFFICES ASSUME MaxInFlight = 1 PROVE Spec => KeepsPromise
  OBVIOUS
<1>1. Sequential /\ [Next]_vars => Sequential'
  BY StepSequential
<1>2. Sequential /\ [Next]_vars =>
         [Promise!Next]_<<Turn, Begun, Spent, Tried>>
  BY StepPromise
<1>3. QED
  BY <1>1, <1>2, InitSequential, InitPromise, PTL
     DEF Spec, KeepsPromise, Promise!Spec, Turn, Begun, Spent, Tried

=============================================================================
