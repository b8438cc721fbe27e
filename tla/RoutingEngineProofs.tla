------------------------ MODULE RoutingEngineProofs ------------------------
(***************************************************************************)
(* Proofs about RoutingEngine, for any requests, backends, candidates,     *)
(* timeouts and circuit settings: types, what a request may not do, the    *)
(* probe slots, the log, and that the calls of all requests are, on each   *)
(* backend, the calls of CircuitBreaker.                                   *)
(***************************************************************************)
EXTENDS RoutingEngine, FiniteSetTheorems, SequenceTheorems, TLAPS

-----------------------------------------------------------------------------
(* The circuit of a backend, as CircuitBreakerProofs has it.               *)

\* A backend.  Nothing is assumed of it, so that what is proved of its
\* circuit is proved of each.
CONSTANT Chosen

\* The calls on it, as in Shared.
Breaker == INSTANCE CircuitBreakerProofs WITH
    RouterCalls <- {<<r, "router">> : r \in Requests},
    TaskCalls   <- {<<r, "provider">> : r \in Requests},
    circuit <- circuits[Chosen],
    age <- [call \in Requests \X {"router", "provider"} |->
               IF stage[call[1]] = call[2] /\ Target(call[1]) = Chosen
               THEN call_age[call[1]] ELSE NoTime],
    window <- {<<r, stage[r]>> : r \in window[Chosen]},
    quiet <- quiet[Chosen]

LEMMA BreakerAssumptions ==
    Breaker!CircuitAssumption /\ Breaker!CallsAssumption
<1>1. IsFiniteSet({<<r, "router">> : r \in Requests})
      /\ IsFiniteSet({<<r, "provider">> : r \in Requests})
  <2>1. ASSUME NEW s PROVE IsFiniteSet({<<r, s>> : r \in Requests})
    <3>1. PICK f : f = [r \in Requests |-> <<r, s>>]
      OBVIOUS
    <3>2. f \in Surjection(Requests, {<<r, s>> : r \in Requests})
      BY <3>1 DEF Surjection
    <3>3. QED  BY <3>2, EngineAssumption, FS_Surjection
  <2>2. QED  BY <2>1
<1>2. \A S : Breaker!IsFiniteSet(S) = IsFiniteSet(S)
  BY Zenon DEF IsFiniteSet, Breaker!IsFiniteSet
<1>3. QED
  BY <1>1, <1>2, CircuitAssumption, EngineAssumption
     DEF Breaker!CircuitAssumption, Breaker!CallsAssumption

\* The slots of a circuit and the probes that hold them.
SlotsHeld(c, probes) ==
    /\ IsFiniteSet(probes)
    /\ c.half_open_inflight <= Cardinality(probes)
    /\ c.state # "HALF_OPEN" => c.half_open_inflight = 0 /\ probes = {}

ProbesAdmitted(c, probes, call) ==
    IF AllowRequest(c).state # "HALF_OPEN" THEN {}
    ELSE IF c.state = "HALF_OPEN" THEN probes \cup {call} ELSE {call}

ProbesLeft(after, probes, call) ==
    IF after.state = "HALF_OPEN" THEN probes \ {call} ELSE {}

\* The methods are the same there and here.
LEMMA SameCircuits ==
    /\ Breaker!CircuitAssumption /\ Breaker!CallsAssumption
    /\ Breaker!Circuit = Circuit
    /\ \A c : /\ Breaker!Allows(c) = Allows(c)
              /\ Breaker!AllowRequest(c) = AllowRequest(c)
              /\ Breaker!RecordSuccess(c) = RecordSuccess(c)
              /\ Breaker!ReleaseProbe(c) = ReleaseProbe(c)
              /\ Breaker!Age(c) = Age(c)
    /\ \A c, transient :
          Breaker!RecordFailure(c, transient) = RecordFailure(c, transient)
    /\ \A c, probes :
          Breaker!SlotsHeld(c, probes) = SlotsHeld(c, probes)
    /\ \A c, probes, call :
          /\ Breaker!ProbesAdmitted(c, probes, call)
                = ProbesAdmitted(c, probes, call)
          /\ Breaker!ProbesLeft(c, probes, call) = ProbesLeft(c, probes, call)
<1>1. Breaker!CircuitAssumption /\ Breaker!CallsAssumption
  BY BreakerAssumptions
<1>2. Breaker!Circuit = Circuit
  BY DEF Circuit, Breaker!Circuit, CircuitState, Breaker!CircuitState,
         NoTime, Breaker!NoTime
<1>3. \A c : Breaker!Cooling(c) = Cooling(c)
  BY DEF Cooling, Breaker!Cooling
<1>4. \A c : Breaker!EnterWindow(c) = EnterWindow(c)
  BY <1>3, Zenon DEF EnterWindow, Breaker!EnterWindow
<1>5. \A c : /\ Breaker!Allows(c) = Allows(c)
            /\ Breaker!AllowRequest(c) = AllowRequest(c)
  BY <1>4, Zenon DEF Allows, AllowRequest, Breaker!Allows, Breaker!AllowRequest
<1>6. \A c : /\ Breaker!RecordSuccess(c) = RecordSuccess(c)
            /\ Breaker!ReleaseProbe(c) = ReleaseProbe(c)
            /\ Breaker!Age(c) = Age(c)
  BY Zenon DEF RecordSuccess, ReleaseProbe, Age, Closed, NoTime,
      Breaker!RecordSuccess, Breaker!ReleaseProbe, Breaker!Age,
      Breaker!Closed, Breaker!NoTime
<1>7. \A c, transient :
         Breaker!RecordFailure(c, transient) = RecordFailure(c, transient)
  BY <1>6, Zenon DEF RecordFailure, Open, Breaker!RecordFailure, Breaker!Open
<1>8. \A c, probes : Breaker!SlotsHeld(c, probes) = SlotsHeld(c, probes)
  <2>1. \A S : /\ Breaker!Cardinality(S) = Cardinality(S)
              /\ Breaker!IsFiniteSet(S) = IsFiniteSet(S)
    BY Zenon DEF Cardinality, Breaker!Cardinality, IsFiniteSet,
                 Breaker!IsFiniteSet
  <2>2. QED  BY <2>1, Zenon DEF SlotsHeld, Breaker!SlotsHeld
<1>9. \A c, probes, call :
         /\ Breaker!ProbesAdmitted(c, probes, call)
               = ProbesAdmitted(c, probes, call)
         /\ Breaker!ProbesLeft(c, probes, call) = ProbesLeft(c, probes, call)
  BY <1>5, Zenon DEF ProbesAdmitted, ProbesLeft,
                     Breaker!ProbesAdmitted, Breaker!ProbesLeft
<1>10. QED  BY <1>1, <1>2, <1>5, <1>6, <1>7, <1>8, <1>9

LEMMA CircuitTyped ==
    ASSUME NEW c \in Circuit
    PROVE  /\ AllowRequest(c) \in Circuit
           /\ RecordSuccess(c) \in Circuit
           /\ \A transient \in BOOLEAN :
                 RecordFailure(c, transient) \in Circuit
           /\ ReleaseProbe(c) \in Circuit
           /\ Age(c) \in Circuit
BY SameCircuits, Breaker!CircuitTyped

LEMMA FailureEndsWindow ==
    ASSUME NEW c \in Circuit, NEW transient \in BOOLEAN
    PROVE  ReleaseProbe(RecordFailure(c, transient))
              = RecordFailure(c, transient)
BY SameCircuits, Breaker!FailureEndsWindow

LEMMA NoProbesNoSlots ==
    ASSUME NEW c \in Circuit, SlotsHeld(c, {})
    PROVE  c.half_open_inflight = 0
BY SameCircuits, Breaker!NoProbesNoSlots

LEMMA AdmissionSlots ==
    ASSUME NEW c \in Circuit, Allows(c), NEW probes, SlotsHeld(c, probes),
           NEW call, call \notin probes
    PROVE  SlotsHeld(AllowRequest(c), ProbesAdmitted(c, probes, call))
BY SameCircuits, Breaker!AdmissionSlots

LEMMA CompletionSlots ==
    ASSUME NEW c \in Circuit, NEW probes, SlotsHeld(c, probes), NEW call,
           NEW after,
           \/ after = RecordSuccess(c)
           \/ after = ReleaseProbe(c)
           \/ \E transient \in BOOLEAN : after = RecordFailure(c, transient)
    PROVE  SlotsHeld(after, ProbesLeft(after, probes, call))
BY SameCircuits, Breaker!CompletionSlots

LEMMA AgeSlots ==
    ASSUME NEW c \in Circuit
    PROVE  /\ Age(c).state = c.state
           /\ Age(c).half_open_inflight = c.half_open_inflight
BY SameCircuits, Breaker!AgeSlots

-----------------------------------------------------------------------------
(* Type correctness, variable by variable.                                 *)

\* The parts of TypeOK that the steps share: the circuits,
CircuitsTyped ==
    /\ circuits \in [Backends -> Circuit]
    /\ window \in [Backends -> SUBSET Requests]
    /\ quiet \in [Backends -> NoTime..OpenSeconds]

\* how far each request is,
ProgressTyped ==
    /\ loop \in Requests \cup {Nobody}
    /\ stage \in [Requests -> Stages]
    /\ age \in [Requests -> 0..OverallTimeout]
    /\ call_age \in [Requests -> Nat]
    /\ result \in [Requests -> Results]

\* its candidates,
QueueTyped == queue \in [Requests -> Seq(Providers)]

\* its log,
Attempt == [provider : Providers, outcome : AttemptOutcomes]
LogTyped == log \in [Requests -> Seq(Attempt)]

\* and what it is allowed.
RetryTyped ==
    /\ is_retry \in [Requests -> BOOLEAN]
    /\ budget \in [Requests -> 0..MaxRounds]
TierTyped == tier \in [Requests -> Tiers]
BlockedTyped ==
    /\ blocked \in [Requests -> SUBSET Backends]
    /\ denied \in [Requests -> SUBSET Backends]

\* They are all of TypeOK.
LEMMA TypeParts ==
    TypeOK <=> /\ CircuitsTyped /\ ProgressTyped /\ QueueTyped /\ LogTyped
               /\ RetryTyped /\ TierTyped /\ BlockedTyped
BY DEF TypeOK, CircuitsTyped, ProgressTyped, QueueTyped, LogTyped, Attempt,
       RetryTyped, TierTyped, BlockedTyped

\* A request that calls a provider has that provider first in its queue.
CandidateHeld ==
    \A r \in Requests : stage[r] = "provider" => queue[r] # << >>

\* The candidates that are left after the first are providers, and so is it.
LEMMA QueueParts ==
    ASSUME QueueTyped, NEW r \in Requests, queue[r] # << >>
    PROVE  /\ Head(queue[r]) \in Providers
           /\ Tail(queue[r]) \in Seq(Providers)
BY HeadTailProperties DEF QueueTyped

\* A request that asks or has asked calls a backend of the registry.
LEMMA TargetIsBackend ==
    ASSUME QueueTyped, TierTyped, NEW r \in Requests,
           stage[r] \in {"ladder", "router"} \/ queue[r] # << >>
    PROVE  Target(r) \in Backends
<1>1. CASE stage[r] \in {"ladder", "router"}
  BY <1>1, EngineAssumption DEF Target, TierTyped
<1>2. CASE stage[r] \notin {"ladder", "router"}
  BY <1>2, QueueParts, EngineAssumption DEF Target
<1>3. QED  BY <1>1, <1>2

\* The circuit of a call that ends stays a circuit.
LEMMA AccountType ==
    ASSUME CircuitsTyped, NEW r \in Requests, Target(r) \in Backends,
           NEW after \in Circuit, NEW transient \in BOOLEAN,
           Account(r, after, transient)
    PROVE  CircuitsTyped'
BY CircuitAssumption DEF CircuitsTyped, Account, NoTime

\* So does that of a call that is admitted.
LEMMA AdmitType ==
    ASSUME CircuitsTyped, ProgressTyped, NEW r \in Requests,
           Target(r) \in Backends, NEW s \in Stages, Admit(r, s)
    PROVE  /\ CircuitsTyped'
           /\ loop' \in Requests \cup {Nobody}
           /\ stage' \in [Requests -> Stages]
           /\ call_age' \in [Requests -> Nat]
<1>1. circuits[Target(r)] \in Circuit
  BY DEF CircuitsTyped
<1>2. AllowRequest(circuits[Target(r)]) \in Circuit
  BY <1>1, CircuitTyped
<1>3. circuits' \in [Backends -> Circuit]
  BY <1>2 DEF CircuitsTyped, Admit
<1>4. window' \in [Backends -> SUBSET Requests]
  BY DEF CircuitsTyped, Admit
<1>5. QED  BY <1>3, <1>4 DEF CircuitsTyped, ProgressTyped, Admit

\* What the ends and the continuations of the steps do to the types.
LEMMA GoOnType ==
    ASSUME ProgressTyped, NEW r \in Requests, NEW s \in Stages, GoOn(r, s)
    PROVE  ProgressTyped'
BY DEF ProgressTyped, GoOn

LEMMA EndType ==
    ASSUME ProgressTyped, QueueTyped, NEW r \in Requests,
           NEW how \in Results, End(r, how)
    PROVE  ProgressTyped' /\ QueueTyped'
BY EngineAssumption DEF ProgressTyped, QueueTyped, End, Stages

LEMMA TierFailedType ==
    ASSUME ProgressTyped, QueueTyped, TierTyped, NEW r \in Requests,
           TierFailed(r)
    PROVE  ProgressTyped' /\ QueueTyped' /\ TierTyped'
<1>1. CASE tier[r] = "primary_router"
  BY <1>1, GoOnType
     DEF TierFailed, QueueTyped, TierTyped, Tiers, Stages
<1>2. CASE tier[r] # "primary_router"
  BY <1>2, EndType DEF TierFailed, TierTyped, Results
<1>3. QED  BY <1>1, <1>2

LEMMA LogType ==
    ASSUME QueueTyped, LogTyped, NEW r \in Requests, queue[r] # << >>,
           NEW outcome \in AttemptOutcomes, Log(r, outcome)
    PROVE  LogTyped'
<1>1. [provider |-> Head(queue[r]), outcome |-> outcome] \in Attempt
  BY QueueParts DEF Attempt
<1>2. Append(log[r], [provider |-> Head(queue[r]), outcome |-> outcome])
         \in Seq(Attempt)
  BY <1>1, AppendProperties DEF LogTyped
<1>3. QED  BY <1>2 DEF LogTyped, Log

LEMMA NextCandidateType ==
    ASSUME ProgressTyped, QueueTyped, LogTyped, NEW r \in Requests,
           queue[r] # << >>, NEW outcome \in AttemptOutcomes,
           NextCandidate(r, outcome)
    PROVE  ProgressTyped' /\ QueueTyped' /\ LogTyped'
<1>1. QueueTyped'
  BY QueueParts DEF NextCandidate, QueueTyped
<1>2. QED  BY <1>1, LogType, GoOnType DEF NextCandidate, Stages

LEMMA BlockType ==
    ASSUME BlockedTyped, NEW r \in Requests, Target(r) \in Backends,
           NEW auth \in BOOLEAN, Block(r, auth)
    PROVE  BlockedTyped'
BY DEF BlockedTyped, Block

\* The log of a cancelled call lists candidates that are providers.
LEMMA CancelledLogType ==
    ASSUME NEW attempts \in Seq(Attempt), NEW pending \in Seq(Providers)
    PROVE  CancelledLog(attempts, pending) \in Seq(Attempt)
<1> DEFINE cut == [i \in 1..Len(pending) |->
                      [provider |-> pending[i],
                       outcome |-> IF i = 1 THEN "cancelled"
                                   ELSE "skipped_deadline"]]
<1>1. \A i \in 1..Len(pending) : cut[i] \in Attempt
  BY ElementOfSeq DEF Attempt, AttemptOutcomes
<1>2. Len(pending) \in Nat
  BY LenProperties
<1>3. cut \in Seq(Attempt)
  BY <1>1, <1>2, IsASeq
<1>4. QED  BY <1>3, ConcatProperties DEF CancelledLog

\* A failure says of itself whether it is transient and whether it denies.
LEMMA FailureTyped ==
    ASSUME NEW failure \in Failures
    PROVE  failure.transient \in BOOLEAN /\ failure.auth \in BOOLEAN
<1>1. \/ \E status \in {400, 401, 403, 404, 429, 500},
            blames_model \in BOOLEAN :
           failure = [transient |-> BackendTransient(status, blames_model),
                      auth |-> status \in {401, 403}]
      \/ \E transient \in BOOLEAN :
           failure = [transient |-> transient, auth |-> FALSE]
  BY DEF Failures
<1>2. \A status \in Int, blames_model \in BOOLEAN :
         /\ BackendTransient(status, blames_model) \in BOOLEAN
         /\ (status \in {401, 403}) \in BOOLEAN
  BY DEF BackendTransient
<1>3. \E transient \in BOOLEAN, auth \in BOOLEAN :
         failure = [transient |-> transient, auth |-> auth]
  <2>1. CASE \E transient \in BOOLEAN :
                failure = [transient |-> transient, auth |-> FALSE]
    BY <2>1, Zenon
  <2>2. ASSUME NEW status \in {400, 401, 403, 404, 429, 500},
               NEW blames_model \in BOOLEAN,
               failure = [transient |-> BackendTransient(status, blames_model),
                          auth |-> status \in {401, 403}]
        PROVE  \E transient \in BOOLEAN, auth \in BOOLEAN :
                  failure = [transient |-> transient, auth |-> auth]
    <3>1. status \in Int
      BY <2>2
    <3>2. /\ BackendTransient(status, blames_model) \in BOOLEAN
          /\ (status \in {401, 403}) \in BOOLEAN
      BY <3>1, <1>2
    <3>3. QED  BY <2>2, <3>2, Zenon
  <2>3. QED  BY <1>1, <2>1, <2>2
<1>4. QED  BY <1>3

\* A step by which the awaited call of r ends.
LEMMA ReturnType ==
    ASSUME CircuitsTyped, QueueTyped, TierTyped, CandidateHeld,
           NEW r \in Awaiting, NEW after, NEW transient \in BOOLEAN,
           \/ after = RecordSuccess(circuits[Target(r)])
           \/ after = ReleaseProbe(circuits[Target(r)])
           \/ after = RecordFailure(circuits[Target(r)], transient)
           \/ after = ReleaseProbe(RecordFailure(circuits[Target(r)],
                                                 transient)),
           Account(r, after, transient)
    PROVE  CircuitsTyped' /\ Target(r) \in Backends
<1>1. Target(r) \in Backends
  BY TargetIsBackend DEF Awaiting, CandidateHeld
<1>2. circuits[Target(r)] \in Circuit
  BY <1>1 DEF CircuitsTyped
<1>3. RecordFailure(circuits[Target(r)], transient) \in Circuit
  BY <1>2, CircuitTyped
<1>4. after \in Circuit
  BY <1>2, <1>3, CircuitTyped
<1>5. QED  BY <1>1, <1>4, AccountType DEF Awaiting

\* The state before the first request.
LEMMA InitType == Init => TypeOK /\ CandidateHeld
<1>1. Closed \in Circuit
  BY CircuitAssumption DEF Closed, Circuit, CircuitState, NoTime
<1>2. << >> \in Seq(Providers) /\ << >> \in Seq(Attempt)
  BY EmptySeq
<1>3. QED
  BY <1>1, <1>2, EngineAssumption, CircuitAssumption
     DEF Init, TypeOK, CandidateHeld, NoTime, Stages, Results, Tiers, Attempt

\* Every step of a ladder keeps the types.
LEMMA LadderType ==
    ASSUME TypeOK, CandidateHeld, NEW r \in Requests,
           \/ Arrive(r) \/ AskRouter(r) \/ RouterCircuitOpen(r)
           \/ RouterAnswers(r) \/ RouterRetries(r) \/ RouterConcludes(r)
           \/ RouterInvalid(r) \/ RouterFails(r) \/ RouterTimesOut(r)
           \/ RouterBreaks(r)
    PROVE  TypeOK'
<1>t. /\ CircuitsTyped /\ ProgressTyped /\ QueueTyped /\ LogTyped
      /\ RetryTyped /\ TierTyped /\ BlockedTyped
  BY TypeParts
<1>k. SUFFICES /\ CircuitsTyped' /\ ProgressTyped' /\ QueueTyped' /\ LogTyped'
               /\ RetryTyped' /\ TierTyped' /\ BlockedTyped'
  BY TypeParts
     DEF TypeOK, CircuitsTyped, ProgressTyped, QueueTyped, LogTyped, Attempt,
         RetryTyped, TierTyped, BlockedTyped
<1>u. /\ UNCHANGED circuitVars => CircuitsTyped'
      /\ UNCHANGED queue => QueueTyped'
      /\ UNCHANGED log => LogTyped'
      /\ UNCHANGED <<is_retry, budget>> => RetryTyped'
      /\ UNCHANGED tier => TierTyped'
      /\ UNCHANGED <<blocked, denied>> => BlockedTyped'
  BY <1>t DEF circuitVars, CircuitsTyped, QueueTyped, LogTyped, RetryTyped,
              TierTyped, BlockedTyped
<1>1. CASE Arrive(r)
  <2>1. RetryTyped'
    BY <1>1, <1>t, EngineAssumption DEF Arrive, RetryTyped
  <2>2. QED  BY <1>1, <1>t, <1>u, <2>1, GoOnType DEF Arrive, Stages
<1>2. CASE AskRouter(r)
  <2>1. Target(r) \in Backends
    BY <1>2, <1>t, TargetIsBackend DEF AskRouter
  <2>2. CircuitsTyped' /\ ProgressTyped'
    BY <1>2, <1>t, <2>1, AdmitType DEF AskRouter, ProgressTyped, Stages
  <2>3. QED  BY <1>2, <1>u, <2>2 DEF AskRouter
<1>3. CASE RouterCircuitOpen(r)
  BY <1>3, <1>t, <1>u, TierFailedType DEF RouterCircuitOpen
<1>w. ASSUME stage[r] = "router" PROVE r \in Awaiting
  BY <1>w DEF Awaiting
<1>4. CASE RouterAnswers(r)
  <2>1. CircuitsTyped'
    BY <1>4, <1>t, <1>w, ReturnType DEF RouterAnswers
  <2>2. QueueTyped'
    BY <1>4, <1>t, EngineAssumption DEF RouterAnswers, QueueTyped
  <2>3. QED
    BY <1>4, <1>t, <1>u, <2>1, <2>2, GoOnType DEF RouterAnswers, Stages
<1>5. CASE RouterRetries(r)
  <2>1. CircuitsTyped'
    BY <1>5, <1>t, <1>w, ReturnType DEF RouterRetries
  <2>2. CASE budget[r] > 0
    <3>1. RetryTyped' /\ TierTyped'
      <4>1. /\ budget' = [budget EXCEPT ![r] = @ - 1]
            /\ tier' = [tier EXCEPT ![r] = "primary_router"]
            /\ is_retry' = is_retry
        BY <1>5, <2>2 DEF RouterRetries
      <4>2. budget[r] - 1 \in 0..MaxRounds
        BY <2>2, <1>t, EngineAssumption DEF RetryTyped
      <4>3. QED  BY <4>1, <4>2, <1>t DEF RetryTyped, TierTyped, Tiers
    <3>2. QED
      BY <1>5, <1>t, <1>u, <2>1, <2>2, <3>1, GoOnType
         DEF RouterRetries, Stages
  <2>3. CASE ~(budget[r] > 0)
    BY <1>5, <1>t, <1>u, <2>1, <2>3, EndType DEF RouterRetries, Results
  <2>4. QED  BY <2>2, <2>3
<1>6. CASE RouterConcludes(r)
  BY <1>6, <1>t, <1>u, <1>w, ReturnType, EndType DEF RouterConcludes, Results
<1>7. CASE RouterInvalid(r)
  BY <1>7, <1>t, <1>u, <1>w, ReturnType, TierFailedType DEF RouterInvalid
<1>8. CASE RouterFails(r)
  <2>1. PICK failure \in Failures :
           /\ Account(r, ReleaseProbe(RecordFailure(circuits[Target(r)],
                                                    failure.transient)),
                      failure.transient)
           /\ Block(r, failure.auth)
    BY <1>8 DEF RouterFails
  <2>2. CircuitsTyped' /\ Target(r) \in Backends
    BY <1>8, <1>t, <1>w, <2>1, FailureTyped, ReturnType DEF RouterFails
  <2>3. BlockedTyped'
    BY <1>t, <2>1, <2>2, FailureTyped, BlockType
  <2>4. QED
    BY <1>8, <1>t, <1>u, <2>2, <2>3, TierFailedType DEF RouterFails
<1>9. CASE RouterTimesOut(r)
  BY <1>9, <1>t, <1>u, <1>w, ReturnType, TierFailedType DEF RouterTimesOut
<1>10. CASE RouterBreaks(r)
  BY <1>10, <1>t, <1>u, <1>w, ReturnType, TierFailedType DEF RouterBreaks
<1>11. QED
  BY <1>1, <1>2, <1>3, <1>4, <1>5, <1>6, <1>7, <1>8, <1>9, <1>10

\* So does every step of a fallback.
LEMMA FallbackType ==
    ASSUME TypeOK, CandidateHeld, NEW r \in Requests,
           \/ CandidatesExhausted(r) \/ DeadlineAtCandidate(r)
           \/ SkipBlocked(r) \/ Dispatch(r) \/ ProviderCircuitOpen(r)
           \/ ProviderAnswers(r) \/ ProviderFails(r) \/ ProviderTimesOut(r)
           \/ ProviderDisabled(r) \/ ProviderBreaks(r) \/ Deadline(r)
    PROVE  TypeOK'
<1>t. /\ CircuitsTyped /\ ProgressTyped /\ QueueTyped /\ LogTyped
      /\ RetryTyped /\ TierTyped /\ BlockedTyped
  BY TypeParts
<1>k. SUFFICES /\ CircuitsTyped' /\ ProgressTyped' /\ QueueTyped' /\ LogTyped'
               /\ RetryTyped' /\ TierTyped' /\ BlockedTyped'
  BY TypeParts
     DEF TypeOK, CircuitsTyped, ProgressTyped, QueueTyped, LogTyped, Attempt,
         RetryTyped, TierTyped, BlockedTyped
<1>u. /\ UNCHANGED circuitVars => CircuitsTyped'
      /\ UNCHANGED queue => QueueTyped'
      /\ UNCHANGED log => LogTyped'
      /\ UNCHANGED <<is_retry, budget>> => RetryTyped'
      /\ UNCHANGED tier => TierTyped'
      /\ UNCHANGED <<blocked, denied>> => BlockedTyped'
  BY <1>t DEF circuitVars, CircuitsTyped, QueueTyped, LogTyped, RetryTyped,
              TierTyped, BlockedTyped
<1>1. CASE CandidatesExhausted(r)
  BY <1>1, <1>t, <1>u, EndType DEF CandidatesExhausted, Results
<1>2. CASE DeadlineAtCandidate(r)
  BY <1>2, <1>t, <1>u, EndType DEF DeadlineAtCandidate, Results
<1>3. CASE SkipBlocked(r)
  BY <1>3, <1>t, <1>u, NextCandidateType
     DEF SkipBlocked, AtCandidate, AttemptOutcomes
<1>4. CASE Dispatch(r)
  <2>1. Target(r) \in Backends
    BY <1>4, <1>t, TargetIsBackend DEF Dispatch, AtCandidate
  <2>2. CircuitsTyped' /\ ProgressTyped'
    BY <1>4, <1>t, <2>1, AdmitType DEF Dispatch, ProgressTyped, Stages
  <2>3. QED  BY <1>4, <1>u, <2>2 DEF Dispatch
<1>5. CASE ProviderCircuitOpen(r)
  BY <1>5, <1>t, <1>u, NextCandidateType
     DEF ProviderCircuitOpen, AtCandidate, AttemptOutcomes
<1>w. ASSUME stage[r] = "provider" PROVE r \in Awaiting /\ queue[r] # << >>
  BY <1>w DEF Awaiting, CandidateHeld
<1>6. CASE ProviderAnswers(r)
  <2>1. CircuitsTyped' /\ LogTyped'
    BY <1>6, <1>t, <1>w, ReturnType, LogType
       DEF ProviderAnswers, AttemptOutcomes
  <2>2. ProgressTyped' /\ QueueTyped'
    BY <1>6, <1>t, EndType DEF ProviderAnswers, Results
  <2>3. QED  BY <1>6, <1>u, <2>1, <2>2 DEF ProviderAnswers
<1>7. CASE ProviderFails(r)
  <2>1. PICK failure \in Failures :
           /\ Account(r, RecordFailure(circuits[Target(r)],
                                       failure.transient),
                      failure.transient)
           /\ Block(r, failure.auth)
    BY <1>7 DEF ProviderFails
  <2>2. CircuitsTyped' /\ Target(r) \in Backends
    BY <1>7, <1>t, <1>w, <2>1, FailureTyped, ReturnType DEF ProviderFails
  <2>3. BlockedTyped'
    BY <1>t, <2>1, <2>2, FailureTyped, BlockType
  <2>4. ProgressTyped' /\ QueueTyped' /\ LogTyped'
    BY <1>7, <1>t, <1>w, NextCandidateType DEF ProviderFails, AttemptOutcomes
  <2>5. QED  BY <1>7, <1>u, <2>2, <2>3, <2>4 DEF ProviderFails
<1>8. CASE ProviderTimesOut(r)
  <2>1. CircuitsTyped'
    BY <1>8, <1>t, <1>w, ReturnType DEF ProviderTimesOut
  <2>2. QED
    BY <1>8, <1>t, <1>u, <1>w, <2>1, NextCandidateType
       DEF ProviderTimesOut, AttemptOutcomes
<1>9. CASE ProviderDisabled(r)
  <2>1. CircuitsTyped'
    BY <1>9, <1>t, <1>w, ReturnType DEF ProviderDisabled
  <2>2. QED
    BY <1>9, <1>t, <1>u, <1>w, <2>1, NextCandidateType
       DEF ProviderDisabled, AttemptOutcomes
<1>10. CASE ProviderBreaks(r)
  <2>1. CircuitsTyped' /\ LogTyped'
    BY <1>10, <1>t, <1>w, ReturnType, LogType
       DEF ProviderBreaks, AttemptOutcomes
  <2>2. ProgressTyped' /\ QueueTyped'
    BY <1>10, <1>t, EndType DEF ProviderBreaks, Results
  <2>3. QED  BY <1>10, <1>u, <2>1, <2>2 DEF ProviderBreaks
<1>11. CASE Deadline(r)
  <2>1. CircuitsTyped'
    BY <1>11, <1>t, ReturnType DEF Deadline
  <2>2. LogTyped'
    BY <1>11, <1>t, CancelledLogType DEF Deadline, LogTyped, QueueTyped
  <2>3. ProgressTyped' /\ QueueTyped'
    BY <1>11, <1>t, EndType DEF Deadline, Results
  <2>4. QED  BY <1>11, <1>u, <2>1, <2>2, <2>3 DEF Deadline
<1>12. QED
  BY <1>1, <1>2, <1>3, <1>4, <1>5, <1>6, <1>7, <1>8, <1>9, <1>10, <1>11

-----------------------------------------------------------------------------
(* The three shapes of a step, as the circuits and the other requests see  *)
(* it.                                                                     *)

\* A step of the request r.
StepOf(r) == Arrive(r) \/ Run(r) \/ Return(r) \/ Expire(r)

\* No other request notices it.
OnlyTouches(r) ==
    \A q \in Requests \ {r} :
        /\ stage'[q] = stage[q] /\ queue'[q] = queue[q]
        /\ tier'[q] = tier[q] /\ log'[q] = log[q]
        /\ result'[q] = result[q] /\ call_age'[q] = call_age[q]

\* r runs on, without a call before or after.
Passes(r) ==
    /\ r \notin Awaiting
    /\ stage'[r] \notin {"router", "provider"}
    /\ UNCHANGED circuitVars

\* r is admitted to the backend it is about to call.
Admits(r) ==
    \E next_stage \in {"router", "provider"} :
        /\ \/ stage[r] = "ladder" /\ next_stage = "router"
           \/ /\ stage[r] = "candidates" /\ next_stage = "provider"
              /\ queue[r] # << >>
        /\ Admit(r, next_stage)
        /\ UNCHANGED <<tier, queue>>

\* The call of r ends, in one of the ways that the circuit knows.
Ends(r, after, transient) ==
    /\ Account(r, after, transient)
    /\ \/ after = RecordSuccess(circuits[Target(r)]) /\ ~transient
       \/ after = ReleaseProbe(circuits[Target(r)]) /\ ~transient
       \/ /\ after = RecordFailure(circuits[Target(r)], TRUE)
          /\ transient
          /\ call_age[r] = CallTimeout(r)
       \/ /\ after = RecordFailure(circuits[Target(r)], transient)
          /\ stage[r] = "provider"
       \/ /\ after = ReleaseProbe(RecordFailure(circuits[Target(r)],
                                                transient))
          /\ stage[r] = "router"

Completes(r) ==
    /\ r \in Awaiting
    /\ stage'[r] \notin {"router", "provider"}
    /\ \E transient \in BOOLEAN : \E after : Ends(r, after, transient)

\* GoOn, End and what they are part of touch one request.
LEMMA TierFailedShape ==
    ASSUME ProgressTyped, QueueTyped, TierTyped, NEW r \in Requests,
           TierFailed(r), UNCHANGED log
    PROVE  OnlyTouches(r) /\ stage'[r] \in {"ladder", "done"}
BY DEF TierFailed, GoOn, End, OnlyTouches, ProgressTyped, QueueTyped,
       TierTyped

LEMMA NextCandidateShape ==
    ASSUME ProgressTyped, QueueTyped, LogTyped, NEW r \in Requests,
           NEW outcome, NextCandidate(r, outcome), UNCHANGED tier
    PROVE  OnlyTouches(r) /\ stage'[r] = "candidates"
BY DEF NextCandidate, Log, GoOn, OnlyTouches, ProgressTyped, QueueTyped,
       LogTyped

LEMMA EndShape ==
    ASSUME ProgressTyped, QueueTyped, LogTyped, NEW r \in Requests, NEW how,
           End(r, how), UNCHANGED tier,
           UNCHANGED log \/ \E l : log' = [log EXCEPT ![r] = l]
    PROVE  OnlyTouches(r) /\ stage'[r] = "done"
BY DEF End, OnlyTouches, ProgressTyped, QueueTyped, LogTyped

LEMMA AdmitShape ==
    ASSUME ProgressTyped, NEW r \in Requests,
           NEW s, Admit(r, s), UNCHANGED <<tier, queue, log, result>>
    PROVE  OnlyTouches(r)
BY DEF Admit, OnlyTouches, ProgressTyped

\* A step of a ladder has one of the shapes.
LEMMA LadderShape ==
    ASSUME TypeOK, NEW r \in Requests,
           \/ Arrive(r) \/ AskRouter(r) \/ RouterCircuitOpen(r)
           \/ RouterAnswers(r) \/ RouterRetries(r) \/ RouterConcludes(r)
           \/ RouterInvalid(r) \/ RouterFails(r) \/ RouterTimesOut(r)
           \/ RouterBreaks(r)
    PROVE  OnlyTouches(r) /\ (Passes(r) \/ Admits(r) \/ Completes(r))
<1>t. /\ CircuitsTyped /\ ProgressTyped /\ QueueTyped /\ LogTyped
      /\ RetryTyped /\ TierTyped /\ BlockedTyped
  BY TypeParts
<1>1. CASE Arrive(r)
  <2>1. OnlyTouches(r) /\ stage'[r] = "ladder"
    BY <1>1, <1>t DEF Arrive, GoOn, OnlyTouches, ProgressTyped
  <2>2. QED  BY <1>1, <2>1 DEF Arrive, Passes, Awaiting
<1>2. CASE AskRouter(r)
  BY <1>2, <1>t, AdmitShape DEF AskRouter, Admits
<1>3. CASE RouterCircuitOpen(r)
  BY <1>3, <1>t, TierFailedShape DEF RouterCircuitOpen, Passes, Awaiting
<1>4. CASE RouterAnswers(r)
  <2>1. OnlyTouches(r) /\ stage'[r] = "candidates"
    BY <1>4, <1>t
       DEF RouterAnswers, GoOn, OnlyTouches, ProgressTyped, QueueTyped
  <2>2. QED  BY <1>4, <2>1 DEF RouterAnswers, Completes, Ends, Awaiting
<1>5. CASE RouterRetries(r)
  <2>1. OnlyTouches(r) /\ stage'[r] \in {"ladder", "done"}
    BY <1>5, <1>t
       DEF RouterRetries, GoOn, End, OnlyTouches, ProgressTyped, QueueTyped,
           TierTyped
  <2>2. QED  BY <1>5, <2>1 DEF RouterRetries, Completes, Ends, Awaiting
<1>6. CASE RouterConcludes(r)
  <2>1. OnlyTouches(r) /\ stage'[r] = "done"
    BY <1>6, <1>t, EndShape DEF RouterConcludes
  <2>2. QED  BY <1>6, <2>1 DEF RouterConcludes, Completes, Ends, Awaiting
<1>7. CASE RouterInvalid(r)
  <2>1. OnlyTouches(r) /\ stage'[r] \in {"ladder", "done"}
    BY <1>7, <1>t, TierFailedShape DEF RouterInvalid
  <2>2. QED  BY <1>7, <2>1 DEF RouterInvalid, Completes, Ends, Awaiting
<1>8. CASE RouterFails(r)
  <2>1. OnlyTouches(r) /\ stage'[r] \in {"ladder", "done"}
    BY <1>8, <1>t, TierFailedShape DEF RouterFails
  <2>2. PICK failure \in Failures :
           Account(r, ReleaseProbe(RecordFailure(circuits[Target(r)],
                                                 failure.transient)),
                   failure.transient)
    BY <1>8 DEF RouterFails
  <2>3. QED
    BY <1>8, <2>1, <2>2, FailureTyped DEF RouterFails, Completes, Ends, Awaiting
<1>9. CASE RouterTimesOut(r)
  <2>1. OnlyTouches(r) /\ stage'[r] \in {"ladder", "done"}
    BY <1>9, <1>t, TierFailedShape DEF RouterTimesOut
  <2>2. QED
    BY <1>9, <2>1 DEF RouterTimesOut, Completes, Ends, Awaiting, CallTimeout
<1>10. CASE RouterBreaks(r)
  <2>1. OnlyTouches(r) /\ stage'[r] \in {"ladder", "done"}
    BY <1>10, <1>t, TierFailedShape DEF RouterBreaks
  <2>2. QED  BY <1>10, <2>1 DEF RouterBreaks, Completes, Ends, Awaiting
<1>11. QED
  BY <1>1, <1>2, <1>3, <1>4, <1>5, <1>6, <1>7, <1>8, <1>9, <1>10

\* So has a step of a fallback.
LEMMA FallbackShape ==
    ASSUME TypeOK, NEW r \in Requests,
           \/ CandidatesExhausted(r) \/ DeadlineAtCandidate(r)
           \/ SkipBlocked(r) \/ Dispatch(r) \/ ProviderCircuitOpen(r)
           \/ ProviderAnswers(r) \/ ProviderFails(r) \/ ProviderTimesOut(r)
           \/ ProviderDisabled(r) \/ ProviderBreaks(r) \/ Deadline(r)
    PROVE  OnlyTouches(r) /\ (Passes(r) \/ Admits(r) \/ Completes(r))
<1>t. /\ CircuitsTyped /\ ProgressTyped /\ QueueTyped /\ LogTyped
      /\ RetryTyped /\ TierTyped /\ BlockedTyped
  BY TypeParts
<1>1. CASE CandidatesExhausted(r)
  BY <1>1, <1>t, EndShape DEF CandidatesExhausted, Passes, Awaiting
<1>2. CASE DeadlineAtCandidate(r)
  BY <1>2, <1>t, EndShape DEF DeadlineAtCandidate, Passes, Awaiting
<1>3. CASE SkipBlocked(r)
  BY <1>3, <1>t, NextCandidateShape
     DEF SkipBlocked, AtCandidate, Passes, Awaiting
<1>4. CASE Dispatch(r)
  BY <1>4, <1>t, AdmitShape DEF Dispatch, AtCandidate, Admits
<1>5. CASE ProviderCircuitOpen(r)
  BY <1>5, <1>t, NextCandidateShape
     DEF ProviderCircuitOpen, AtCandidate, Passes, Awaiting
<1>6. CASE ProviderAnswers(r)
  <2>1. OnlyTouches(r) /\ stage'[r] = "done"
    BY <1>6, <1>t, EndShape DEF ProviderAnswers, Log
  <2>2. QED  BY <1>6, <2>1 DEF ProviderAnswers, Completes, Ends, Awaiting
<1>7. CASE ProviderFails(r)
  <2>1. OnlyTouches(r) /\ stage'[r] = "candidates"
    BY <1>7, <1>t, NextCandidateShape DEF ProviderFails
  <2>2. PICK failure \in Failures :
           Account(r, RecordFailure(circuits[Target(r)], failure.transient),
                   failure.transient)
    BY <1>7 DEF ProviderFails
  <2>3. QED
    BY <1>7, <2>1, <2>2, FailureTyped DEF ProviderFails, Completes, Ends, Awaiting
<1>8. CASE ProviderTimesOut(r)
  <2>1. OnlyTouches(r) /\ stage'[r] = "candidates"
    BY <1>8, <1>t, NextCandidateShape DEF ProviderTimesOut
  <2>2. QED
    BY <1>8, <2>1 DEF ProviderTimesOut, Completes, Ends, Awaiting, CallTimeout
<1>9. CASE ProviderDisabled(r)
  <2>1. OnlyTouches(r) /\ stage'[r] = "candidates"
    BY <1>9, <1>t, NextCandidateShape DEF ProviderDisabled
  <2>2. QED  BY <1>9, <2>1 DEF ProviderDisabled, Completes, Ends, Awaiting
<1>10. CASE ProviderBreaks(r)
  <2>1. OnlyTouches(r) /\ stage'[r] = "done"
    BY <1>10, <1>t, EndShape DEF ProviderBreaks, Log
  <2>2. QED  BY <1>10, <2>1 DEF ProviderBreaks, Completes, Ends, Awaiting
<1>11. CASE Deadline(r)
  <2>1. OnlyTouches(r) /\ stage'[r] = "done"
    BY <1>11, <1>t, EndShape DEF Deadline
  <2>2. QED  BY <1>11, <2>1 DEF Deadline, Completes, Ends
<1>12. QED
  BY <1>1, <1>2, <1>3, <1>4, <1>5, <1>6, <1>7, <1>8, <1>9, <1>10, <1>11

\* So has every step of a request.
LEMMA StepShape ==
    ASSUME TypeOK, NEW r \in Requests, StepOf(r)
    PROVE  OnlyTouches(r) /\ (Passes(r) \/ Admits(r) \/ Completes(r))
BY LadderShape, FallbackShape DEF StepOf, Run, Return, Expire

-----------------------------------------------------------------------------
(* Type correctness, step by step.                                         *)

\* The clock stops at the deadlines.
LEMMA TickType ==
    ASSUME TypeOK, Tick
    PROVE  TypeOK'
<1>1. CircuitsTyped'
  <2>1. \A b \in Backends : Age(circuits[b]) \in Circuit
    BY CircuitTyped DEF TypeOK
  <2>2. quiet' \in [Backends -> NoTime..OpenSeconds]
    BY CircuitAssumption DEF Tick, TypeOK, NoTime
  <2>3. QED  BY <2>1, <2>2 DEF Tick, TypeOK, CircuitsTyped
<1>2. age' \in [Requests -> 0..OverallTimeout]
  BY EngineAssumption DEF Tick, TypeOK
<1>3. call_age' \in [Requests -> Nat]
  BY DEF Tick, TypeOK
<1>4. QED  BY <1>1, <1>2, <1>3 DEF Tick, TypeOK, CircuitsTyped

\* Every step keeps the types, and none calls a provider that is not there.
LEMMA StepType ==
    TypeOK /\ CandidateHeld /\ [Next]_vars => TypeOK' /\ CandidateHeld'
<1> SUFFICES ASSUME TypeOK, CandidateHeld, [Next]_vars
             PROVE  TypeOK' /\ CandidateHeld'
  OBVIOUS
<1>1. ASSUME NEW r \in Requests, StepOf(r) PROVE TypeOK' /\ CandidateHeld'
  <2>1. TypeOK'
    BY <1>1, LadderType, FallbackType DEF StepOf, Run, Return, Expire
  <2>2. stage'[r] = "provider" => queue'[r] # << >>
    <3>1. CASE Passes(r) \/ Completes(r)
      BY <3>1 DEF Passes, Completes
    <3>2. CASE Admits(r)
      BY <3>2 DEF Admits, Admit, TypeOK
    <3>3. QED  BY <1>1, <3>1, <3>2, StepShape
  <2>3. QED  BY <1>1, <2>1, <2>2, StepShape DEF OnlyTouches, CandidateHeld
<1>2. CASE Tick
  BY <1>2, TickType DEF Tick, CandidateHeld
<1>3. CASE UNCHANGED vars
  BY <1>3 DEF vars, circuitVars, TypeOK, CandidateHeld
<1>4. QED  BY <1>1, <1>2, <1>3 DEF Next, StepOf

\* The circuits, the requests and their logs have their types: no age passes
\* the deadline, and no step takes a candidate from an empty queue.
THEOREM TypeCorrect == Spec => []TypeOK
<1>1. QED  BY InitType, StepType, PTL DEF Spec


-----------------------------------------------------------------------------
(* What a request may not do.                                              *)

\* What a request remembers of the backends that denied it.
DenialsKept == blocked = denied

\* No step tells the two apart.
LEMMA StepDenials ==
    ASSUME DenialsKept, [Next]_vars
    PROVE  DenialsKept'
<1>1. ASSUME NEW r, NEW auth, Block(r, auth) PROVE DenialsKept'
  BY <1>1 DEF DenialsKept, Block
<1>2. UNCHANGED <<blocked, denied>> => DenialsKept'
  BY DEF DenialsKept
<1>3. ASSUME NEW r \in Requests, StepOf(r) PROVE DenialsKept'
  <2>1. Arrive(r) \/ Run(r) => DenialsKept'
    BY <1>2
       DEF Arrive, Run, AskRouter, RouterCircuitOpen, CandidatesExhausted,
           DeadlineAtCandidate, SkipBlocked, Dispatch, ProviderCircuitOpen
  <2>2. Return(r) => DenialsKept'
    BY <1>1, <1>2
       DEF Return, RouterAnswers, RouterRetries, RouterConcludes,
           RouterInvalid, RouterFails, RouterBreaks, ProviderAnswers,
           ProviderFails, ProviderDisabled, ProviderBreaks
  <2>3. Expire(r) => DenialsKept'
    BY <1>2 DEF Expire, RouterTimesOut, ProviderTimesOut, Deadline
  <2>4. QED  BY <1>3, <2>1, <2>2, <2>3 DEF StepOf
<1>4. Tick \/ UNCHANGED vars => DenialsKept'
  BY <1>2 DEF Tick, vars
<1>5. QED  BY <1>3, <1>4 DEF Next, StepOf

\* A backend that answered a request 401 or 403, as a router or as a
\* provider, gets no task call of it any more.
THEOREM DeniedNeverDispatched == Spec => DeniedNotDispatched
<1>1. Init => DenialsKept
  BY DEF Init, DenialsKept
<1>2. ASSUME TypeOK, DenialsKept, [Next]_vars
      PROVE  [\A r \in Requests :
                 stage[r] = "candidates" /\ stage'[r] = "provider"
                 => BackendOf[Head(queue[r])] \notin denied[r]]_vars
  <2>1. ASSUME NEW r \in Requests, stage[r] = "candidates",
               stage'[r] = "provider", Next
        PROVE  BackendOf[Head(queue[r])] \notin denied[r]
    <3>1. ~Tick
      BY <2>1 DEF Tick
    <3>2. StepOf(r)
      BY <1>2, <2>1, <3>1, StepShape DEF Next, StepOf, OnlyTouches
    <3>3. Run(r)
      BY <2>1, <3>2
         DEF StepOf, Arrive, Return, Expire, RouterAnswers, RouterRetries,
             RouterConcludes, RouterInvalid, RouterFails, RouterBreaks,
             ProviderAnswers, ProviderFails, ProviderDisabled,
             ProviderBreaks, RouterTimesOut, ProviderTimesOut, Deadline,
             Awaiting
    <3>4. stage \in [Requests -> Stages]
      BY <1>2 DEF TypeOK
    <3>5. Dispatch(r)
      BY <2>1, <3>3, <3>4
         DEF Run, AskRouter, RouterCircuitOpen, CandidatesExhausted,
             DeadlineAtCandidate, SkipBlocked, ProviderCircuitOpen, End,
             NextCandidate, GoOn
    <3>6. QED  BY <1>2, <3>5 DEF Dispatch, DenialsKept
  <2>2. QED  BY <1>2, <2>1
<1>3. Spec => []DenialsKept
  BY <1>1, StepDenials, PTL DEF Spec
<1>4. QED  BY <1>2, <1>3, TypeCorrect, PTL DEF Spec, DeniedNotDispatched

-----------------------------------------------------------------------------
(* The probe slots.                                                        *)

\* A probe of a half-open window is an awaited call to that backend.
ProbesAwaited ==
    \A b \in Backends : \A r \in window[b] : r \in Awaiting /\ Target(r) = b

\* The slots of each backend's window are those of its probes.
SlotsKept == \A b \in Backends : SlotsHeld(circuits[b], window[b])

SlotsInv == TypeOK /\ CandidateHeld /\ ProbesAwaited /\ SlotsKept

\* A request that is not touched still awaits what it awaited.
LEMMA OthersAwait ==
    ASSUME NEW r \in Requests, OnlyTouches(r), NEW q \in Requests, q # r
    PROVE  /\ Target(q)' = Target(q)
           /\ q \in Awaiting' <=> q \in Awaiting
BY DEF OnlyTouches, Target, Awaiting

\* What an admission does to circuits and windows,
LEMMA AdmitEffect ==
    ASSUME TypeOK, NEW r \in Requests, Admits(r)
    PROVE  /\ r \notin Awaiting /\ r \in Awaiting'
           /\ Target(r) \in Backends /\ Target(r)' = Target(r)
           /\ Allows(circuits[Target(r)])
           /\ circuits' = [circuits EXCEPT ![Target(r)] =
                              AllowRequest(circuits[Target(r)])]
           /\ window' = [window EXCEPT ![Target(r)] =
                            ProbesAdmitted(circuits[Target(r)],
                                           window[Target(r)], r)]
           /\ stage' = [stage EXCEPT ![r] = stage'[r]]
           /\ stage[r] = "ladder" => stage'[r] = "router"
           /\ stage[r] # "ladder" => stage'[r] = "provider"
           /\ call_age' = [call_age EXCEPT ![r] = 0]
           /\ UNCHANGED <<quiet, tier, queue>>
<1>1. PICK next_stage \in {"router", "provider"} :
         /\ \/ stage[r] = "ladder" /\ next_stage = "router"
            \/ /\ stage[r] = "candidates" /\ next_stage = "provider"
               /\ queue[r] # << >>
         /\ Admit(r, next_stage)
         /\ UNCHANGED <<tier, queue>>
  BY DEF Admits
<1>2. QueueTyped /\ TierTyped
  BY TypeParts
<1>3. Target(r) \in Backends
  BY <1>1, <1>2, TargetIsBackend
<1>4. stage' = [stage EXCEPT ![r] = next_stage] /\ stage'[r] = next_stage
  BY <1>1 DEF Admit, TypeOK
<1>5. r \notin Awaiting /\ r \in Awaiting' /\ Target(r)' = Target(r)
  BY <1>1, <1>4 DEF Awaiting, Target
<1>6. circuits' = [circuits EXCEPT ![Target(r)] =
                      AllowRequest(circuits[Target(r)])]
  BY <1>1 DEF Admit
<1>7. circuits'[Target(r)] = AllowRequest(circuits[Target(r)])
  BY <1>3, <1>6 DEF TypeOK
<1>8. window' = [window EXCEPT ![Target(r)] =
                    ProbesAdmitted(circuits[Target(r)], window[Target(r)], r)]
  BY <1>1, <1>7 DEF Admit, ProbesAdmitted
<1>9. QED  BY <1>1, <1>3, <1>4, <1>5, <1>6, <1>8 DEF Admit

\* and what the end of a call does.
LEMMA EndsEffect ==
    ASSUME TypeOK, CandidateHeld, NEW r \in Requests, Completes(r)
    PROVE  /\ r \in Awaiting /\ r \notin Awaiting'
           /\ Target(r) \in Backends
           /\ \E transient \in BOOLEAN : \E after : Ends(r, after, transient)
           /\ \E after :
                 /\ \/ after = RecordSuccess(circuits[Target(r)])
                    \/ after = ReleaseProbe(circuits[Target(r)])
                    \/ \E transient \in BOOLEAN :
                          after = RecordFailure(circuits[Target(r)],
                                                transient)
                 /\ circuits' = [circuits EXCEPT ![Target(r)] = after]
                 /\ window' = [window EXCEPT ![Target(r)] =
                                  ProbesLeft(after, window[Target(r)], r)]
<1>1. PICK transient \in BOOLEAN : \E after : Ends(r, after, transient)
  BY DEF Completes
<1>2. PICK after : Ends(r, after, transient)
  BY <1>1
<1>3. QueueTyped /\ TierTyped
  BY TypeParts
<1>4. r \in Awaiting /\ r \notin Awaiting'
  BY DEF Completes, Awaiting
<1>5. Target(r) \in Backends
  BY <1>3, <1>4, TargetIsBackend DEF Awaiting, CandidateHeld
<1>6. circuits[Target(r)] \in Circuit
  BY <1>5 DEF TypeOK
<1>7. \/ after = RecordSuccess(circuits[Target(r)])
      \/ after = ReleaseProbe(circuits[Target(r)])
      \/ \E t \in BOOLEAN : after = RecordFailure(circuits[Target(r)], t)
  BY <1>2, <1>6, FailureEndsWindow DEF Ends
<1>8. /\ circuits' = [circuits EXCEPT ![Target(r)] = after]
      /\ window' = [window EXCEPT ![Target(r)] =
                       ProbesLeft(after, window[Target(r)], r)]
  BY <1>2 DEF Ends, Account, ProbesLeft
<1>9. QED  BY <1>1, <1>4, <1>5, <1>7, <1>8

\* A step keeps every probe awaited, and a slot for no one else.
LEMMA StepSlots == SlotsInv /\ [Next]_vars => SlotsInv'
<1> SUFFICES ASSUME SlotsInv, [Next]_vars PROVE ProbesAwaited' /\ SlotsKept'
  BY StepType DEF SlotsInv
<1> USE DEF SlotsInv
<1>1. ASSUME NEW r \in Requests, StepOf(r) PROVE ProbesAwaited' /\ SlotsKept'
  <2>o. OnlyTouches(r)
    BY <1>1, StepShape
  <2>t. /\ \A b \in Backends : window[b] \subseteq Requests
        /\ window \in [Backends -> SUBSET Requests]
        /\ circuits \in [Backends -> Circuit]
    BY DEF TypeOK
  <2>1. CASE Passes(r)
    <3>1. \A b \in Backends : r \notin window[b]
      BY <2>1 DEF Passes, ProbesAwaited
    <3>2. ProbesAwaited'
      BY <2>o, <2>t, <2>1, <3>1, OthersAwait
         DEF Passes, circuitVars, ProbesAwaited
    <3>3. QED  BY <2>1, <3>2 DEF Passes, circuitVars, SlotsKept
  <2>2. CASE Admits(r)
    <3> DEFINE b0 == Target(r)
    <3>1. \A b \in Backends : r \notin window[b]
      BY <2>2, AdmitEffect DEF ProbesAwaited
    <3>2. window'[b0] \subseteq window[b0] \cup {r}
      BY <2>2, <2>t, AdmitEffect DEF ProbesAdmitted
    <3>3. \A b \in Backends \ {b0} :
             window'[b] = window[b] /\ circuits'[b] = circuits[b]
      BY <2>2, <2>t, AdmitEffect
    <3>4. ProbesAwaited'
      <4>1. ASSUME NEW b \in Backends, NEW q \in window'[b]
            PROVE  q \in Awaiting' /\ Target(q)' = b
        <5>1. CASE q = r
          BY <4>1, <5>1, <2>2, <3>1, <3>3, AdmitEffect
        <5>2. CASE q # r
          <6>1. q \in window[b]
            BY <4>1, <5>2, <3>2, <3>3
          <6>2. QED
            BY <6>1, <5>2, <2>o, <2>t, OthersAwait DEF ProbesAwaited
        <5>3. QED  BY <5>1, <5>2
      <4>2. QED  BY <4>1 DEF ProbesAwaited
    <3>5. SlotsHeld(circuits'[b0], window'[b0])
      <4>1. SlotsHeld(AllowRequest(circuits[b0]),
                      ProbesAdmitted(circuits[b0], window[b0], r))
        BY <2>2, <2>t, <3>1, AdmitEffect, AdmissionSlots DEF SlotsKept
      <4>2. QED  BY <4>1, <2>2, <2>t, AdmitEffect
    <3>6. QED  BY <3>3, <3>4, <3>5 DEF SlotsKept
  <2>3. CASE Completes(r)
    <3> DEFINE b0 == Target(r)
    <3>1. PICK after :
             /\ \/ after = RecordSuccess(circuits[b0])
                \/ after = ReleaseProbe(circuits[b0])
                \/ \E transient \in BOOLEAN :
                      after = RecordFailure(circuits[b0], transient)
             /\ circuits' = [circuits EXCEPT ![b0] = after]
             /\ window' = [window EXCEPT ![b0] =
                              ProbesLeft(after, window[b0], r)]
      BY <2>3, EndsEffect
    <3>2. b0 \in Backends
      BY <2>3, EndsEffect
    <3>3. window'[b0] \subseteq window[b0] \ {r}
      BY <2>t, <3>1, <3>2 DEF ProbesLeft
    <3>4. \A b \in Backends \ {b0} :
             window'[b] = window[b] /\ circuits'[b] = circuits[b]
      BY <2>t, <3>1
    <3>5. ProbesAwaited'
      <4>1. ASSUME NEW b \in Backends, NEW q \in window'[b]
            PROVE  q \in Awaiting' /\ Target(q)' = b
        <5>1. q \in window[b] /\ q # r
          BY <4>1, <3>3, <3>4 DEF ProbesAwaited
        <5>2. QED  BY <5>1, <2>o, <2>t, OthersAwait DEF ProbesAwaited
      <4>2. QED  BY <4>1 DEF ProbesAwaited
    <3>6. SlotsHeld(circuits'[b0], window'[b0])
      <4>1. SlotsHeld(after, ProbesLeft(after, window[b0], r))
        BY <2>t, <3>1, <3>2, CompletionSlots DEF SlotsKept
      <4>2. QED  BY <4>1, <2>t, <3>1, <3>2
    <3>7. QED  BY <3>4, <3>5, <3>6 DEF SlotsKept
  <2>4. QED  BY <1>1, <2>1, <2>2, <2>3, StepShape
<1>2. CASE Tick
  <2>1. UNCHANGED <<stage, tier, queue, window>>
    BY <1>2 DEF Tick
  <2>2. ProbesAwaited'
    BY <2>1 DEF ProbesAwaited, Awaiting, Target
  <2>3. \A b \in Backends : circuits[b] \in Circuit /\ circuits'[b] = Age(circuits[b])
    BY <1>2 DEF Tick, TypeOK
  <2>4. QED  BY <2>1, <2>2, <2>3, AgeSlots DEF SlotsKept, SlotsHeld
<1>3. CASE UNCHANGED vars
  BY <1>3 DEF vars, circuitVars, ProbesAwaited, SlotsKept, Awaiting, Target
<1>4. QED  BY <1>1, <1>2, <1>3 DEF Next, StepOf

\* The slots in use on a backend are never more than the awaited calls that
\* hold them.
THEOREM SlotsAwaited == Spec => []SlotsInv
<1>1. Init => SlotsInv
  <2>1. ASSUME Init PROVE SlotsKept
    BY <2>1, FS_EmptySet DEF Init, SlotsKept, SlotsHeld, Closed
  <2>2. QED  BY <2>1, InitType DEF Init, SlotsInv, ProbesAwaited
<1>2. QED  BY <1>1, StepSlots, PTL DEF Spec

\* When no request is under way, every slot of every circuit is free.
THEOREM SlotsComeBack == Spec => []QuiescentCircuits
<1>1. SlotsInv => QuiescentCircuits
  <2>1. ASSUME SlotsInv, \A r \in Requests : stage[r] \in {"new", "done"},
               NEW b \in Backends
        PROVE  circuits[b].half_open_inflight = 0
    <3>1. window[b] = {}
      BY <2>1 DEF SlotsInv, ProbesAwaited, Awaiting, TypeOK
    <3>2. circuits[b] \in Circuit /\ SlotsHeld(circuits[b], {})
      BY <2>1, <3>1 DEF SlotsInv, SlotsKept, TypeOK
    <3>3. QED  BY <3>2, NoProbesNoSlots
  <2>2. QED  BY <2>1 DEF QuiescentCircuits
<1>2. QED  BY <1>1, SlotsAwaited, PTL

-----------------------------------------------------------------------------
(* The calls of all requests to one backend are calls of CircuitBreaker.   *)

\* What CircuitBreaker's `age` and `window` stand for.
CallAge(b) ==
    [call \in Requests \X {"router", "provider"} |->
        IF stage[call[1]] = call[2] /\ Target(call[1]) = b
        THEN call_age[call[1]] ELSE NoTime]

Probes(b) == {<<r, stage[r]>> : r \in window[b]}

\* The circuit's operators mean there what they mean here.
LEMMA SharedMethods ==
    ASSUME NEW b, NEW c
    PROVE  /\ Shared(b)!Closed = Closed
           /\ Shared(b)!NoTime = NoTime
           /\ Shared(b)!Allows(c) <=> Allows(c)
           /\ Shared(b)!AllowRequest(c) = AllowRequest(c)
           /\ Shared(b)!RecordSuccess(c) = RecordSuccess(c)
           /\ Shared(b)!ReleaseProbe(c) = ReleaseProbe(c)
           /\ Shared(b)!Age(c) = Age(c)
<1>1. /\ Shared(b)!Closed = Closed
      /\ Shared(b)!NoTime = NoTime
  BY DEF Shared!Closed, Closed, Shared!NoTime, NoTime
<1>2. Shared(b)!EnterWindow(c) = EnterWindow(c)
  BY DEF Shared!EnterWindow, EnterWindow, Shared!Cooling, Cooling
<1>3. Shared(b)!Allows(c) <=> Allows(c)
  BY <1>2 DEF Shared!Allows, Allows
<1>4. Shared(b)!AllowRequest(c) = AllowRequest(c)
  BY <1>2, <1>3 DEF Shared!AllowRequest, AllowRequest
<1>5. Shared(b)!RecordSuccess(c) = RecordSuccess(c)
  BY <1>1 DEF Shared!RecordSuccess, RecordSuccess
<1>6. Shared(b)!ReleaseProbe(c) = ReleaseProbe(c)
  BY DEF Shared!ReleaseProbe, ReleaseProbe
<1>7. Shared(b)!Age(c) = Age(c)
  BY DEF Shared!Age, Age
<1>8. QED  BY <1>1, <1>3, <1>4, <1>5, <1>6, <1>7

LEMMA SharedFailure ==
    ASSUME NEW b, NEW c, NEW transient
    PROVE  Shared(b)!RecordFailure(c, transient)
              = RecordFailure(c, transient)
BY SharedMethods DEF Shared!RecordFailure, RecordFailure, Shared!Open, Open

\* The calls of CircuitBreaker are the pairs of a request and a stage.
LEMMA SharedCalls ==
    ASSUME NEW b
    PROVE  Shared(b)!Calls = Requests \X {"router", "provider"}
BY DEF Shared!Calls

\* A step by which nothing changes for b is none of CircuitBreaker's.
LEMMA SharedStutters ==
    ASSUME NEW b, circuits'[b] = circuits[b], CallAge(b)' = CallAge(b),
           Probes(b)' = Probes(b), quiet'[b] = quiet[b]
    PROVE  [Shared(b)!Next]_(Shared(b)!vars)
BY DEF Shared!vars, CallAge, Probes

\* A request that is not in a call of b, before and after the step, leaves
\* the calls and the probes of b alone.
LEMMA UntouchedCalls ==
    ASSUME SlotsInv, NEW r \in Requests, OnlyTouches(r), NEW b \in Backends,
           ~(r \in Awaiting /\ Target(r) = b),
           ~(r \in Awaiting' /\ Target(r)' = b), window'[b] = window[b]
    PROVE  CallAge(b)' = CallAge(b) /\ Probes(b)' = Probes(b)
<1>1. ASSUME NEW q \in Requests, NEW s \in {"router", "provider"}
      PROVE  /\ (stage[q] = s /\ Target(q) = b)'
                   <=> (stage[q] = s /\ Target(q) = b)
             /\ (stage[q] = s /\ Target(q) = b) => call_age'[q] = call_age[q]
  <2>1. CASE q = r
    BY <2>1 DEF Awaiting
  <2>2. CASE q # r
    BY <2>2, OthersAwait DEF OnlyTouches
  <2>3. QED  BY <2>1, <2>2
<1>2. CallAge(b)' = CallAge(b)
  BY <1>1 DEF CallAge
<1>3. \A q \in window[b] : q \in Requests /\ q # r
  BY DEF SlotsInv, ProbesAwaited, TypeOK
<1>4. \A q \in window[b] : stage'[q] = stage[q]
  BY <1>3 DEF OnlyTouches
<1>5. Probes(b)' = Probes(b)
  BY <1>4 DEF Probes
<1>6. QED  BY <1>2, <1>5

\* An admission is an admission there.
LEMMA AdmitsShared ==
    ASSUME SlotsInv, NEW r \in Requests, OnlyTouches(r), Admits(r),
           NEW b \in Backends
    PROVE  [Shared(b)!Next]_(Shared(b)!vars)
<1>t. /\ TypeOK /\ window \in [Backends -> SUBSET Requests]
      /\ circuits \in [Backends -> Circuit]
  BY DEF SlotsInv, TypeOK
<1>1. CASE b # Target(r)
  <2>1. window'[b] = window[b] /\ circuits'[b] = circuits[b]
        /\ quiet'[b] = quiet[b]
    BY <1>1, <1>t, AdmitEffect
  <2>2. QED
    BY <1>1, <1>t, <2>1, AdmitEffect, UntouchedCalls, SharedStutters
<1>2. CASE b = Target(r)
  <2>n. PICK s \in {"router", "provider"} : stage'[r] = s
    BY <1>t, AdmitEffect DEF TypeOK
  <2> DEFINE call == <<r, s>>
  <2>1. /\ r \notin Awaiting /\ stage'[r] = s
        /\ call_age'[r] = 0 /\ Target(r)' = b
    BY <1>2, <1>t, <2>n, AdmitEffect DEF TypeOK
  <2>2. call \in Requests \X {"router", "provider"}
    BY <2>1
  <2>3. CallAge(b)[call] = NoTime
    BY <2>1, <2>2 DEF CallAge, Awaiting
  <2>4. CallAge(b)' = [CallAge(b) EXCEPT ![call] = 0]
    <3>1. ASSUME NEW q \in Requests, NEW t \in {"router", "provider"}
          PROVE  (CallAge(b)[<<q, t>>])' =
                    IF <<q, t>> = call THEN 0 ELSE CallAge(b)[<<q, t>>]
      <4>1. CASE q = r
        BY <2>1, <4>1 DEF CallAge, Awaiting
      <4>2. CASE q # r
        BY <4>2, OthersAwait DEF CallAge, OnlyTouches
      <4>3. QED  BY <4>1, <4>2
    <3>2. ASSUME NEW pair \in Requests \X {"router", "provider"}
          PROVE  (CallAge(b)[pair])' =
                    IF pair = call THEN 0 ELSE CallAge(b)[pair]
      <4>1. PICK q \in Requests, t \in {"router", "provider"} :
               pair = <<q, t>>
        OBVIOUS
      <4>2. QED  BY <4>1, <3>1
    <3>3. QED  BY <3>2 DEF CallAge
  <2>5. Probes(b)' = IF circuits'[b].state # "HALF_OPEN" THEN {}
                     ELSE IF circuits[b].state = "HALF_OPEN"
                          THEN Probes(b) \cup {call} ELSE {call}
    <3>1. window'[b] = IF circuits'[b].state # "HALF_OPEN" THEN {}
                       ELSE IF circuits[b].state = "HALF_OPEN"
                            THEN window[b] \cup {r} ELSE {r}
      BY <1>2, <1>t, AdmitEffect DEF ProbesAdmitted
    <3>2. \A q \in window[b] : q \in Requests /\ q # r
      BY <2>1, <1>t DEF SlotsInv, ProbesAwaited
    <3>3. \A q \in window[b] : stage'[q] = stage[q]
      BY <3>2 DEF OnlyTouches
    <3>4. QED  BY <2>n, <3>1, <3>3 DEF Probes
  <2>6. /\ Allows(circuits[b]) /\ circuits'[b] = AllowRequest(circuits[b])
        /\ quiet'[b] = quiet[b]
    BY <1>2, <1>t, AdmitEffect
  <2>7. Shared(b)!Admit(call)
    BY <2>3, <2>4, <2>5, <2>6, SharedMethods
       DEF Shared!Admit, CallAge, Probes
  <2>8. QED  BY <2>2, <2>7, SharedCalls DEF Shared!Next
<1>3. QED  BY <1>1, <1>2

\* The end of a call is one of the ends there.
LEMMA CompletesShared ==
    ASSUME SlotsInv, NEW r \in Requests, OnlyTouches(r), Completes(r),
           NEW b \in Backends
    PROVE  [Shared(b)!Next]_(Shared(b)!vars)
<1>t. /\ TypeOK /\ CandidateHeld /\ window \in [Backends -> SUBSET Requests]
      /\ circuits \in [Backends -> Circuit]
      /\ quiet \in [Backends -> NoTime..OpenSeconds]
  BY DEF SlotsInv, TypeOK
<1>a. PICK transient \in BOOLEAN : \E after : Ends(r, after, transient)
  BY DEF Completes
<1>b. PICK after : Ends(r, after, transient)
  BY <1>a
<1>c. /\ r \in Awaiting /\ r \notin Awaiting' /\ Target(r) \in Backends
  BY <1>t, EndsEffect
<1>1. CASE b # Target(r)
  <2>1. window'[b] = window[b] /\ circuits'[b] = circuits[b]
        /\ quiet'[b] = quiet[b]
    BY <1>1, <1>t, <1>b DEF Ends, Account
  <2>2. QED  BY <1>1, <1>c, <2>1, UntouchedCalls, SharedStutters
<1>2. CASE b = Target(r)
  <2> DEFINE call == <<r, stage[r]>>
  <2>1. call \in Requests \X {"router", "provider"}
    BY <1>c DEF Awaiting
  <2>2. CallAge(b)[call] = call_age[r] /\ CallAge(b)[call] # NoTime
    BY <1>2, <1>t, <2>1 DEF CallAge, TypeOK, NoTime
  <2>3. CallAge(b)' = [CallAge(b) EXCEPT ![call] = NoTime]
    <3>1. ASSUME NEW q \in Requests, NEW s \in {"router", "provider"}
          PROVE  (CallAge(b)[<<q, s>>])' =
                    IF <<q, s>> = call THEN NoTime ELSE CallAge(b)[<<q, s>>]
      <4>1. CASE q = r
        BY <1>c, <4>1 DEF CallAge, Awaiting, NoTime
      <4>2. CASE q # r
        BY <4>2, OthersAwait DEF CallAge, OnlyTouches, NoTime
      <4>3. QED  BY <4>1, <4>2
    <3>2. ASSUME NEW pair \in Requests \X {"router", "provider"}
          PROVE  (CallAge(b)[pair])' =
                    IF pair = call THEN NoTime ELSE CallAge(b)[pair]
      <4>1. PICK q \in Requests, t \in {"router", "provider"} :
               pair = <<q, t>>
        OBVIOUS
      <4>2. QED  BY <4>1, <3>1
    <3>3. QED  BY <3>2 DEF CallAge, NoTime
  <2>4. circuits'[b] = after
    BY <1>2, <1>t, <1>b DEF Ends, Account
  <2>5. Probes(b)' = IF after.state = "HALF_OPEN" THEN Probes(b) \ {call}
                     ELSE {}
    <3>1. window'[b] = IF after.state = "HALF_OPEN" THEN window[b] \ {r}
                       ELSE {}
      BY <1>2, <1>t, <1>b DEF Ends, Account
    <3>2. \A q \in window'[b] : q \in window[b] /\ q \in Requests /\ q # r
      BY <1>t, <3>1
    <3>3. \A q \in window'[b] : stage'[q] = stage[q]
      BY <3>2 DEF OnlyTouches
    <3>4. QED  BY <3>1, <3>3 DEF Probes
  <2>6. quiet'[b] = IF transient THEN 0 ELSE quiet[b]
    BY <1>2, <1>t, <1>b DEF Ends, Account
  <2>7. Shared(b)!Finish(call, after)
    BY <2>2, <2>3, <2>4, <2>5, SharedMethods
       DEF Shared!Finish, CallAge, Probes
  <2>8. \/ Shared(b)!Succeed(call) \/ Shared(b)!TimeOut(call)
        \/ Shared(b)!TaskFails(call) \/ Shared(b)!RouterFails(call)
        \/ Shared(b)!Abandon(call)
    <3>1. CASE after = RecordSuccess(circuits[b]) /\ ~transient
      BY <2>6, <2>7, <3>1, SharedMethods
         DEF Shared!Succeed, Shared!Finish
    <3>2. CASE after = ReleaseProbe(circuits[b]) /\ ~transient
      BY <2>6, <2>7, <3>2, SharedMethods
         DEF Shared!Abandon, Shared!Finish
    <3>3. CASE /\ after = RecordFailure(circuits[b], TRUE)
               /\ transient /\ call_age[r] = CallTimeout(r)
      <4>1. Shared(b)!Timeout(call) = CallTimeout(r)
        BY <1>c DEF Shared!Timeout, CallTimeout, Awaiting
      <4>2. QED
        BY <2>2, <2>6, <2>7, <3>3, <4>1, SharedFailure
           DEF Shared!TimeOut, Shared!Finish, CallAge
    <3>4. CASE /\ after = RecordFailure(circuits[b], transient)
               /\ stage[r] = "provider"
      BY <2>6, <2>7, <3>4, SharedFailure
         DEF Shared!TaskFails, Shared!Finish
    <3>5. CASE /\ after = ReleaseProbe(RecordFailure(circuits[b], transient))
               /\ stage[r] = "router"
      <4>1. after = Shared(b)!ReleaseProbe(
                       Shared(b)!RecordFailure(circuits[b], transient))
        BY <3>5, SharedMethods, SharedFailure
      <4>2. QED
        BY <2>6, <2>7, <3>5, <4>1 DEF Shared!RouterFails, Shared!Finish
    <3>6. QED
      BY <1>2, <1>b, <3>1, <3>2, <3>3, <3>4, <3>5 DEF Ends
  <2>9. QED
    BY <2>1, <2>8, SharedCalls DEF Shared!Next, Shared!Complete
<1>3. QED  BY <1>1, <1>2

\* Time passes there as it does here.
LEMMA TickShared ==
    ASSUME SlotsInv, Tick, NEW b \in Backends
    PROVE  [Shared(b)!Next]_(Shared(b)!vars)
<1>t. TypeOK
  BY DEF SlotsInv
<1>1. UNCHANGED <<window, stage, tier, queue>>
  BY DEF Tick
<1>2. ASSUME NEW q \in Requests, NEW s \in {"router", "provider"}
      PROVE  /\ (CallAge(b)[<<q, s>>])' =
                   IF CallAge(b)[<<q, s>>] = NoTime THEN NoTime
                   ELSE CallAge(b)[<<q, s>>] + 1
             /\ CallAge(b)[<<q, s>>] # NoTime =>
                   /\ stage[q] = s /\ q \in Awaiting
                   /\ CallAge(b)[<<q, s>>] = call_age[q]
  <2>1. /\ stage'[q] = stage[q] /\ Target(q)' = Target(q)
        /\ call_age[q] \in Nat
        /\ stage[q] = s => q \in Awaiting /\ call_age'[q] = call_age[q] + 1
    BY <1>t, <1>1 DEF Target, Tick, TypeOK, Awaiting
  <2>2. QED  BY <2>1 DEF CallAge, NoTime
<1>3. CallAge(b)' =
         [call \in Requests \X {"router", "provider"} |->
             IF CallAge(b)[call] = NoTime THEN NoTime
             ELSE CallAge(b)[call] + 1]
  <2>1. ASSUME NEW pair \in Requests \X {"router", "provider"}
        PROVE  (CallAge(b)[pair])' =
                  IF CallAge(b)[pair] = NoTime THEN NoTime
                  ELSE CallAge(b)[pair] + 1
    <3>1. PICK q \in Requests, s \in {"router", "provider"} :
             pair = <<q, s>>
      OBVIOUS
    <3>2. QED  BY <3>1, <1>2
  <2>2. QED  BY <2>1 DEF CallAge, NoTime
<1>4. ASSUME NEW call \in Requests \X {"router", "provider"},
             CallAge(b)[call] # NoTime
      PROVE  CallAge(b)[call] < Shared(b)!Timeout(call)
  <2>1. PICK q \in Requests, s \in {"router", "provider"} : call = <<q, s>>
    BY <1>4
  <2>2. /\ stage[q] = s /\ q \in Awaiting
        /\ CallAge(b)[call] = call_age[q]
    BY <1>2, <1>4, <2>1
  <2>3. Shared(b)!Timeout(call) = CallTimeout(q)
    BY <2>1, <2>2 DEF Shared!Timeout, CallTimeout
  <2>4. QED  BY <2>2, <2>3 DEF Tick
<1>5. Probes(b)' = Probes(b)
  BY <1>1 DEF Probes
<1>6. /\ circuits'[b] = Age(circuits[b])
      /\ quiet'[b] = IF quiet[b] \in 0..(OpenSeconds - 1) THEN quiet[b] + 1
                     ELSE quiet[b]
  BY DEF Tick
<1>7. Shared(b)!Tick
  <2>1. \A call \in Shared(b)!running :
           CallAge(b)[call] < Shared(b)!Timeout(call)
    BY <1>4, SharedCalls, SharedMethods DEF Shared!running, CallAge
  <2>2. CallAge(b)' =
           [call \in Shared(b)!Calls |->
               IF CallAge(b)[call] = Shared(b)!NoTime THEN Shared(b)!NoTime
               ELSE CallAge(b)[call] + 1]
    BY <1>3, SharedCalls, SharedMethods, Zenon
  <2>3. circuits'[b] = Shared(b)!Age(circuits[b])
    BY <1>6, SharedMethods
  <2>4. QED
    BY <1>5, <1>6, <2>1, <2>2, <2>3, Zenon DEF Shared!Tick, CallAge, Probes
<1>8. QED  BY <1>7 DEF Shared!Next

\* On each backend, all the calls that the requests make, as routers and as
\* providers, are together a behaviour of CircuitBreaker: what is proved of
\* one shared circuit there holds of every circuit here.
THEOREM CircuitsShared == Spec => SharesCircuits
<1>1. ASSUME Init, NEW b \in Backends PROVE Shared(b)!Init
  <2>1. /\ circuits[b] = Closed /\ quiet[b] = NoTime /\ window[b] = {}
        /\ \A r \in Requests : stage[r] = "new"
    BY <1>1 DEF Init
  <2>2. \A call \in Requests \X {"router", "provider"} :
           stage[call[1]] # call[2]
    BY <2>1
  <2>3. CallAge(b) = [call \in Requests \X {"router", "provider"} |-> NoTime]
    BY <2>2 DEF CallAge
  <2>4. Probes(b) = {}
    BY <2>1 DEF Probes
  <2>5. QED
    BY <2>1, <2>3, <2>4, SharedCalls, SharedMethods
       DEF Shared!Init, CallAge, Probes
<1>2. ASSUME SlotsInv, [Next]_vars, NEW b \in Backends
      PROVE  [Shared(b)!Next]_(Shared(b)!vars)
  <2>1. ASSUME NEW r \in Requests, StepOf(r)
        PROVE  [Shared(b)!Next]_(Shared(b)!vars)
    <3>1. OnlyTouches(r) /\ (Passes(r) \/ Admits(r) \/ Completes(r))
      BY <1>2, <2>1, StepShape DEF SlotsInv
    <3>2. CASE Passes(r)
      <4>1. r \notin Awaiting /\ r \notin Awaiting'
            /\ UNCHANGED <<circuits, window, quiet>>
        BY <3>2 DEF Passes, Awaiting, circuitVars
      <4>2. QED  BY <1>2, <3>1, <4>1, UntouchedCalls, SharedStutters
    <3>3. QED  BY <1>2, <3>1, <3>2, AdmitsShared, CompletesShared
  <2>2. CASE UNCHANGED vars
    <3>1. CallAge(b)' = CallAge(b) /\ Probes(b)' = Probes(b)
          /\ circuits'[b] = circuits[b] /\ quiet'[b] = quiet[b]
      BY <2>2 DEF vars, circuitVars, CallAge, Probes, Target
    <3>2. QED  BY <3>1, SharedStutters
  <2>3. QED  BY <1>2, <2>1, <2>2, TickShared DEF Next, StepOf
<1>3. Init => \A b \in Backends : Shared(b)!Init
  BY <1>1
<1>4. SlotsInv /\ [Next]_vars =>
         [\A b \in Backends : [Shared(b)!Next]_(Shared(b)!vars)]_vars
  BY <1>2
<1>5. QED  BY <1>3, <1>4, SlotsAwaited, PTL DEF Spec, SharesCircuits

-----------------------------------------------------------------------------
(* What is proved of one shared circuit, for the engine's.                 *)

\* The definitions of Breaker are those of Shared(Chosen).
LEMMA SameActions ==
    /\ Shared(Chosen)!Init => Breaker!Init
    /\ [Shared(Chosen)!Next]_(Shared(Chosen)!vars)
       => [Breaker!Next]_(Breaker!vars)
<1>1. \A c : /\ Breaker!Cooling(c) = Shared(Chosen)!Cooling(c)
             /\ Breaker!EnterWindow(c) = Shared(Chosen)!EnterWindow(c)
             /\ Breaker!Allows(c) = Shared(Chosen)!Allows(c)
             /\ Breaker!AllowRequest(c) = Shared(Chosen)!AllowRequest(c)
             /\ Breaker!RecordSuccess(c) = Shared(Chosen)!RecordSuccess(c)
             /\ Breaker!ReleaseProbe(c) = Shared(Chosen)!ReleaseProbe(c)
             /\ Breaker!Age(c) = Shared(Chosen)!Age(c)
  BY Zenon DEF Breaker!Cooling, Breaker!EnterWindow, Breaker!Allows,
     Breaker!AllowRequest, Breaker!RecordSuccess, Breaker!ReleaseProbe,
     Breaker!Age, Breaker!Closed, Breaker!NoTime,
     Shared!Cooling, Shared!EnterWindow, Shared!Allows, Shared!AllowRequest,
     Shared!RecordSuccess, Shared!ReleaseProbe, Shared!Age, Shared!Closed,
     Shared!NoTime
<1>2. \A c, transient : Breaker!RecordFailure(c, transient)
                           = Shared(Chosen)!RecordFailure(c, transient)
  BY <1>1, Zenon DEF Breaker!RecordFailure, Breaker!Open,
                     Shared!RecordFailure, Shared!Open
<1>3. Shared(Chosen)!Init => Breaker!Init
  BY Zenon DEF Breaker!Init, Breaker!Closed, Breaker!NoTime, Breaker!Calls,
     Shared!Init, Shared!Closed, Shared!NoTime, Shared!Calls
<1>4. UNCHANGED Shared(Chosen)!vars => UNCHANGED Breaker!vars
  BY Zenon DEF Breaker!vars, Shared!vars
<1>5. \A call : Shared(Chosen)!Timeout(call) = Breaker!Timeout(call)
  BY Zenon DEF Breaker!Timeout, Shared!Timeout
<1>6. \A call :
         /\ Shared(Chosen)!Admit(call) => Breaker!Admit(call)
         /\ Shared(Chosen)!Refuse(call) => Breaker!Refuse(call)
  BY <1>1, Zenon DEF Breaker!Admit, Breaker!Refuse, Breaker!NoTime,
                     Shared!Admit, Shared!Refuse, Shared!NoTime
<1>7. ASSUME NEW call
      PROVE  /\ Shared(Chosen)!Succeed(call) => Breaker!Succeed(call)
             /\ Shared(Chosen)!TimeOut(call) => Breaker!TimeOut(call)
             /\ Shared(Chosen)!TaskFails(call) => Breaker!TaskFails(call)
             /\ Shared(Chosen)!RouterFails(call) => Breaker!RouterFails(call)
             /\ Shared(Chosen)!Abandon(call) => Breaker!Abandon(call)
  <2>1. Shared(Chosen)!Succeed(call) => Breaker!Succeed(call)
    BY <1>1, Zenon
       DEF Breaker!Succeed, Breaker!Finish, Breaker!NoTime,
           Shared!Succeed, Shared!Finish, Shared!NoTime
  <2>2. Shared(Chosen)!TimeOut(call) => Breaker!TimeOut(call)
    BY <1>2, <1>5, Zenon
       DEF Breaker!TimeOut, Breaker!Finish, Breaker!NoTime,
           Shared!TimeOut, Shared!Finish, Shared!NoTime
  <2>3. Shared(Chosen)!TaskFails(call) => Breaker!TaskFails(call)
    BY <1>2, Zenon
       DEF Breaker!TaskFails, Breaker!Finish, Breaker!NoTime,
           Shared!TaskFails, Shared!Finish, Shared!NoTime
  <2>4. Shared(Chosen)!RouterFails(call) => Breaker!RouterFails(call)
    BY <1>1, <1>2, Zenon
       DEF Breaker!RouterFails, Breaker!Finish, Breaker!NoTime,
           Shared!RouterFails, Shared!Finish, Shared!NoTime
  <2>5. Shared(Chosen)!Abandon(call) => Breaker!Abandon(call)
    BY <1>1, Zenon
       DEF Breaker!Abandon, Breaker!Finish, Breaker!NoTime,
           Shared!Abandon, Shared!Finish, Shared!NoTime
  <2>6. QED  BY <2>1, <2>2, <2>3, <2>4, <2>5
<1>8. Shared(Chosen)!Tick => Breaker!Tick
  BY <1>1, <1>5, Zenon
     DEF Breaker!Tick, Breaker!running, Breaker!Calls, Breaker!NoTime,
     Shared!Tick, Shared!running, Shared!Calls, Shared!NoTime
<1>9. Shared(Chosen)!Next => Breaker!Next
  BY <1>6, <1>7, <1>8, Zenon DEF Breaker!Next, Breaker!Calls, Breaker!Complete,
     Shared!Next, Shared!Calls, Shared!Complete
<1>10. QED  BY <1>3, <1>4, <1>9

\* Each behaviour of the engine is, on the chosen backend, one of Breaker.
LEMMA ChosenRefines ==
    ASSUME Chosen \in Backends
    PROVE  Spec => Breaker!Spec
<1>1. (\A b \in Backends : Shared(b)!Init) => Breaker!Init
  BY SameActions
<1>2. [\A b \in Backends : [Shared(b)!Next]_(Shared(b)!vars)]_vars
      => [Breaker!Next]_(Breaker!vars)
  <2>1. UNCHANGED vars => UNCHANGED Breaker!vars
    <3>1. UNCHANGED vars => CallAge(Chosen)' = CallAge(Chosen)
                            /\ Probes(Chosen)' = Probes(Chosen)
      BY DEF vars, circuitVars, CallAge, Probes, Target
    <3>2. UNCHANGED vars => UNCHANGED <<circuits, quiet>>
      BY DEF vars, circuitVars
    <3>3. QED  BY <3>1, <3>2 DEF Breaker!vars, CallAge, Probes
  <2>2. QED  BY <2>1, SameActions
<1>3. QED  BY <1>1, <1>2, CircuitsShared, PTL DEF SharesCircuits, Breaker!Spec

\* The requests that await a call to the backend.
Upon(b) == {r \in Awaiting : Target(r) = b}

ProbesLimited(b) ==
    circuits[b].state = "HALF_OPEN" => Cardinality(Upon(b)) <= HalfOpenProbes

\* While a backend's circuit is half-open, no more calls to it are under way
\* than it has probe slots, of all requests, routers and providers together:
\* what allow_request and its callers are for.  It takes timeouts below
\* CIRCUIT_OPEN_SECONDS, as the default settings have them.
THEOREM EngineProbesBounded ==
    ASSUME Chosen \in Backends,
           RouterTimeout < OpenSeconds, RequestTimeout < OpenSeconds
    PROVE  Spec => []ProbesLimited(Chosen)
<1>1. Spec => Breaker!Spec
  BY ChosenRefines
<1>2. Breaker!TimeoutsShort
  BY DEF Breaker!TimeoutsShort
<1>3. Breaker!Spec => []Breaker!ProbesBounded
  BY <1>2, BreakerAssumptions, Breaker!ShortTimeoutsBoundProbes
<1>4. Breaker!Spec => []Breaker!WindowExclusive
  BY <1>2, BreakerAssumptions, Breaker!ShortTimeoutsExclude
<1>5. ASSUME SlotsInv, Breaker!ProbesBounded, Breaker!WindowExclusive
      PROVE  ProbesLimited(Chosen)
  <2>1. SUFFICES ASSUME circuits[Chosen].state = "HALF_OPEN"
                 PROVE  Cardinality(Upon(Chosen)) <= HalfOpenProbes
    BY DEF ProbesLimited
  <2>2. /\ Probes(Chosen) = Breaker!running
        /\ Breaker!Cardinality(Probes(Chosen)) <= HalfOpenProbes
    BY <1>5, <2>1 DEF Breaker!WindowExclusive, Breaker!ProbesBounded, Probes
  <2>3. \A S : Breaker!Cardinality(S) = Cardinality(S)
    BY Zenon DEF Cardinality, Breaker!Cardinality
  <2>4. Breaker!running = {<<r, stage[r]>> : r \in Upon(Chosen)}
    <3>1. Breaker!running = {call \in Requests \X {"router", "provider"} :
                            CallAge(Chosen)[call] # NoTime}
      BY DEF Breaker!running, Breaker!Calls, Breaker!NoTime, NoTime, CallAge
    <3>2. ASSUME NEW r \in Requests, NEW s \in {"router", "provider"}
          PROVE  CallAge(Chosen)[<<r, s>>] # NoTime
                 <=> r \in Upon(Chosen) /\ s = stage[r]
      <4>1. call_age[r] \in Nat
        BY <1>5 DEF SlotsInv, TypeOK
      <4>2. QED  BY <4>1 DEF CallAge, NoTime, Upon, Awaiting
    <3>3. \A r \in Upon(Chosen) :
             r \in Requests /\ stage[r] \in {"router", "provider"}
      BY DEF Upon, Awaiting
    <3>4. ASSUME NEW call \in Breaker!running
          PROVE  call \in {<<r, stage[r]>> : r \in Upon(Chosen)}
      <4>1. PICK r \in Requests, s \in {"router", "provider"} : call = <<r, s>>
        BY <3>1
      <4>2. QED  BY <3>1, <3>2, <4>1
    <3>5. \A r \in Upon(Chosen) : <<r, stage[r]>> \in Breaker!running
      BY <3>1, <3>2, <3>3
    <3>6. QED  BY <3>4, <3>5
  <2>5. Cardinality(Upon(Chosen)) = Cardinality(Probes(Chosen))
    <3>1. IsFiniteSet(Upon(Chosen))
      BY EngineAssumption, FS_Subset DEF Upon, Awaiting
    <3>2. PICK f : f = [r \in Upon(Chosen) |-> <<r, stage[r]>>]
      OBVIOUS
    <3>3. f \in Bijection(Upon(Chosen), Probes(Chosen))
      BY <2>2, <2>4, <3>2
         DEF Bijection, Injection, Surjection, IsInjective
    <3>4. QED  BY <3>1, <3>3, FS_Bijection DEF ExistsBijection
  <2>6. QED  BY <2>2, <2>3, <2>5
<1>6. QED  BY <1>1, <1>3, <1>4, <1>5, SlotsAwaited, PTL

CallJustified(b) ==
    Upon(b)' \subseteq Upon(b)
    \/ circuits[b].consecutive_failures < FailureThreshold
    \/ quiet[b] = OpenSeconds

\* No request calls a failing backend early, as a router or as a provider: when
\* a call begins, the circuit has fewer failures than FailureThreshold, or no
\* transient one was recorded for the cooldown (allow_request, called by
\* decide and dispatch).
THEOREM EngineCallsJustified ==
    ASSUME Chosen \in Backends
    PROVE  Spec => [][CallJustified(Chosen)]_vars
<1> DEFINE Justified == (Breaker!running' \ Breaker!running) # {} =>
                            \/ circuits[Chosen].consecutive_failures
                                  < FailureThreshold
                            \/ quiet[Chosen] = OpenSeconds
<1>1. Breaker!Spec => [][Justified]_(Breaker!vars)
  BY BreakerAssumptions, Breaker!AdmissionIsJustified
     DEF Breaker!AdmissionJustified
<1>2. ASSUME SlotsInv, SlotsInv', [Justified]_(Breaker!vars)
      PROVE  CallJustified(Chosen)
  <2>1. SUFFICES ASSUME NEW r \in Upon(Chosen)', r \notin Upon(Chosen)
                 PROVE  \/ circuits[Chosen].consecutive_failures
                              < FailureThreshold
                        \/ quiet[Chosen] = OpenSeconds
    BY DEF CallJustified
  <2>2. PICK s : s = stage'[r]
    OBVIOUS
  <2>3. /\ r \in Requests /\ s \in {"router", "provider"}
        /\ call_age'[r] \in Nat
    BY <1>2, <2>1, <2>2 DEF Upon, Awaiting, SlotsInv, TypeOK
  <2>4. CallAge(Chosen)'[<<r, s>>] # NoTime
    BY <2>1, <2>2, <2>3 DEF CallAge, NoTime, Upon
  <2>5. CallAge(Chosen)[<<r, s>>] = NoTime
    BY <2>1, <2>3 DEF CallAge, NoTime, Upon, Awaiting
  <2>6. <<r, s>> \in Breaker!running' \ Breaker!running
    BY <2>3, <2>4, <2>5
       DEF Breaker!running, Breaker!Calls, Breaker!NoTime, NoTime, CallAge
  <2>7. Breaker!running' # Breaker!running => ~UNCHANGED Breaker!vars
    BY DEF Breaker!running, Breaker!vars
  <2>8. QED  BY <1>2, <2>6, <2>7
<1>3. QED
  <2> HIDE DEF Justified
  <2>1. QED  BY <1>1, <1>2, ChosenRefines, SlotsAwaited, PTL

-----------------------------------------------------------------------------
(* The log of the candidates.                                              *)

\* The candidates of the list are those in the log and then those pending.
Dealt(list, attempts, pending) ==
    /\ Len(list) = Len(attempts) + Len(pending)
    /\ \A i \in 1..Len(attempts) : list[i] = attempts[i].provider
    /\ \A i \in 1..Len(pending) : list[Len(attempts) + i] = pending[i]

\* The log with the first pending candidate dealt with.
Noted(attempts, pending, outcome) ==
    Append(attempts, [provider |-> Head(pending), outcome |-> outcome])

\* The log of a request at each stage: empty in the ladder; of candidates
\* that did not serve, in the fallback; and complete when it has ended.
Logged(r) ==
    /\ stage[r] \in {"new", "ladder", "router"} =>
          log[r] = << >> /\ result[r] = "none"
    /\ stage[r] \in {"candidates", "provider"} =>
          /\ result[r] = "none"
          /\ Passed(log[r], Len(log[r]))
          /\ \E list \in CandidateLists : Dealt(list, log[r], queue[r])
    /\ stage[r] = "done" => Accounted(log[r], result[r])

AllLogged == \A r \in Requests : Logged(r)

\* What an entry more does to a log.
LEMMA NotedParts ==
    ASSUME NEW attempts \in Seq(Attempt), NEW pending \in Seq(Providers),
           NEW outcome \in AttemptOutcomes, pending # << >>
    PROVE  /\ Len(Noted(attempts, pending, outcome)) = Len(attempts) + 1
           /\ \A i \in 1..Len(attempts) :
                 Noted(attempts, pending, outcome)[i] = attempts[i]
           /\ Noted(attempts, pending, outcome)[Len(attempts) + 1]
                 = [provider |-> pending[1], outcome |-> outcome]
<1>1. [provider |-> Head(pending), outcome |-> outcome] \in Attempt
  BY HeadTailProperties DEF Attempt
<1>2. Head(pending) = pending[1]
  BY HeadTailProperties
<1>3. QED  BY <1>1, <1>2, AppendProperties DEF Noted

\* A candidate that did not serve is logged, and the next one is looked at.
LEMMA DealtNext ==
    ASSUME NEW list \in Seq(Providers), NEW attempts \in Seq(Attempt),
           NEW pending \in Seq(Providers), pending # << >>,
           Dealt(list, attempts, pending), Passed(attempts, Len(attempts)),
           NEW outcome \in {"failed", "skipped_auth_failure"},
           NEW noted, noted = Noted(attempts, pending, outcome)
    PROVE  /\ Dealt(list, noted, Tail(pending))
           /\ noted # << >>
           /\ Passed(noted, Len(noted))
           /\ noted[Len(noted)].outcome = outcome
<1>1. /\ Len(attempts) \in Nat /\ Len(pending) \in Nat /\ Len(pending) >= 1
      /\ Len(list) \in Nat
  BY LenProperties, EmptySeq
<1>2. /\ Len(noted) = Len(attempts) + 1
      /\ \A i \in 1..Len(attempts) : noted[i] = attempts[i]
      /\ noted[Len(attempts) + 1]
            = [provider |-> pending[1], outcome |-> outcome]
  <2>1. outcome \in AttemptOutcomes
    BY DEF AttemptOutcomes
  <2>2. QED  BY <2>1, NotedParts
<1>3. /\ Len(Tail(pending)) = Len(pending) - 1
      /\ \A i \in 1..Len(Tail(pending)) : Tail(pending)[i] = pending[i + 1]
  BY HeadTailProperties
<1>4. ASSUME NEW i \in 1..Len(noted)
      PROVE  /\ list[i] = noted[i].provider
             /\ noted[i].outcome \in {"failed", "skipped_auth_failure"}
  <2>1. CASE i \in 1..Len(attempts)
    BY <1>2, <2>1 DEF Dealt, Passed
  <2>2. CASE i = Len(attempts) + 1
    <3>1. list[i] = pending[1]
      BY <1>1, <2>2 DEF Dealt
    <3>2. QED  BY <1>2, <2>2, <3>1
  <2>3. QED  BY <1>1, <1>2, <1>4, <2>1, <2>2
<1>5. ASSUME NEW i \in 1..Len(Tail(pending))
      PROVE  list[Len(noted) + i] = Tail(pending)[i]
  <2>1. i + 1 \in 1..Len(pending)
    BY <1>1, <1>3, <1>5
  <2>2. list[Len(attempts) + (i + 1)] = pending[i + 1]
    BY <2>1 DEF Dealt
  <2>3. Len(noted) + i = Len(attempts) + (i + 1)
    BY <1>1, <1>2, <1>5
  <2>4. QED  BY <1>3, <1>5, <2>2, <2>3
<1>6. Len(list) = Len(noted) + Len(Tail(pending))
  BY <1>1, <1>2, <1>3 DEF Dealt
<1>7. noted # << >> /\ noted[Len(noted)].outcome = outcome
  BY <1>1, <1>2, EmptySeq
<1>8. QED  BY <1>4, <1>5, <1>6, <1>7 DEF Dealt, Passed

\* With none pending, the log lists the candidates.
LEMMA DealtAll ==
    ASSUME NEW list \in Seq(Providers), NEW attempts \in Seq(Attempt),
           Dealt(list, attempts, << >>)
    PROVE  LogProviders(attempts) = list
<1>1. Len(list) = Len(attempts) /\ Len(list) \in Nat
  BY LenProperties, EmptySeq DEF Dealt
<1>2. list = [i \in 1..Len(list) |-> list[i]]
  BY LenProperties
<1>3. QED  BY <1>1, <1>2 DEF Dealt, LogProviders

\* A log of the candidates so far is in the order of their list.
LEMMA DealtInOrder ==
    ASSUME NEW list \in CandidateLists, NEW attempts \in Seq(Attempt),
           NEW pending \in Seq(Providers), Dealt(list, attempts, pending),
           attempts # << >>
    PROVE  InOrder(attempts)
<1>1. list \in Seq(Providers)
  BY EngineAssumption
<1>2. /\ Len(attempts) \in Nat /\ Len(pending) \in Nat
      /\ Len(list) \in Nat /\ Len(attempts) # 0
  BY <1>1, LenProperties, EmptySeq
<1>3. Len(attempts) \in 1..Len(list)
  BY <1>2 DEF Dealt
<1>4. SubSeq(list, 1, Len(attempts)) = [i \in 1..Len(attempts) |-> list[i]]
  BY <1>1, <1>2, <1>3, SubSeqProperties
<1>5. LogProviders(attempts) = SubSeq(list, 1, Len(attempts))
  BY <1>4 DEF Dealt, LogProviders
<1>6. QED  BY <1>3, <1>5 DEF InOrder

\* One that serves ends a log of the candidates so far.
LEMMA DealtServed ==
    ASSUME NEW list \in CandidateLists, NEW attempts \in Seq(Attempt),
           NEW pending \in Seq(Providers), pending # << >>,
           Dealt(list, attempts, pending), Passed(attempts, Len(attempts)),
           NEW served, served = Noted(attempts, pending, "success")
    PROVE  Served(served) /\ InOrder(served)
<1>0. list \in Seq(Providers)
  BY EngineAssumption
<1>1. /\ Len(attempts) \in Nat /\ Len(pending) \in Nat /\ Len(pending) >= 1
      /\ Len(list) \in Nat
  BY <1>0, LenProperties, EmptySeq
<1>2. /\ Len(served) = Len(attempts) + 1
      /\ \A i \in 1..Len(attempts) : served[i] = attempts[i]
      /\ served[Len(attempts) + 1]
            = [provider |-> pending[1], outcome |-> "success"]
  BY NotedParts DEF AttemptOutcomes
<1>3. Served(served)
  <2>1. served # << >> /\ served[Len(served)].outcome = "success"
    BY <1>1, <1>2, EmptySeq
  <2>2. Len(served) - 1 = Len(attempts)
    BY <1>1, <1>2
  <2>3. Passed(served, Len(attempts))
    BY <1>2 DEF Passed
  <2>4. QED  BY <2>1, <2>2, <2>3 DEF Served
<1>4. ASSUME NEW i \in 1..Len(served) PROVE list[i] = served[i].provider
  <2>1. CASE i \in 1..Len(attempts)
    BY <1>2, <2>1 DEF Dealt
  <2>2. CASE i = Len(attempts) + 1
    <3>1. list[i] = pending[1]
      BY <1>1, <2>2 DEF Dealt
    <3>2. QED  BY <1>2, <2>2, <3>1
  <2>3. QED  BY <1>1, <1>2, <1>4, <2>1, <2>2
<1>5. Len(served) \in 1..Len(list)
  BY <1>1, <1>2 DEF Dealt
<1>6. SubSeq(list, 1, Len(served)) = [i \in 1..Len(served) |-> list[i]]
  BY <1>0, <1>1, <1>5, SubSeqProperties
<1>7. LogProviders(served) = SubSeq(list, 1, Len(served))
  BY <1>4, <1>6 DEF LogProviders
<1>8. QED  BY <1>3, <1>5, <1>7 DEF InOrder

\* A call that is cancelled leaves a log of all the candidates.
LEMMA DealtCancelled ==
    ASSUME NEW list \in CandidateLists, NEW attempts \in Seq(Attempt),
           NEW pending \in Seq(Providers), pending # << >>,
           Dealt(list, attempts, pending), Passed(attempts, Len(attempts)),
           NEW cut, cut = CancelledLog(attempts, pending)
    PROVE  CutOff(cut) /\ InOrder(cut)
<1> DEFINE rest == [i \in 1..Len(pending) |->
                       [provider |-> pending[i],
                        outcome |-> IF i = 1 THEN "cancelled"
                                    ELSE "skipped_deadline"]]
<1>0. list \in Seq(Providers)
  BY EngineAssumption
<1>1. /\ Len(attempts) \in Nat /\ Len(pending) \in Nat /\ Len(list) \in Nat
      /\ Len(pending) >= 1
  BY <1>0, LenProperties, EmptySeq
<1>2. \A i \in 1..Len(pending) : rest[i] \in Attempt
  BY ElementOfSeq DEF Attempt, AttemptOutcomes
<1>3. rest \in Seq(Attempt) /\ Len(rest) = Len(pending)
  BY <1>1, <1>2, IsASeq, LenProperties
<1>4. cut = attempts \o rest
  BY DEF CancelledLog
<1>5. /\ Len(cut) = Len(attempts) + Len(pending)
      /\ \A i \in 1..Len(cut) :
            cut[i] = IF i <= Len(attempts) THEN attempts[i]
                     ELSE rest[i - Len(attempts)]
  BY <1>3, <1>4, ConcatProperties
<1>6. ASSUME NEW i \in 1..Len(list) PROVE cut[i].provider = list[i]
  <2>0. i \in 1..Len(cut)
    BY <1>5 DEF Dealt
  <2>1. CASE i <= Len(attempts)
    <3>1. i \in 1..Len(attempts)
      BY <1>1, <2>1
    <3>2. cut[i] = attempts[i]
      BY <1>5, <2>0, <2>1
    <3>3. QED  BY <3>1, <3>2 DEF Dealt
  <2>2. CASE i > Len(attempts)
    <3>1. /\ i - Len(attempts) \in 1..Len(pending)
          /\ Len(attempts) + (i - Len(attempts)) = i
      BY <1>1, <2>2 DEF Dealt
    <3>2. list[i] = pending[i - Len(attempts)]
      BY <3>1 DEF Dealt
    <3>3. cut[i] = rest[i - Len(attempts)]
      BY <1>1, <1>5, <2>0, <2>2
    <3>4. QED  BY <3>1, <3>2, <3>3
  <2>3. QED  BY <1>1, <2>1, <2>2
<1>7. list = [i \in 1..Len(list) |-> list[i]] /\ Len(cut) = Len(list)
  BY <1>0, <1>5, LenProperties DEF Dealt
<1>8. LogProviders(cut) = list
  BY <1>6, <1>7 DEF LogProviders
<1> DEFINE k == Len(attempts) + 1
<1>9. k \in 1..Len(cut) /\ k - 1 = Len(attempts)
  BY <1>1, <1>5
<1>10. Passed(cut, Len(attempts))
  <2>1. ASSUME NEW i \in 1..Len(attempts) PROVE cut[i] = attempts[i]
    <3>1. i \in 1..Len(cut) /\ i <= Len(attempts)
      BY <1>1, <1>5
    <3>2. QED  BY <1>5, <3>1
  <2>2. QED  BY <2>1 DEF Passed
<1>11. cut[k].outcome = "cancelled"
  <2>1. cut[k] = rest[1]
    <3>1. ~(k <= Len(attempts)) /\ k - Len(attempts) = 1
      BY <1>1
    <3> HIDE DEF rest, k
    <3>2. QED  BY <1>5, <1>9, <3>1
  <2>2. QED  BY <1>1, <2>1
<1>12. ASSUME NEW i \in (k + 1)..Len(cut)
       PROVE  cut[i].outcome = "skipped_deadline"
  <2>1. /\ i \in 1..Len(cut) /\ ~(i <= Len(attempts))
        /\ i - Len(attempts) \in 1..Len(pending) /\ i - Len(attempts) # 1
    BY <1>1, <1>5
  <2>2. cut[i] = rest[i - Len(attempts)]
    BY <1>5, <2>1
  <2>3. QED  BY <2>1, <2>2
<1>13. CutOff(cut)
  <2>1. LogProviders(cut) \in CandidateLists
    BY <1>8
  <2>2. Passed(cut, k - 1)
    BY <1>9, <1>10
  <2> HIDE DEF k
  <2>3. QED  BY <1>9, <1>11, <1>12, <2>1, <2>2 DEF CutOff
<1>14. InOrder(cut)
  <2>1. Len(cut) \in 1..Len(list) /\ Len(list) = Len(cut)
    BY <1>1, <1>5 DEF Dealt
  <2>2. SubSeq(list, 1, Len(list)) = [i \in 1..Len(list) |-> list[i]]
    BY <1>0, <1>1, <2>1, SubSeqProperties
  <2>3. LogProviders(cut) = SubSeq(list, 1, Len(list))
    BY <1>7, <1>8, <2>2
  <2>4. QED  BY <2>1, <2>3 DEF InOrder
<1>15. QED  BY <1>13, <1>14

\* A request that ends in the ladder has logged nothing.
LEMMA EndUnlogged ==
    ASSUME NEW r \in Requests, stage'[r] = "done", log'[r] = << >>,
           result'[r] \in {"CLARIFY_OR_STOP", "ROUTER_CHAIN_EXHAUSTED",
                           "DEADLINE_EXCEEDED"}
    PROVE  Logged(r)'
<1>1. Len(log'[r]) = 0
  BY EmptySeq
<1>2. Passed(log'[r], Len(log'[r]))
  BY <1>1 DEF Passed
<1>3. QED  BY <1>2 DEF Logged, Accounted

\* Where a request is after it went on or ended, with what result.
LEMMA Whereabouts ==
    ASSUME ProgressTyped, NEW r \in Requests
    PROVE  /\ \A s : GoOn(r, s) => stage'[r] = s /\ result'[r] = result[r]
           /\ \A how : End(r, how) => stage'[r] = "done" /\ result'[r] = how
           /\ TierFailed(r) =>
                 \/ stage'[r] = "ladder" /\ result'[r] = result[r]
                 \/ /\ stage'[r] = "done"
                    /\ result'[r] = "ROUTER_CHAIN_EXHAUSTED"
<1>1. ASSUME NEW s, GoOn(r, s)
      PROVE  stage'[r] = s /\ result'[r] = result[r]
  BY <1>1 DEF GoOn, ProgressTyped
<1>2. ASSUME NEW how, End(r, how)
      PROVE  stage'[r] = "done" /\ result'[r] = how
  BY <1>2 DEF End, ProgressTyped
<1>3. QED  BY <1>1, <1>2 DEF TierFailed

\* The ladder logs nothing.
LEMMA LadderLogged ==
    ASSUME TypeOK, NEW r \in Requests, Logged(r),
           \/ Arrive(r) \/ AskRouter(r) \/ RouterCircuitOpen(r)
           \/ RouterAnswers(r) \/ RouterRetries(r) \/ RouterConcludes(r)
           \/ RouterInvalid(r) \/ RouterFails(r) \/ RouterTimesOut(r)
           \/ RouterBreaks(r)
    PROVE  Logged(r)'
<1>t. ProgressTyped /\ QueueTyped
  BY TypeParts
<1>1. log' = log /\ log[r] = << >> /\ result[r] = "none"
  BY DEF Arrive, AskRouter, RouterCircuitOpen, RouterAnswers, RouterRetries,
         RouterConcludes, RouterInvalid, RouterFails, RouterTimesOut,
         RouterBreaks, Logged
<1>2. ASSUME stage'[r] \in {"ladder", "router"}, result'[r] = result[r]
      PROVE  Logged(r)'
  BY <1>1, <1>2 DEF Logged
<1>3. ASSUME stage'[r] = "done",
             result'[r] \in {"CLARIFY_OR_STOP", "ROUTER_CHAIN_EXHAUSTED"}
      PROVE  Logged(r)'
  BY <1>1, <1>3, EndUnlogged
<1>4. CASE Arrive(r)
  BY <1>2, <1>4, <1>t, Whereabouts DEF Arrive
<1>5. CASE AskRouter(r)
  <2>1. stage'[r] = "router" /\ result'[r] = result[r]
    BY <1>5, <1>t DEF AskRouter, Admit, ProgressTyped
  <2>2. QED  BY <1>2, <2>1
<1>6. ASSUME TierFailed(r) PROVE Logged(r)'
  BY <1>2, <1>3, <1>6, <1>t, Whereabouts
<1>7. CASE RouterAnswers(r)
  <2>1. PICK candidates \in CandidateLists :
           queue' = [queue EXCEPT ![r] = candidates]
    BY <1>7 DEF RouterAnswers
  <2>2. stage'[r] = "candidates" /\ result'[r] = "none"
        /\ queue'[r] = candidates
    BY <1>1, <1>7, <1>t, <2>1, Whereabouts DEF RouterAnswers, QueueTyped
  <2>3. Len(<< >>) = 0 /\ Len(candidates) \in Nat
    BY EmptySeq, LenProperties, EngineAssumption
  <2>4. Passed(<< >>, Len(<< >>)) /\ Dealt(candidates, << >>, candidates)
    BY <2>3 DEF Passed, Dealt
  <2>5. QED  BY <1>1, <2>2, <2>4 DEF Logged
<1>8. CASE RouterRetries(r)
  BY <1>2, <1>3, <1>8, <1>t, Whereabouts DEF RouterRetries
<1>9. CASE RouterConcludes(r)
  BY <1>3, <1>9, <1>t, Whereabouts DEF RouterConcludes
<1>10. QED
  BY <1>4, <1>5, <1>6, <1>7, <1>8, <1>9
     DEF RouterCircuitOpen, RouterInvalid, RouterFails, RouterTimesOut,
         RouterBreaks

\* The fallback logs each candidate it has dealt with.
LEMMA FallbackLogged ==
    ASSUME TypeOK, CandidateHeld, NEW r \in Requests, Logged(r),
           \/ CandidatesExhausted(r) \/ DeadlineAtCandidate(r)
           \/ SkipBlocked(r) \/ Dispatch(r) \/ ProviderCircuitOpen(r)
           \/ ProviderAnswers(r) \/ ProviderFails(r) \/ ProviderTimesOut(r)
           \/ ProviderDisabled(r) \/ ProviderBreaks(r)
           \/ stage[r] = "provider" /\ Deadline(r)
    PROVE  Logged(r)'
<1>t. ProgressTyped /\ QueueTyped /\ LogTyped
  BY TypeParts
<1>v. log[r] \in Seq(Attempt) /\ queue[r] \in Seq(Providers)
  BY <1>t DEF LogTyped, QueueTyped
<1>s. stage[r] \in {"candidates", "provider"}
  BY DEF CandidatesExhausted, DeadlineAtCandidate, SkipBlocked, Dispatch,
         ProviderCircuitOpen, AtCandidate, ProviderAnswers, ProviderFails,
         ProviderTimesOut, ProviderDisabled, ProviderBreaks
<1>1. result[r] = "none" /\ Passed(log[r], Len(log[r]))
  BY <1>s DEF Logged
<1>2. PICK list \in CandidateLists : Dealt(list, log[r], queue[r])
  BY <1>s DEF Logged
<1>3. list \in Seq(Providers)
  BY EngineAssumption
<1>4. ASSUME NEW outcome, Log(r, outcome)
      PROVE  log'[r] = Noted(log[r], queue[r], outcome)
  BY <1>4, <1>t DEF Log, LogTyped, Noted
<1>5. ASSUME NEW outcome \in {"failed", "skipped_auth_failure"},
             queue[r] # << >>, NextCandidate(r, outcome)
      PROVE  Logged(r)'
  <2>1. queue'[r] = Tail(queue[r]) /\ stage'[r] = "candidates"
        /\ result'[r] = "none"
    BY <1>1, <1>5, <1>t, Whereabouts DEF NextCandidate, QueueTyped
  <2>2. log'[r] = Noted(log[r], queue[r], outcome)
    BY <1>4, <1>5 DEF NextCandidate
  <2>3. Passed(log'[r], Len(log'[r])) /\ Dealt(list, log'[r], queue'[r])
    BY <1>v, <1>1, <1>2, <1>3, <1>5, <2>1, <2>2, DealtNext
  <2>4. QED  BY <2>1, <2>3 DEF Logged
<1>o. log[r] # << >> => InOrder(log[r])
  BY <1>v, <1>2, DealtInOrder
<1>6. CASE CandidatesExhausted(r)
  <2>1. stage'[r] = "done" /\ result'[r] = "PROVIDER_UNAVAILABLE"
        /\ log'[r] = log[r]
    BY <1>6, <1>t, Whereabouts DEF CandidatesExhausted
  <2>2. LogProviders(log[r]) = list
    BY <1>v, <1>2, <1>3, <1>6, DealtAll DEF CandidatesExhausted
  <2>3. Accounted(log'[r], result'[r])
    BY <1>1, <1>o, <2>1, <2>2 DEF Accounted
  <2>4. QED  BY <2>1, <2>3 DEF Logged
<1>7. CASE DeadlineAtCandidate(r)
  <2>1. stage'[r] = "done" /\ result'[r] = "DEADLINE_EXCEEDED" /\ log' = log
    BY <1>7, <1>t, Whereabouts DEF DeadlineAtCandidate
  <2>2. Accounted(log'[r], result'[r])
    BY <1>1, <1>o, <2>1 DEF Accounted
  <2>3. QED  BY <2>1, <2>2 DEF Logged
<1>8. CASE SkipBlocked(r)
  BY <1>5, <1>8 DEF SkipBlocked, AtCandidate
<1>9. CASE Dispatch(r)
  <2>1. stage'[r] = "provider" /\ result'[r] = "none"
        /\ log' = log /\ queue' = queue
    BY <1>1, <1>9, <1>t DEF Dispatch, Admit, ProgressTyped
  <2>2. QED  BY <1>1, <1>2, <2>1 DEF Logged
<1>10. CASE ProviderCircuitOpen(r)
  BY <1>5, <1>10 DEF ProviderCircuitOpen, AtCandidate
<1>p. ASSUME stage[r] = "provider" PROVE queue[r] # << >>
  BY <1>p DEF CandidateHeld
<1>11. CASE ProviderAnswers(r)
  <2>1. stage'[r] = "done"
        /\ result'[r] \in {"ANSWER", "GATEWAY_ERROR", "DEADLINE_EXCEEDED"}
    BY <1>11, <1>t, Whereabouts DEF ProviderAnswers
  <2>2. log'[r] = Noted(log[r], queue[r], "success")
    BY <1>4, <1>11 DEF ProviderAnswers
  <2>3. queue[r] # << >>
    BY <1>p, <1>11 DEF ProviderAnswers
  <2>4. Served(log'[r]) /\ InOrder(log'[r])
    BY <1>v, <1>1, <1>2, <2>2, <2>3, DealtServed
  <2>5. Accounted(log'[r], result'[r])
    BY <2>1, <2>4 DEF Accounted
  <2>6. QED  BY <2>1, <2>5 DEF Logged
<1>12. CASE ProviderFails(r)
  BY <1>5, <1>12, <1>p DEF ProviderFails
<1>13. CASE ProviderTimesOut(r)
  BY <1>5, <1>13, <1>p DEF ProviderTimesOut
<1>14. CASE ProviderDisabled(r)
  BY <1>5, <1>14, <1>p DEF ProviderDisabled
<1>15. CASE ProviderBreaks(r)
  <2>1. stage'[r] = "done" /\ result'[r] = "INTERNAL_ERROR"
    BY <1>15, <1>t, Whereabouts DEF ProviderBreaks
  <2>2. log'[r] = Noted(log[r], queue[r], "failed") /\ queue[r] # << >>
    BY <1>4, <1>15, <1>p DEF ProviderBreaks
  <2>3. /\ Dealt(list, log'[r], Tail(queue[r])) /\ log'[r] # << >>
        /\ Passed(log'[r], Len(log'[r]))
        /\ log'[r][Len(log'[r])].outcome = "failed"
    BY <1>v, <1>1, <1>2, <1>3, <2>2, DealtNext
  <2>4. log'[r] \in Seq(Attempt) /\ Tail(queue[r]) \in Seq(Providers)
    <3>1. Tail(queue[r]) \in Seq(Providers)
      BY <1>v, <2>2, HeadTailProperties
    <3>2. [provider |-> Head(queue[r]), outcome |-> "failed"] \in Attempt
      BY <1>v, <2>2, HeadTailProperties DEF Attempt, AttemptOutcomes
    <3>3. QED  BY <1>v, <2>2, <3>1, <3>2, AppendProperties DEF Noted
  <2>5. InOrder(log'[r])
    BY <2>3, <2>4, DealtInOrder
  <2>6. Accounted(log'[r], result'[r])
    BY <2>1, <2>3, <2>5 DEF Accounted
  <2>7. QED  BY <2>1, <2>6 DEF Logged
<1>16. CASE stage[r] = "provider" /\ Deadline(r)
  <2>1. stage'[r] = "done" /\ result'[r] = "DEADLINE_EXCEEDED"
    BY <1>16, <1>t, Whereabouts DEF Deadline
  <2>2. log'[r] = CancelledLog(log[r], queue[r])
    BY <1>16, <1>t DEF Deadline, LogTyped
  <2>3. CutOff(log'[r]) /\ InOrder(log'[r])
    BY <1>v, <1>1, <1>2, <1>16, <1>p, <2>2, DealtCancelled
  <2>4. Accounted(log'[r], result'[r])
    BY <2>1, <2>3 DEF Accounted
  <2>5. QED  BY <2>1, <2>4 DEF Logged
<1>17. QED
  BY <1>6, <1>7, <1>8, <1>9, <1>10, <1>11, <1>12, <1>13, <1>14, <1>15, <1>16

\* A request whose router is cancelled has logged nothing.
LEMMA RouterCancelled ==
    ASSUME TypeOK, NEW r \in Requests, Logged(r), stage[r] = "router",
           Deadline(r)
    PROVE  Logged(r)'
<1>1. log' = log /\ log[r] = << >>
  BY DEF Deadline, Logged
<1>2. stage'[r] = "done" /\ result'[r] = "DEADLINE_EXCEEDED"
  BY TypeParts, Whereabouts DEF Deadline
<1>3. QED  BY <1>1, <1>2, EndUnlogged

\* Every step keeps every log.
LEMMA StepLogged ==
    TypeOK /\ CandidateHeld /\ AllLogged /\ [Next]_vars => AllLogged'
<1> SUFFICES ASSUME TypeOK, CandidateHeld, AllLogged, [Next]_vars
             PROVE  AllLogged'
  OBVIOUS
<1>1. ASSUME NEW r \in Requests, stage'[r] = stage[r], log'[r] = log[r],
             queue'[r] = queue[r], result'[r] = result[r]
      PROVE  Logged(r)'
  <2>1. Logged(r)
    BY DEF AllLogged
  <2>2. QED  BY <1>1, <2>1 DEF Logged
<1>2. ASSUME NEW r \in Requests, StepOf(r) PROVE AllLogged'
  <2>1. Logged(r)'
    <3>1. Logged(r)
      BY DEF AllLogged
    <3>2. CASE Deadline(r) /\ stage[r] = "router"
      BY <3>1, <3>2, RouterCancelled
    <3>3. CASE Deadline(r) /\ stage[r] # "router"
      <4>1. stage[r] = "provider"
        BY <3>3 DEF Deadline, Awaiting
      <4>2. QED  BY <3>1, <3>3, <4>1, FallbackLogged
    <3>4. CASE ~Deadline(r)
      BY <1>2, <3>1, <3>4, LadderLogged, FallbackLogged
         DEF StepOf, Run, Return, Expire
    <3>5. QED  BY <3>2, <3>3, <3>4
  <2>2. ASSUME NEW q \in Requests \ {r} PROVE Logged(q)'
    BY <1>1, <1>2, StepShape DEF OnlyTouches
  <2>3. QED  BY <2>1, <2>2 DEF AllLogged
<1>3. CASE Tick \/ UNCHANGED vars
  BY <1>1, <1>3 DEF Tick, vars, AllLogged
<1>4. QED  BY <1>2, <1>3 DEF Next, StepOf

\* The diagnostics account for the candidates of every request: in the order
\* of its list, and as far as the way it ended says that it went down the list.
THEOREM LogsComplete == Spec => []LogComplete
<1>1. Init => AllLogged
  BY DEF Init, AllLogged, Logged
<1>2. AllLogged /\ TypeOK => LogComplete
  <2>1. ASSUME AllLogged, TypeOK, NEW r \in Requests
        PROVE  Accounted(log[r], result[r])
    <3>0. /\ Logged(r) /\ stage[r] \in Stages
          /\ log[r] \in Seq(Attempt) /\ queue[r] \in Seq(Providers)
      BY <2>1, TypeParts DEF AllLogged, TypeOK, LogTyped, QueueTyped
    <3>1. CASE stage[r] = "done"
      BY <3>0, <3>1 DEF Logged
    <3>2. CASE stage[r] \in {"new", "ladder", "router"}
      <4>1. Len(<< >>) = 0
        BY EmptySeq
      <4>2. QED  BY <3>0, <3>2, <4>1 DEF Logged, Accounted, Passed
    <3>3. CASE stage[r] \in {"candidates", "provider"}
      <4>1. log[r] # << >> => InOrder(log[r])
        BY <3>0, <3>3, DealtInOrder DEF Logged
      <4>2. QED  BY <3>0, <3>3, <4>1 DEF Logged, Accounted
    <3>4. QED  BY <3>0, <3>1, <3>2, <3>3 DEF Stages
  <2>2. QED  BY <2>1 DEF LogComplete
<1>3. QED  BY <1>1, <1>2, InitType, StepType, StepLogged, PTL DEF Spec
=============================================================================
