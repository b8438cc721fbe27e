------------------------ MODULE CircuitBreakerProofs ------------------------
(***************************************************************************)
(* Proofs about CircuitBreaker, for any number of calls, any threshold,    *)
(* cooldown, slots and timeouts.  They rest on lemmas about the operators  *)
(* of BackendCircuit, which come first: what each method returns, and what *)
(* it does to the slots.  RoutingEngineProofs uses those too.              *)
(***************************************************************************)
EXTENDS CircuitBreaker, FiniteSetTheorems, TLAPS

-----------------------------------------------------------------------------
(* What the methods of a circuit return.                                   *)

\* An admission finds the circuit closed, or cooled down, or half-open with
\* a free slot; this is the circuit it leaves in each case.
LEMMA AdmissionCases ==
    ASSUME NEW c \in Circuit, Allows(c)
    PROVE  \/ c.state = "CLOSED" /\ AllowRequest(c) = c
           \/ /\ c.state = "OPEN" /\ ~Cooling(c)
              /\ AllowRequest(c) =
                    [state |-> "HALF_OPEN",
                     consecutive_failures |-> c.consecutive_failures,
                     opened_for |-> c.opened_for, half_open_inflight |-> 1]
           \/ /\ c.state = "HALF_OPEN"
              /\ c.half_open_inflight < HalfOpenProbes
              /\ AllowRequest(c) =
                    [state |-> "HALF_OPEN",
                     consecutive_failures |-> c.consecutive_failures,
                     opened_for |-> c.opened_for,
                     half_open_inflight |-> c.half_open_inflight + 1]
<1> USE CircuitAssumption DEF Circuit, CircuitState
<1>1. CASE c.state = "CLOSED"
  BY <1>1 DEF AllowRequest, EnterWindow
<1>2. CASE c.state = "HALF_OPEN"
  <2>1. EnterWindow(c) = c
    BY <1>2 DEF EnterWindow
  <2>2. AllowRequest(c) = [c EXCEPT !.half_open_inflight = @ + 1]
    BY <1>2, <2>1 DEF Allows, AllowRequest
  <2>3. QED  BY <1>2, <2>1, <2>2 DEF Allows
<1>3. CASE c.state = "OPEN"
  <2>1. ~Cooling(c)
    BY <1>3 DEF Allows, EnterWindow
  <2>2. EnterWindow(c) = [state |-> "HALF_OPEN",
                          consecutive_failures |-> c.consecutive_failures,
                          opened_for |-> c.opened_for,
                          half_open_inflight |-> 0]
    BY <1>3, <2>1 DEF EnterWindow
  <2>3. AllowRequest(c) = [EnterWindow(c) EXCEPT !.half_open_inflight = 1]
    BY <2>2 DEF AllowRequest
  <2>4. QED  BY <1>3, <2>1, <2>2, <2>3
<1>4. QED  BY <1>1, <1>2, <1>3

\* A refusal leaves the circuit as it was.
LEMMA RefusalChangesNothing ==
    ASSUME NEW c \in Circuit, ~Allows(c)
    PROVE  AllowRequest(c) = c
BY CircuitAssumption
   DEF Allows, AllowRequest, EnterWindow, Cooling, Circuit, CircuitState

\* Every method returns a circuit.
LEMMA CircuitTyped ==
    ASSUME NEW c \in Circuit
    PROVE  /\ AllowRequest(c) \in Circuit
           /\ RecordSuccess(c) \in Circuit
           /\ \A transient \in BOOLEAN :
                 RecordFailure(c, transient) \in Circuit
           /\ ReleaseProbe(c) \in Circuit
           /\ Age(c) \in Circuit
<1>1. AllowRequest(c) \in Circuit
  <2>1. CASE Allows(c)
    <3>1. c.half_open_inflight < HalfOpenProbes =>
             c.half_open_inflight + 1 \in 0..HalfOpenProbes
      BY CircuitAssumption DEF Circuit
    <3>2. 1 \in 0..HalfOpenProbes
      BY CircuitAssumption
    <3>3. QED
      BY <2>1, <3>1, <3>2, AdmissionCases DEF Circuit, CircuitState
  <2>2. CASE ~Allows(c)
    BY <2>2, RefusalChangesNothing
  <2>3. QED  BY <2>1, <2>2
<1>2. RecordSuccess(c) \in Circuit
  BY CircuitAssumption
     DEF RecordSuccess, Closed, Circuit, CircuitState, NoTime
<1>3. ASSUME NEW transient \in BOOLEAN
      PROVE  RecordFailure(c, transient) \in Circuit
  BY <1>2, CircuitAssumption
     DEF RecordFailure, Open, Circuit, CircuitState, NoTime
<1>4. ReleaseProbe(c) \in Circuit
  <2>1. CASE c.state = "HALF_OPEN" /\ c.half_open_inflight > 0
    <3>1. c.half_open_inflight - 1 \in 0..HalfOpenProbes
      BY <2>1, CircuitAssumption DEF Circuit
    <3>2. QED  BY <2>1, <3>1 DEF ReleaseProbe, Circuit
  <2>2. CASE ~(c.state = "HALF_OPEN" /\ c.half_open_inflight > 0)
    BY <2>2 DEF ReleaseProbe
  <2>3. QED  BY <2>1, <2>2
<1>5. Age(c) \in Circuit
  BY CircuitAssumption DEF Age, Circuit, NoTime
<1>6. QED  BY <1>1, <1>2, <1>3, <1>4, <1>5

\* A recorded failure never leaves a half-open window behind it.
LEMMA FailureEndsWindow ==
    ASSUME NEW c \in Circuit, NEW transient \in BOOLEAN
    PROVE  /\ RecordFailure(c, transient).state # "HALF_OPEN"
           /\ ReleaseProbe(RecordFailure(c, transient))
                = RecordFailure(c, transient)
BY CircuitAssumption
   DEF RecordFailure, RecordSuccess, Closed, Open, ReleaseProbe, Circuit,
       CircuitState

-----------------------------------------------------------------------------
(* The probe slots.                                                        *)

\* The slots in use are no more than the probes still running, and outside a
\* half-open window there are neither.
SlotsHeld(c, probes) ==
    /\ IsFiniteSet(probes)
    /\ c.half_open_inflight <= Cardinality(probes)
    /\ c.state # "HALF_OPEN" => c.half_open_inflight = 0 /\ probes = {}

\* The probes of the window after a call was admitted to the circuit c,
ProbesAdmitted(c, probes, call) ==
    IF AllowRequest(c).state # "HALF_OPEN" THEN {}
    ELSE IF c.state = "HALF_OPEN" THEN probes \cup {call} ELSE {call}

\* and after it ended and left the circuit as `after`.
ProbesLeft(after, probes, call) ==
    IF after.state = "HALF_OPEN" THEN probes \ {call} ELSE {}

\* Without probes there are no slots in use.
LEMMA NoProbesNoSlots ==
    ASSUME NEW c \in Circuit, SlotsHeld(c, {})
    PROVE  c.half_open_inflight = 0
BY FS_EmptySet, CircuitAssumption DEF SlotsHeld, Circuit

\* An admission takes a slot for a probe that starts.
LEMMA AdmissionSlots ==
    ASSUME NEW c \in Circuit, Allows(c), NEW probes, SlotsHeld(c, probes),
           NEW call, call \notin probes
    PROVE  SlotsHeld(AllowRequest(c), ProbesAdmitted(c, probes, call))
<1> USE CircuitAssumption
<1>f. /\ IsFiniteSet(probes) /\ Cardinality(probes) \in Nat
      /\ IsFiniteSet({}) /\ Cardinality({}) = 0
      /\ IsFiniteSet({call}) /\ Cardinality({call}) = 1
      /\ IsFiniteSet(probes \cup {call})
      /\ Cardinality(probes \cup {call}) = Cardinality(probes) + 1
  BY FS_CardinalityType, FS_EmptySet, FS_Singleton, FS_AddElement
     DEF SlotsHeld
<1>1. CASE c.state = "CLOSED"
  BY <1>1, <1>f, AdmissionCases DEF SlotsHeld, ProbesAdmitted
<1>2. CASE c.state = "OPEN"
  <2>1. /\ AllowRequest(c).state = "HALF_OPEN"
        /\ AllowRequest(c).half_open_inflight = 1
    BY <1>2, AdmissionCases
  <2>2. ProbesAdmitted(c, probes, call) = {call}
    BY <1>2, <2>1 DEF ProbesAdmitted
  <2>3. QED  BY <1>f, <2>1, <2>2 DEF SlotsHeld
<1>3. CASE c.state = "HALF_OPEN"
  <2>1. /\ AllowRequest(c).state = "HALF_OPEN"
        /\ AllowRequest(c).half_open_inflight = c.half_open_inflight + 1
    BY <1>3, AdmissionCases
  <2>2. ProbesAdmitted(c, probes, call) = probes \cup {call}
    BY <1>3, <2>1 DEF ProbesAdmitted
  <2>3. QED  BY <1>f, <2>1, <2>2 DEF SlotsHeld, Circuit
<1>4. QED  BY <1>1, <1>2, <1>3 DEF Circuit, CircuitState

\* However a call ends, it gives back the slot of the probe that it was, in
\* the window that the probe belongs to.
LEMMA CompletionSlots ==
    ASSUME NEW c \in Circuit, NEW probes, SlotsHeld(c, probes), NEW call,
           NEW after,
           \/ after = RecordSuccess(c)
           \/ after = ReleaseProbe(c)
           \/ \E transient \in BOOLEAN : after = RecordFailure(c, transient)
    PROVE  SlotsHeld(after, ProbesLeft(after, probes, call))
<1> USE CircuitAssumption
<1>f. IsFiniteSet({}) /\ Cardinality({}) = 0
  BY FS_EmptySet
<1>1. ASSUME after.state # "HALF_OPEN", after.half_open_inflight = 0
      PROVE  SlotsHeld(after, ProbesLeft(after, probes, call))
  BY <1>1, <1>f DEF SlotsHeld, ProbesLeft
<1>2. CASE after = RecordSuccess(c)
  BY <1>1, <1>2 DEF RecordSuccess, Closed
<1>3. ASSUME NEW transient \in BOOLEAN, after = RecordFailure(c, transient)
      PROVE  SlotsHeld(after, ProbesLeft(after, probes, call))
  <2>1. after.state # "HALF_OPEN" /\ after.half_open_inflight = 0
    BY <1>3
       DEF RecordFailure, RecordSuccess, Closed, Open, SlotsHeld, Circuit,
           CircuitState
  <2>2. QED  BY <1>1, <2>1
<1>4. CASE after = ReleaseProbe(c)
  <2>1. CASE c.state # "HALF_OPEN"
    BY <1>1, <1>4, <2>1 DEF ReleaseProbe, SlotsHeld
  <2>2. CASE c.state = "HALF_OPEN"
    <3>1. after.state = "HALF_OPEN"
      BY <1>4, <2>2 DEF ReleaseProbe, Circuit
    <3>2. after.half_open_inflight =
             IF c.half_open_inflight > 0 THEN c.half_open_inflight - 1 ELSE 0
      BY <1>4, <2>2 DEF ReleaseProbe, Circuit
    <3>3. /\ IsFiniteSet(probes \ {call})
          /\ Cardinality(probes \ {call}) =
                IF call \in probes THEN Cardinality(probes) - 1
                                   ELSE Cardinality(probes)
      BY FS_RemoveElement DEF SlotsHeld
    <3>4. Cardinality(probes) \in Nat /\ Cardinality(probes \ {call}) \in Nat
      BY <3>3, FS_CardinalityType DEF SlotsHeld
    <3>5. c.half_open_inflight \in Nat
      BY DEF Circuit
    <3>6. after.half_open_inflight <= Cardinality(probes \ {call})
      BY <3>2, <3>3, <3>4, <3>5 DEF SlotsHeld
    <3>7. QED  BY <3>1, <3>3, <3>6 DEF SlotsHeld, ProbesLeft
  <2>3. QED  BY <2>1, <2>2
<1>5. QED  BY <1>2, <1>3, <1>4

\* The clock takes and gives no slot.
LEMMA AgeSlots ==
    ASSUME NEW c \in Circuit
    PROVE  /\ Age(c).state = c.state
           /\ Age(c).half_open_inflight = c.half_open_inflight
BY DEF Age, Circuit

-----------------------------------------------------------------------------
(* Type correctness.                                                       *)

\* However a call ends, it has recorded a transient failure and restarted
\* the quiet time, or done one of three things that do not.
LEMMA CompletionCases ==
    ASSUME TypeOK, NEW call \in Calls, Complete(call)
    PROVE  \/ /\ Finish(call, RecordFailure(circuit, TRUE))
              /\ quiet' = 0
           \/ \E after \in {RecordSuccess(circuit), ReleaseProbe(circuit),
                            RecordFailure(circuit, FALSE)} :
                 /\ Finish(call, after)
                 /\ quiet' = quiet
<1> circuit \in Circuit
  BY DEF TypeOK
<1>1. CASE Succeed(call)
  BY <1>1 DEF Succeed
<1>2. CASE TimeOut(call)
  BY <1>2 DEF TimeOut
<1>3. CASE TaskFails(call)
  BY <1>3 DEF TaskFails
<1>4. CASE RouterFails(call)
  BY <1>4, FailureEndsWindow DEF RouterFails
<1>5. CASE Abandon(call)
  BY <1>5 DEF Abandon
<1>6. QED  BY <1>1, <1>2, <1>3, <1>4, <1>5 DEF Complete

\* The fresh circuit and no running call have their types.
LEMMA InitType == Init => TypeOK
BY CircuitAssumption, CallsAssumption
   DEF Init, TypeOK, Closed, Circuit, CircuitState, NoTime, Timeout, running

\* Admissions, refusals, outcomes and ticks keep the types.
LEMMA StepType == TypeOK /\ [Next]_vars => TypeOK'
<1> SUFFICES ASSUME TypeOK, [Next]_vars PROVE TypeOK'
  OBVIOUS
<1> USE CallsAssumption
<1>t. \A call \in Calls : Timeout(call) \in Nat
  BY DEF Timeout
<1>c. circuit \in Circuit /\ age \in [Calls -> Int]
  BY DEF TypeOK
<1>1. ASSUME NEW call \in Calls, Admit(call) PROVE TypeOK'
  <2>1. circuit' \in Circuit
    BY <1>1, <1>c, CircuitTyped DEF Admit
  <2>2. age' \in [Calls -> Int]
    BY <1>1, <1>c DEF Admit
  <2>3. \A c \in Calls : age'[c] \in NoTime..Timeout(c)
    BY <1>1, <1>c, <1>t DEF Admit, TypeOK, NoTime
  <2>4. window' \in SUBSET running'
    BY <1>1, <1>c DEF Admit, TypeOK, running, NoTime
  <2>5. QED  BY <1>1, <2>1, <2>2, <2>3, <2>4 DEF Admit, TypeOK
<1>2. ASSUME NEW call \in Calls, Refuse(call) PROVE TypeOK'
  BY <1>2, <1>c, RefusalChangesNothing DEF Refuse, TypeOK, running
<1>3. ASSUME NEW call \in Calls, NEW after \in Circuit, Finish(call, after),
             quiet' = 0 \/ quiet' = quiet
      PROVE  TypeOK'
  <2>1. age' \in [Calls -> Int]
    BY <1>3, <1>c DEF Finish, NoTime
  <2>2. \A c \in Calls : age'[c] \in NoTime..Timeout(c)
    BY <1>3, <1>c, <1>t DEF Finish, TypeOK, NoTime
  <2>3. window' \in SUBSET running'
    BY <1>3, <1>c DEF Finish, TypeOK, running
  <2>4. quiet' \in NoTime..OpenSeconds
    BY <1>3, CircuitAssumption DEF TypeOK, NoTime
  <2>5. QED  BY <1>3, <2>1, <2>2, <2>3, <2>4 DEF Finish, TypeOK
<1>4. ASSUME NEW call \in Calls, Complete(call) PROVE TypeOK'
  BY <1>3, <1>4, <1>c, CompletionCases, CircuitTyped
<1>5. CASE Tick
  <2>1. circuit' \in Circuit
    BY <1>5, <1>c, CircuitTyped DEF Tick
  <2>2. age' \in [Calls -> Int]
    BY <1>5, <1>c DEF Tick, NoTime
  <2>3. \A c \in Calls : age'[c] \in NoTime..Timeout(c)
    BY <1>5, <1>c, <1>t DEF Tick, TypeOK, running, NoTime
  <2>4. running' = running
    BY <1>5, <1>c, <1>t DEF Tick, TypeOK, running, NoTime
  <2>5. quiet' \in NoTime..OpenSeconds
    BY <1>5, CircuitAssumption DEF Tick, TypeOK, NoTime
  <2>6. QED  BY <1>5, <2>1, <2>2, <2>3, <2>4, <2>5 DEF Tick, TypeOK
<1>6. CASE UNCHANGED vars
  BY <1>6 DEF vars, TypeOK, running
<1>7. QED  BY <1>1, <1>2, <1>4, <1>5, <1>6 DEF Next

\* The circuit, the running calls and the history have their types.
THEOREM TypeCorrect == Spec => []TypeOK
<1>1. QED  BY InitType, StepType, PTL DEF Spec

-----------------------------------------------------------------------------
(* The fields of the circuit agree.                                        *)

\* CircuitConsistent is inductive, given the types.
LEMMA StepConsistent ==
    TypeOK /\ CircuitConsistent /\ [Next]_vars => CircuitConsistent'
<1> SUFFICES ASSUME TypeOK, CircuitConsistent, [Next]_vars
             PROVE  CircuitConsistent'
  OBVIOUS
<1> USE CircuitAssumption
<1>c. circuit \in Circuit /\ quiet \in NoTime..OpenSeconds
  BY DEF TypeOK
<1>1. ASSUME NEW call \in Calls, Admit(call) PROVE CircuitConsistent'
  <2>1. Allows(circuit) /\ circuit' = AllowRequest(circuit) /\ quiet' = quiet
    BY <1>1 DEF Admit
  <2>2. CASE circuit.state = "CLOSED" /\ circuit' = circuit
    BY <1>1, <2>1, <2>2 DEF Admit, CircuitConsistent
  <2>3. CASE circuit'.state = "HALF_OPEN"
    BY <1>c, <2>1, <2>3, AdmissionCases
       DEF CircuitConsistent, Circuit, Cooling, NoTime
  <2>4. QED  BY <1>c, <2>1, <2>2, <2>3, AdmissionCases
<1>2. ASSUME NEW call \in Calls, Refuse(call) PROVE CircuitConsistent'
  BY <1>2, <1>c, RefusalChangesNothing DEF Refuse, CircuitConsistent
<1>3. ASSUME NEW call \in Calls, Complete(call) PROVE CircuitConsistent'
  <2>1. CASE Finish(call, RecordFailure(circuit, TRUE)) /\ quiet' = 0
    BY <1>c, <2>1
       DEF Finish, RecordFailure, Open, CircuitConsistent, Circuit,
           CircuitState, NoTime
  <2>2. CASE Finish(call, RecordSuccess(circuit)) /\ quiet' = quiet
    BY <2>2 DEF Finish, RecordSuccess, Closed, CircuitConsistent
  <2>3. CASE Finish(call, RecordFailure(circuit, FALSE)) /\ quiet' = quiet
    BY <1>c, <2>3
       DEF Finish, RecordFailure, RecordSuccess, Closed, CircuitConsistent,
           Circuit, CircuitState
  <2>4. CASE Finish(call, ReleaseProbe(circuit)) /\ quiet' = quiet
    BY <1>c, <2>4
       DEF Finish, ReleaseProbe, CircuitConsistent, Circuit, CircuitState
  <2>5. QED  BY <1>3, <2>1, <2>2, <2>3, <2>4, CompletionCases
<1>4. CASE Tick
  BY <1>c, <1>4
     DEF Tick, Age, CircuitConsistent, Circuit, CircuitState, NoTime
<1>5. CASE UNCHANGED vars
  BY <1>5 DEF vars, CircuitConsistent
<1>6. QED  BY <1>1, <1>2, <1>3, <1>4, <1>5 DEF Next

\* The state, the counter, the age and the slots of a circuit never
\* contradict each other, whatever order the outcomes of its calls come in.
THEOREM Consistent == Spec => []CircuitConsistent
<1>1. Init => CircuitConsistent
  BY CircuitAssumption DEF Init, Closed, CircuitConsistent
<1>2. QED  BY <1>1, TypeCorrect, StepConsistent, PTL DEF Spec

-----------------------------------------------------------------------------
(* What follows from it in every state, or for every step.                 *)

\* A router that runs record_failure and then release_probe for one failure
\* is accounted for once.
THEOREM FailureCountedOnce == Spec => []RouterFailureCountedOnce
<1>1. TypeOK => RouterFailureCountedOnce
  BY FailureEndsWindow DEF TypeOK, RouterFailureCountedOnce
<1>2. QED  BY <1>1, TypeCorrect, PTL

\* What a health read shows is what the next request will meet.
THEOREM SnapshotIsHonest == Spec => []SnapshotHonest
<1>1. TypeOK /\ CircuitConsistent => SnapshotHonest
  BY CircuitAssumption
     DEF TypeOK, CircuitConsistent, SnapshotHonest, Snapshot, Allows,
         EnterWindow, Cooling, Circuit, CircuitState, NoTime
<1>2. QED  BY <1>1, TypeCorrect, Consistent, PTL

\* A backend with FailureThreshold failures and no sign of life since is left
\* alone for OpenSeconds after the last of them.
THEOREM AdmissionIsJustified == Spec => AdmissionJustified
<1> DEFINE Justified == (running' \ running) # {} =>
                            \/ circuit.consecutive_failures < FailureThreshold
                            \/ quiet = OpenSeconds
<1>1. TypeOK /\ CircuitConsistent /\ [Next]_vars => [Justified]_vars
  <2> SUFFICES ASSUME TypeOK, CircuitConsistent, Next PROVE Justified
    OBVIOUS
  <2>c. /\ circuit \in Circuit /\ age \in [Calls -> Int]
        /\ quiet \in NoTime..OpenSeconds
    BY DEF TypeOK
  <2>1. ASSUME NEW call \in Calls, Admit(call) PROVE Justified
    <3>1. Allows(circuit)
      BY <2>1 DEF Admit
    <3>2. CASE circuit.state = "CLOSED"
      BY <3>2 DEF CircuitConsistent
    <3>3. CASE circuit.state = "HALF_OPEN"
      BY <3>3 DEF CircuitConsistent
    <3>4. CASE circuit.state = "OPEN" /\ ~Cooling(circuit)
      BY <3>4, <2>c, CircuitAssumption
         DEF CircuitConsistent, Cooling, NoTime
    <3>5. QED  BY <3>1, <3>2, <3>3, <3>4, <2>c, AdmissionCases
  <2>2. ASSUME NEW call \in Calls, Refuse(call) PROVE Justified
    BY <2>2 DEF Refuse, running
  <2>3. ASSUME NEW call \in Calls, Complete(call) PROVE Justified
    <3>1. PICK after : Finish(call, after)
      BY <2>3, CompletionCases
    <3>2. running' \subseteq running
      BY <3>1, <2>c DEF Finish, running
    <3>3. QED  BY <3>2
  <2>4. CASE Tick
    BY <2>4 DEF Tick, running
  <2>5. QED  BY <2>1, <2>2, <2>3, <2>4 DEF Next
<1>2. QED
  BY <1>1, TypeCorrect, Consistent, PTL DEF Spec, AdmissionJustified

-----------------------------------------------------------------------------
(* The probe slots.                                                        *)

\* The running calls can be counted.
LEMMA RunningFinite == IsFiniteSet(Calls) /\ IsFiniteSet(running)
<1>1. IsFiniteSet(Calls)
  BY CallsAssumption, FS_Union DEF Calls
<1>2. QED  BY <1>1, FS_Subset DEF running

\* A step that admits a call takes a slot for it, one that ends a call gives
\* its slot back.
LEMMA StepNoProbeLeak ==
    /\ TypeOK /\ CircuitConsistent /\ NoProbeLeak
    /\ [Next]_vars
    => NoProbeLeak'
<1> SUFFICES ASSUME TypeOK, CircuitConsistent, NoProbeLeak, [Next]_vars
             PROVE  NoProbeLeak'
  OBVIOUS
<1>c. /\ circuit \in Circuit
      /\ window \in SUBSET running
  BY DEF TypeOK
<1>h. SlotsHeld(circuit, window)
  BY <1>c, RunningFinite, FS_Subset
     DEF SlotsHeld, NoProbeLeak, CircuitConsistent
<1>n. SlotsHeld(circuit', window') => NoProbeLeak'
  BY DEF SlotsHeld, NoProbeLeak
<1>1. ASSUME NEW call \in Calls, Admit(call) PROVE NoProbeLeak'
  <2>1. call \notin window
    BY <1>1, <1>c DEF Admit, running
  <2>2. /\ Allows(circuit) /\ circuit' = AllowRequest(circuit)
        /\ window' = ProbesAdmitted(circuit, window, call)
    BY <1>1 DEF Admit, ProbesAdmitted
  <2>3. QED  BY <1>c, <1>h, <1>n, <2>1, <2>2, AdmissionSlots
<1>2. ASSUME NEW call \in Calls, Refuse(call) PROVE NoProbeLeak'
  BY <1>2, <1>c, RefusalChangesNothing DEF Refuse, NoProbeLeak
<1>3. ASSUME NEW call \in Calls, Complete(call) PROVE NoProbeLeak'
  <2>1. /\ \/ circuit' = RecordSuccess(circuit)
           \/ circuit' = ReleaseProbe(circuit)
           \/ \E transient \in BOOLEAN :
                 circuit' = RecordFailure(circuit, transient)
        /\ window' = ProbesLeft(circuit', window, call)
    BY <1>3, CompletionCases DEF Finish, ProbesLeft
  <2>2. QED  BY <1>c, <1>h, <1>n, <2>1, CompletionSlots
<1>4. CASE Tick
  <2>1. circuit'.half_open_inflight = circuit.half_open_inflight
    BY <1>4, <1>c, AgeSlots DEF Tick
  <2>2. QED  BY <1>4, <2>1 DEF Tick, NoProbeLeak
<1>5. CASE UNCHANGED vars
  BY <1>5 DEF vars, NoProbeLeak
<1>6. QED  BY <1>1, <1>2, <1>3, <1>4, <1>5 DEF Next

\* No slot is ever lost: each one in use has a running probe of the present
\* window to give it back.
THEOREM NoSlotIsLost == Spec => []NoProbeLeak
<1>1. Init => NoProbeLeak
  BY FS_EmptySet DEF Init, Closed, NoProbeLeak
<1>2. QED
  BY <1>1, TypeCorrect, Consistent, StepNoProbeLeak, PTL DEF Spec

-----------------------------------------------------------------------------
(* Short timeouts make the half-open window exclusive.                     *)

\* With short timeouts, a call that runs while the circuit is open is older
\* than the outage, and gone when the half-open window starts.
LEMMA StepExclusive ==
    ASSUME TimeoutsShort
    PROVE  /\ TypeOK /\ CircuitConsistent /\ WindowExclusive
           /\ [Next]_vars
           => WindowExclusive'
<1> SUFFICES ASSUME TypeOK, CircuitConsistent, WindowExclusive, [Next]_vars
             PROVE  WindowExclusive'
  OBVIOUS
<1> USE CircuitAssumption
<1>c. /\ circuit \in Circuit /\ age \in [Calls -> Int]
      /\ window \in SUBSET running
  BY DEF TypeOK
<1>r. \A call \in running : age[call] \in Nat /\ age[call] < OpenSeconds
  BY <1>c, CallsAssumption DEF TypeOK, running, TimeoutsShort, Timeout, NoTime
<1>f. /\ IsFiniteSet(window)
      /\ Cardinality(window) \in Nat
      /\ Cardinality({}) = 0
  BY <1>c, RunningFinite, FS_Subset, FS_CardinalityType, FS_EmptySet
<1>1. ASSUME NEW call \in Calls, Admit(call) PROVE WindowExclusive'
  <2>1. /\ Allows(circuit) /\ circuit' = AllowRequest(circuit)
        /\ call \notin running
        /\ running' = running \cup {call}
    BY <1>1, <1>c DEF Admit, running, NoTime
  <2>2. CASE circuit.state = "CLOSED" /\ circuit' = circuit
    BY <2>2 DEF WindowExclusive
  <2>3. CASE /\ circuit.state = "OPEN" /\ ~Cooling(circuit)
             /\ circuit'.state = "HALF_OPEN"
             /\ circuit'.half_open_inflight = 1
    <3>1. running = {}
      BY <1>r, <1>c, <2>3 DEF WindowExclusive, Cooling, Circuit, NoTime
    <3>2. window' = {call}
      BY <1>1, <2>3 DEF Admit
    <3>3. Cardinality({call}) = 1
      BY FS_Singleton
    <3>4. QED  BY <2>1, <2>3, <3>1, <3>2, <3>3 DEF WindowExclusive
  <2>4. CASE /\ circuit.state = "HALF_OPEN"
             /\ circuit'.state = "HALF_OPEN"
             /\ circuit'.half_open_inflight = circuit.half_open_inflight + 1
    <3>1. window' = window \cup {call}
      BY <1>1, <2>4 DEF Admit
    <3>2. call \notin window
      BY <1>c, <2>1
    <3>3. Cardinality(window \cup {call}) = Cardinality(window) + 1
      BY <3>2, <1>f, FS_AddElement
    <3>4. QED  BY <2>1, <2>4, <3>1, <3>3 DEF WindowExclusive
  <2>5. QED  BY <1>c, <2>1, <2>2, <2>3, <2>4, AdmissionCases
<1>2. ASSUME NEW call \in Calls, Refuse(call) PROVE WindowExclusive'
  BY <1>2, <1>c, RefusalChangesNothing DEF Refuse, WindowExclusive, running
<1>3. ASSUME NEW call \in Calls, Complete(call) PROVE WindowExclusive'
  <2>1. PICK after : Finish(call, after)
    BY <1>3, CompletionCases
  <2>2. /\ call \in running
        /\ running' = running \ {call}
        /\ \A c \in running' : age'[c] = age[c]
    BY <2>1, <1>c DEF Finish, running, NoTime
  <2>3. CASE Finish(call, RecordFailure(circuit, TRUE))
    <3>1. /\ circuit'.state # "HALF_OPEN"
          /\ circuit'.state = "OPEN" => circuit'.opened_for = 0
      BY <1>c, <2>3, FailureEndsWindow
         DEF Finish, RecordFailure, Open, WindowExclusive, Circuit,
             CircuitState, CircuitConsistent
    <3>2. QED  BY <1>r, <2>2, <3>1 DEF WindowExclusive
  <2>4. CASE Finish(call, RecordSuccess(circuit))
    BY <2>4 DEF Finish, RecordSuccess, Closed, WindowExclusive
  <2>5. CASE Finish(call, RecordFailure(circuit, FALSE))
    <3>1. CASE circuit.state = "HALF_OPEN"
      BY <2>5, <3>1
         DEF Finish, RecordFailure, RecordSuccess, Closed, WindowExclusive
    <3>2. CASE circuit.state # "HALF_OPEN"
      <4>1. circuit' = circuit
        BY <2>5, <3>2 DEF Finish, RecordFailure
      <4>2. QED  BY <2>2, <3>2, <4>1 DEF WindowExclusive
    <3>3. QED  BY <3>1, <3>2
  <2>6. CASE Finish(call, ReleaseProbe(circuit))
    <3>1. CASE circuit.state = "HALF_OPEN"
      <4>1. /\ window = running
            /\ circuit.half_open_inflight = Cardinality(window)
        BY <3>1 DEF WindowExclusive
      <4>2. Cardinality(window \ {call}) = Cardinality(window) - 1
        BY <2>2, <4>1, <1>f, FS_RemoveElement
      <4>3. Cardinality(window) > 0
        BY <2>2, <4>1, <1>f, FS_EmptySet
      <4>4. ReleaseProbe(circuit)
              = [circuit EXCEPT !.half_open_inflight = @ - 1]
        BY <3>1, <4>1, <4>3, <1>f DEF ReleaseProbe
      <4>5. /\ ReleaseProbe(circuit).state = "HALF_OPEN"
            /\ ReleaseProbe(circuit).half_open_inflight
                  = Cardinality(window) - 1
        BY <1>c, <3>1, <4>1, <4>4 DEF Circuit
      <4>6. window' = window \ {call} /\ circuit' = ReleaseProbe(circuit)
        BY <2>6, <4>5 DEF Finish
      <4>7. QED
        BY <2>2, <4>1, <4>2, <4>5, <4>6 DEF WindowExclusive
    <3>2. CASE circuit.state # "HALF_OPEN"
      <4>1. circuit' = circuit
        BY <2>6, <3>2 DEF Finish, ReleaseProbe
      <4>2. QED  BY <2>2, <3>2, <4>1 DEF WindowExclusive
    <3>3. QED  BY <3>1, <3>2
  <2>7. QED  BY <1>3, <2>3, <2>4, <2>5, <2>6, CompletionCases
<1>4. CASE Tick
  <2>1. /\ running' = running
        /\ \A call \in running : age'[call] = age[call] + 1
    BY <1>4, <1>c, <1>r DEF Tick, running, NoTime
  <2>2. /\ circuit'.state = circuit.state
        /\ circuit'.half_open_inflight = circuit.half_open_inflight
        /\ circuit.state = "OPEN" =>
              \/ circuit'.opened_for = circuit.opened_for + 1
              \/ circuit'.opened_for = circuit.opened_for
    BY <1>4, <1>c DEF Tick, Age, Circuit
  <2>3. circuit.opened_for \in Int
    BY <1>c DEF Circuit, NoTime
  <2>4. CASE circuit.state = "OPEN"
    BY <1>r, <2>1, <2>2, <2>3, <2>4 DEF WindowExclusive
  <2>5. CASE circuit.state # "OPEN"
    BY <1>4, <2>1, <2>2, <2>5 DEF Tick, WindowExclusive
  <2>6. QED  BY <2>4, <2>5
<1>5. CASE UNCHANGED vars
  BY <1>5 DEF vars, WindowExclusive, running
<1>6. QED  BY <1>1, <1>2, <1>3, <1>4, <1>5 DEF Next

\* If every call times out sooner than the cooldown ends, no call of before
\* an outage is left when the half-open window starts.
THEOREM ShortTimeoutsExclude ==
    ASSUME TimeoutsShort
    PROVE  Spec => []WindowExclusive
<1>1. Init => WindowExclusive
  BY DEF Init, Closed, WindowExclusive
<1>2. /\ TypeOK /\ CircuitConsistent /\ WindowExclusive
      /\ [Next]_vars
      => WindowExclusive'
  BY StepExclusive
<1>3. QED  BY <1>1, <1>2, TypeCorrect, Consistent, PTL DEF Spec

\* And then the documented number of probes is never exceeded.
THEOREM ShortTimeoutsBoundProbes ==
    ASSUME TimeoutsShort
    PROVE  Spec => []ProbesBounded
<1>1. TypeOK /\ CircuitConsistent /\ WindowExclusive => ProbesBounded
  <2> SUFFICES ASSUME TypeOK, CircuitConsistent, WindowExclusive
               PROVE  ProbesBounded
    OBVIOUS
  <2>1. CASE circuit.state = "HALF_OPEN"
    BY <2>1 DEF TypeOK, Circuit, WindowExclusive, ProbesBounded
  <2>2. CASE circuit.state # "HALF_OPEN"
    BY <2>2, CircuitAssumption, FS_EmptySet
       DEF CircuitConsistent, ProbesBounded
  <2>3. QED  BY <2>1, <2>2
<1>2. Spec => []WindowExclusive
  BY ShortTimeoutsExclude
<1>3. QED  BY <1>1, <1>2, TypeCorrect, Consistent, PTL

=============================================================================
