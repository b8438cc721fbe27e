--------------------------- MODULE CircuitBreaker ---------------------------
(***************************************************************************)
(* One backend's circuit shared by the calls that router attempts          *)
(* (HTTPRouter.decide) and task attempts (ProviderDispatcher.dispatch)     *)
(* have outstanding on it.  asyncio runs one task at a time, so a call has *)
(* two atomic steps: the admission, up to its first await, and the         *)
(* accounting, from the await's outcome to the end of the handler.         *)
(* Between the two, other calls come and go and time passes: an outcome    *)
(* may reach a circuit that is no longer in the state that admitted it.    *)
(***************************************************************************)
EXTENDS BackendCircuit, FiniteSets

CONSTANTS
    RouterCalls,    \* the calls routers may have in flight at once
    TaskCalls,      \* the calls the dispatcher may have in flight at once
    RouterTimeout,  \* router_timeout, in the clock's unit
    RequestTimeout  \* request_timeout, likewise

Calls == RouterCalls \cup TaskCalls

\* Settings validate gt=0 for both timeouts, and relate neither to OpenSeconds.
ASSUME CallsAssumption ==
    /\ IsFiniteSet(RouterCalls)
    /\ IsFiniteSet(TaskCalls)
    /\ RouterCalls \cap TaskCalls = {}
    /\ RouterTimeout \in Nat \ {0}
    /\ RequestTimeout \in Nat \ {0}

Timeout(call) ==
    IF call \in RouterCalls THEN RouterTimeout ELSE RequestTimeout

VARIABLES
    circuit,    \* the shared BackendCircuit
    age,        \* how long each call has been running, NoTime if it is not
    window,     \* history: the probes of the present half-open window that
                \* are still running
    quiet       \* history: time since the last transient failure was
                \* recorded (NoTime before the first), up to OpenSeconds

vars == <<circuit, age, window, quiet>>

running == {call \in Calls : age[call] # NoTime}

TypeOK ==
    /\ circuit \in Circuit
    /\ age \in [Calls -> Int]
    /\ \A call \in Calls : age[call] \in NoTime..Timeout(call)
    /\ window \in SUBSET running
    /\ quiet \in NoTime..OpenSeconds

Init ==
    /\ circuit = Closed
    /\ age = [call \in Calls |-> NoTime]
    /\ window = {}
    /\ quiet = NoTime

-----------------------------------------------------------------------------

\* allow_request answers True and the call is on its way to the backend.
Admit(call) ==
    /\ age[call] = NoTime
    /\ Allows(circuit)
    /\ circuit' = AllowRequest(circuit)
    /\ age' = [age EXCEPT ![call] = 0]
    /\ window' = IF circuit'.state # "HALF_OPEN" THEN {}
                 ELSE IF circuit.state = "HALF_OPEN" THEN window \cup {call}
                 ELSE {call}
    /\ UNCHANGED quiet

\* allow_request answers False: the caller raises CIRCUIT_OPEN, and records
\* nothing.
Refuse(call) ==
    /\ age[call] = NoTime
    /\ ~Allows(circuit)
    /\ circuit' = AllowRequest(circuit)
    /\ UNCHANGED <<age, window, quiet>>

\* A running call ends and leaves the circuit as `after`.
Finish(call, after) ==
    /\ age[call] # NoTime
    /\ circuit' = after
    /\ age' = [age EXCEPT ![call] = NoTime]
    /\ window' = IF after.state = "HALF_OPEN" THEN window \ {call} ELSE {}

\* The call returns a decision or an answer.
Succeed(call) ==
    /\ Finish(call, RecordSuccess(circuit))
    /\ UNCHANGED quiet

\* asyncio.timeout(config.timeout) expires, in the router or the dispatcher.
TimeOut(call) ==
    /\ age[call] = Timeout(call)
    /\ Finish(call, RecordFailure(circuit, TRUE))
    /\ quiet' = 0

\* ProviderUnavailableError reaches the dispatcher, with the failure scope
\* the adapter classified.
TaskFails(call) ==
    /\ call \in TaskCalls
    /\ \E transient \in BOOLEAN :
          /\ Finish(call, RecordFailure(circuit, transient))
          /\ quiet' = IF transient THEN 0 ELSE quiet

\* _raise_unavailable or a second malformed decision: the failure is recorded
\* where it is met, and the RouterUnavailableError it raises then runs through
\* the `except BaseException` of decide, which releases a probe as well.
RouterFails(call) ==
    /\ call \in RouterCalls
    /\ \E transient \in BOOLEAN :
          /\ Finish(call, ReleaseProbe(RecordFailure(circuit, transient)))
          /\ quiet' = IF transient THEN 0 ELSE quiet

\* Cancellation, a disabled provider or an unexpected exception: nothing is
\* recorded, the slot is given back.
Abandon(call) ==
    /\ Finish(call, ReleaseProbe(circuit))
    /\ UNCHANGED quiet

\* The monotonic clock advances by one unit.  asyncio runs the timers that
\* are due before time goes on: no call outlives its timeout.
Tick ==
    /\ \A call \in running : age[call] < Timeout(call)
    /\ circuit' = Age(circuit)
    /\ age' = [call \in Calls |->
                  IF age[call] = NoTime THEN NoTime ELSE age[call] + 1]
    /\ quiet' = IF quiet \in 0..(OpenSeconds - 1) THEN quiet + 1 ELSE quiet
    /\ UNCHANGED window

Complete(call) ==
    \/ Succeed(call)
    \/ TimeOut(call)
    \/ TaskFails(call)
    \/ RouterFails(call)
    \/ Abandon(call)

Next ==
    \/ \E call \in Calls : Admit(call) \/ Refuse(call) \/ Complete(call)
    \/ Tick

Spec == Init /\ [][Next]_vars

\* Every call ends, because decide and dispatch both run under
\* asyncio.timeout; and the monotonic clock advances.  Nothing makes clients
\* send requests: Admit has no fairness.
FairSpec ==
    /\ Spec
    /\ WF_vars(Tick)
    /\ \A call \in Calls : WF_vars(Complete(call))

-----------------------------------------------------------------------------
(* Properties                                                              *)

\* The fields of the circuit agree with each other and with what was
\* recorded: a closed circuit has nothing pending and too few failures; any
\* other has the failures that opened it, its age is the time since the last
\* transient failure (so `assert opened_at is not None` in allow_request
\* holds), and it is half-open only after a full cooldown.
CircuitConsistent ==
    /\ circuit.state = "CLOSED" =>
          /\ circuit.consecutive_failures < FailureThreshold
          /\ circuit.opened_for = NoTime
    /\ circuit.state # "CLOSED" =>
          /\ circuit.consecutive_failures = FailureThreshold
          /\ circuit.opened_for = quiet
          /\ quiet # NoTime
    /\ circuit.state # "HALF_OPEN" =>
          /\ circuit.half_open_inflight = 0
          /\ window = {}
    /\ circuit.state = "HALF_OPEN" => quiet = OpenSeconds

\* Every probe slot in use belongs to a probe of this window that is still
\* running.  A slot that outlived its probe would be lost: with all slots
\* lost, nothing could close or reopen the circuit again.
NoProbeLeak == circuit.half_open_inflight <= Cardinality(window)

\* The failure of a router is accounted for once, although decide runs both
\* record_failure and, for the exception that carries it, release_probe: a
\* recorded failure always leaves the half-open window, where release_probe
\* does nothing.
RouterFailureCountedOnce ==
    \A transient \in BOOLEAN :
        ReleaseProbe(RecordFailure(circuit, transient))
            = RecordFailure(circuit, transient)

\* What /health reports is what the next request will meet: it is admitted
\* exactly when the snapshot shows a closed circuit or a half-open one with
\* a free slot.
SnapshotHonest ==
    Allows(circuit) <=>
        \/ Snapshot(circuit).state = "CLOSED"
        \/ /\ Snapshot(circuit).state = "HALF_OPEN"
           /\ Snapshot(circuit).half_open_inflight < HalfOpenProbes

\* No call reaches a failing backend early: a step that admits a call finds
\* fewer than FailureThreshold failures since the last sign of life, or a
\* backend on which no transient failure was recorded for OpenSeconds.
AdmissionJustified ==
    [][(running' \ running) # {} =>
          \/ circuit.consecutive_failures < FailureThreshold
          \/ quiet = OpenSeconds]_vars

\* A circuit never refuses for good, whatever the outstanding calls do: every
\* slot comes back and every cooldown ends, late failures included.
WillingAgain == []<>Allows(circuit)

\* README.md's state diagram: an open circuit is left after the cooldown,
\* through a half-open window, and closed by a successful probe.  It does not
\* hold: a call of before the outage may succeed late (README.md, section 4).
OpenEndsInProbe ==
    [][circuit.state = "OPEN" => circuit'.state # "CLOSED"]_vars

\* System_Architecture.md's "one half-open probe": a window never has more
\* probes running than HalfOpenProbes.  It takes a call that was admitted
\* before the outage and outlives the cooldown to break it, so it depends on
\* the timeouts (see TimeoutsShort).
ProbesBounded == Cardinality(window) <= HalfOpenProbes

\* The defaults (10 s and 20 s against 30 s) end every call of before the
\* outage before the half-open window starts.
TimeoutsShort == RouterTimeout < OpenSeconds /\ RequestTimeout < OpenSeconds

\* What TimeoutsShort buys: while the circuit is open, every running call is
\* older than the outage, so in a half-open window all running calls are its
\* own probes, and the slot counter is exact.
WindowExclusive ==
    /\ circuit.state = "OPEN" =>
          \A call \in running : age[call] >= circuit.opened_for
    /\ circuit.state = "HALF_OPEN" =>
          /\ window = running
          /\ circuit.half_open_inflight = Cardinality(window)

=============================================================================
