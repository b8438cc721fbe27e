--------------------------- MODULE BackendCircuit ---------------------------
(***************************************************************************)
(* The circuit of one backend (providers/circuit_breaker.py), as the       *)
(* operators its synchronous methods are.  A circuit is a record; an       *)
(* operator maps the circuit before the call to the circuit after it.      *)
(* Routers and task providers share the circuits of BackendCircuits.       *)
(*                                                                         *)
(* Two data abstractions, both exact for every decision the code takes:    *)
(*  - opened_at is only ever read as clock() - opened_at, and that only    *)
(*    compared with open_seconds: the record keeps that age, saturated at  *)
(*    OpenSeconds, and NoTime where opened_at is None;                     *)
(*  - consecutive_failures is only ever compared with failure_threshold:   *)
(*    it saturates there.                                                  *)
(***************************************************************************)
EXTENDS Integers

CONSTANTS
    FailureThreshold,   \* failure_threshold: transient failures that open
    OpenSeconds,        \* open_seconds: how long an open circuit refuses
    HalfOpenProbes      \* half_open_probes: slots while recovering

\* The bounds the settings validate: ge=1, gt=0, ge=1.
ASSUME CircuitAssumption ==
    /\ FailureThreshold \in Nat \ {0}
    /\ OpenSeconds \in Nat \ {0}
    /\ HalfOpenProbes \in Nat \ {0}

CircuitState == {"CLOSED", "OPEN", "HALF_OPEN"}

NoTime == -1

Circuit == [state : CircuitState,
            consecutive_failures : 0..FailureThreshold,
            opened_for : NoTime..OpenSeconds,
            half_open_inflight : 0..HalfOpenProbes]

\* A fresh BackendCircuit, which is also what record_success leaves.
Closed == [state |-> "CLOSED", consecutive_failures |-> 0,
           opened_for |-> NoTime, half_open_inflight |-> 0]

-----------------------------------------------------------------------------

\* Mutant of Cooling: one unit short.
CoolingBriefly(c) == c.opened_for < OpenSeconds - 1

\* The cooldown has not passed: clock() - opened_at < open_seconds.
Cooling(c) == c.opened_for < OpenSeconds

\* The first step of allow_request: an open circuit that has cooled down
\* starts a half-open window with every probe slot free.
EnterWindow(c) ==
    IF c.state = "OPEN" /\ ~Cooling(c)
    THEN [state |-> "HALF_OPEN",
          consecutive_failures |-> c.consecutive_failures,
          opened_for |-> c.opened_for, half_open_inflight |-> 0]
    ELSE c

\* Mutant of Allows: `<=` for `<` in the bound on the slots.
AllowsOneMore(c) ==
    \/ EnterWindow(c).state = "CLOSED"
    \/ /\ EnterWindow(c).state = "HALF_OPEN"
       /\ EnterWindow(c).half_open_inflight <= HalfOpenProbes

\* What allow_request answers.
Allows(c) ==
    \/ EnterWindow(c).state = "CLOSED"
    \/ /\ EnterWindow(c).state = "HALF_OPEN"
       /\ EnterWindow(c).half_open_inflight < HalfOpenProbes

\* The circuit after allow_request: an admission in a half-open window takes
\* a probe slot, a refusal changes nothing.
AllowRequest(c) ==
    IF Allows(c) /\ EnterWindow(c).state = "HALF_OPEN"
    THEN [EnterWindow(c) EXCEPT !.half_open_inflight = @ + 1]
    ELSE EnterWindow(c)

\* _open: the cooldown starts now.
Open(failures) == [state |-> "OPEN", consecutive_failures |-> failures,
                   opened_for |-> 0, half_open_inflight |-> 0]

\* Mutant of RecordSuccess: the failures are not reset.
RecordSuccessKeepsFailures(c) ==
    [c EXCEPT !.state = "CLOSED", !.opened_for = NoTime,
              !.half_open_inflight = 0]

RecordSuccess(c) == Closed

\* Mutant of RecordFailure: one that is not transient is ignored in a
\* half-open window too.
RecordFailureIgnores(c, backend_transient) ==
    LET failures == IF c.consecutive_failures < FailureThreshold
                    THEN c.consecutive_failures + 1 ELSE FailureThreshold
    IN  IF ~backend_transient THEN c
        ELSE IF c.state = "HALF_OPEN" THEN Open(c.consecutive_failures)
        ELSE IF failures >= FailureThreshold THEN Open(failures)
        ELSE [c EXCEPT !.consecutive_failures = failures]

\* record_failure: a failure that is not transient proves that the backend
\* answers, so it ends a half-open window and is otherwise ignored.  A
\* transient one is counted even when the circuit is already open, and then
\* restarts the cooldown.
RecordFailure(c, backend_transient) ==
    LET failures == IF c.consecutive_failures < FailureThreshold
                    THEN c.consecutive_failures + 1 ELSE FailureThreshold
    IN  IF ~backend_transient
        THEN IF c.state = "HALF_OPEN" THEN RecordSuccess(c) ELSE c
        ELSE IF c.state = "HALF_OPEN" THEN Open(c.consecutive_failures)
        ELSE IF failures >= FailureThreshold THEN Open(failures)
        ELSE [c EXCEPT !.consecutive_failures = failures]

\* Mutant of ReleaseProbe: the slot is not given back.
ReleaseProbeForgets(c) == c

\* release_probe: max(0, inflight - 1), only in a half-open window.
ReleaseProbe(c) ==
    IF c.state = "HALF_OPEN" /\ c.half_open_inflight > 0
    THEN [c EXCEPT !.half_open_inflight = @ - 1]
    ELSE c

\* One unit of the monotonic clock, as the circuit sees it.
Age(c) ==
    IF c.opened_for \in 0..(OpenSeconds - 1)
    THEN [c EXCEPT !.opened_for = @ + 1]
    ELSE c

\* Mutant of Snapshot: `>` for `>=`, so the preview is late at the boundary.
SnapshotLate(c) ==
    [state |-> IF /\ c.state = "OPEN"
                  /\ c.opened_for # NoTime
                  /\ c.opened_for > OpenSeconds
               THEN "HALF_OPEN" ELSE c.state,
     consecutive_failures |-> c.consecutive_failures,
     half_open_inflight |-> c.half_open_inflight]

\* snapshot(): previews the half-open window of a circuit that has cooled
\* down, by a comparison of its own, and leaves the circuit alone.
Snapshot(c) ==
    [state |-> IF /\ c.state = "OPEN"
                  /\ c.opened_for # NoTime
                  /\ c.opened_for >= OpenSeconds
               THEN "HALF_OPEN" ELSE c.state,
     consecutive_failures |-> c.consecutive_failures,
     half_open_inflight |-> c.half_open_inflight]

=============================================================================
