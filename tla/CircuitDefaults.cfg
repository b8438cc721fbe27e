CONSTANTS
    FailureThreshold = 2
    OpenSeconds = 3
    HalfOpenProbes = 2
    RouterCalls = {r1, r2}
    TaskCalls = {t1, t2}
    RouterTimeout = 1
    RequestTimeout = 2
SPECIFICATION Spec
SYMMETRY Symmetry
INVARIANTS
    WindowExclusive
    ProbesBounded
