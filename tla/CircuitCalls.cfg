CONSTANTS
    FailureThreshold = 3
    OpenSeconds = 2
    HalfOpenProbes = 2
    RouterCalls = {r1, r2}
    TaskCalls = {t1, t2, t3}
    RouterTimeout = 1
    RequestTimeout = 3
SPECIFICATION FairSpec
INVARIANTS
    TypeOK
    CircuitConsistent
    NoProbeLeak
    RouterFailureCountedOnce
    SnapshotHonest
PROPERTIES
    AdmissionJustified
    WillingAgain
