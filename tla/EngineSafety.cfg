CONSTANTS
    b1 = b1
    b2 = b2
    p1 = p1
    p2 = p2
    p3 = p3
    Nobody = Nobody
    Requests = {r1, r2}
    Backends <- MCBackends
    Providers <- MCProviders
    BackendOf <- MCBackendOf
    RouterBackend <- MCRouterBackend
    CandidateLists <- MCCandidateLists
    FailureThreshold = 2
    OpenSeconds = 1
    HalfOpenProbes = 1
    RouterTimeout = 1
    RequestTimeout = 1
    OverallTimeout = 2
    MaxRounds = 1
SPECIFICATION Spec
SYMMETRY Symmetry
INVARIANTS
    TypeOK
    LogComplete
    QuiescentCircuits
PROPERTIES
    DeniedNotDispatched
