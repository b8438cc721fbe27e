CONSTANTS
    Providers = {p1, p2, p3}
    p1 = p1
    p2 = p2
    p3 = p3
    Backends = {"google", "groq"}
    None = None
    BackendOf <- MCBackendOf
    RouterBackend <- MCRouterBackend
    CandidateLists <- MCCandidateLists
    Statuses = {302, 401, 503}
    HttpFailureReason <- MCHttpFailureReason
    MaxRounds = 1
SPECIFICATION Spec
CHECK_DEADLOCK FALSE
INVARIANTS
    TypeOK
    UpstreamStatusLast
    EndExplained
