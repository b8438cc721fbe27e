CONSTANTS
    Requests = {q1, q2, q3, q4}
    Providers = {p1, p2, p3}
    ImageProviders = {p1, p2}
    TextProviders = {p3}
    MaxAttempts = 3
    MaxInFlight = 1
    NoConversation = NoConversation
    NoProvider = NoProvider
    NoAnswer = NoAnswer
    NoMessage = NoMessage
SPECIFICATION Spec
CHECK_DEADLOCK FALSE
SYMMETRY Symmetry
INVARIANTS
    BudgetHolds
    QueryCurrent
PROPERTIES
    ImageKept
    KeepsPromise
