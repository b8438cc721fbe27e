CONSTANTS
    Requests = {q1, q2}
    Providers = {p1, p2}
    ImageProviders = {p1}
    TextProviders = {p2}
    MaxAttempts = 3
    MaxInFlight = 2
    NoConversation = NoConversation
    NoProvider = NoProvider
    NoAnswer = NoAnswer
    NoMessage = NoMessage
SPECIFICATION Spec
CHECK_DEADLOCK FALSE
INVARIANT QueryCurrent
