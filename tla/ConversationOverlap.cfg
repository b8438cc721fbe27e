CONSTANTS
    Requests = {q1, q2, q3}
    Providers = {p1, p2, p3}
    ImageProviders = {p1}
    TextProviders = {p2, p3}
    MaxAttempts = 3
    MaxInFlight = 3
    NoConversation = NoConversation
    NoProvider = NoProvider
    NoAnswer = NoAnswer
    NoMessage = NoMessage
SPECIFICATION FairSpec
CHECK_DEADLOCK FALSE
INVARIANTS
    TypeOK
    LastAnswerTogether
    RetryElsewhere
PROPERTY EveryRequestEnds
