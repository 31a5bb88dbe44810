SPECIFICATION Spec
CONSTANTS
    c1 = c1
    c2 = c2
    c3 = c3
    c4 = c4
    g1 = g1
    g2 = g2
    Clients = {c1, c2, c3}
    Groups = {g1, g2}
    GroupOf <- Shared
    Policy <- OlderPolicies
    ErrIfExists = {c2}
    BufferSize = 1
    SubscriberAware = TRUE
    MaxSubscribes = 3
    MaxMessages = 2
INVARIANTS
    TypeOK
    RegisteredOpen
    InOrder
    UpToDate
    ClosedOnRequest
    AwareOnly
    AnswerDue
CHECK_DEADLOCK FALSE
