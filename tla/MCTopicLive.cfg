SPECIFICATION FairSpec
CONSTANTS
    c1 = c1
    c2 = c2
    c3 = c3
    c4 = c4
    g1 = g1
    g2 = g2
    Clients = {c1, c2, c3, c4}
    Groups = {g1, g2}
    GroupOf <- Pairs
    Policy <- SoundPolicies
    ErrIfExists = {c1}
    BufferSize = 1
    SubscriberAware = FALSE
    MaxSubscribes = 2
    MaxMessages = 1
PROPERTIES
    BroadcastCompletes
    CloseCompletes
    RequestsHandled
CHECK_DEADLOCK FALSE
