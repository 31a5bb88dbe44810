SPECIFICATION WatchSpec
CONSTANTS
    c1 = c1
    c2 = c2
    g1 = g1
    g2 = g2
    Clients = {c1, c2}
    Groups = {g1, g2}
    GroupOf <- ByConsumer
    Policy <- AllDropOldest
    ErrIfExists = {}
    BufferSize = 1
    SubscriberAware = FALSE
    MaxSubscribes = 2
    MaxMessages = 2
    Watches <- TwoKinds
    Services = {"api", "db"}
    States = {"exit", "run"}
INVARIANTS
    WatchEndsOnCancel
    LatestMatchDelivered
CONSTRAINT
    BeforeClose
CHECK_DEADLOCK FALSE
