SPECIFICATION WatchSpec
CONSTANTS
    c1 = c1
    c2 = c2
    g1 = g1
    g2 = g2
    Clients = {c1}
    Groups = {g1, g2}
    GroupOf <- ByConsumer
    Policy <- AllDropOldest
    ErrIfExists = {}
    BufferSize = 1
    SubscriberAware = FALSE
    MaxSubscribes = 2
    MaxMessages = 1
    Watches <- OneWatch
    Services = {"api"}
    States = {"exit", "run"}
INVARIANTS
    NoWatchCrash
CHECK_DEADLOCK FALSE
