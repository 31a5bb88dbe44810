SPECIFICATION FairSpec
CONSTANTS
    c1 = c1
    c2 = c2
    Callers = {c1, c2}
    Names = {"states"}
    Types = {"any", "ServiceStates"}
    MaxCalls = 5
INVARIANTS
    TypeOK
    NoDoubleClose
    TopicsUnique
    StaysEmpty
    EntriesUsable
PROPERTIES
    WaitEndsOnClose
