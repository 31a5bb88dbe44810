SPECIFICATION FairSpec
CONSTANTS
    n1 = n1
    n2 = n2
    Names = {n1, n2}
    MaxAdds = 3
    Socket = TRUE
    AliveSecs = 1
INVARIANTS
    TypeOK
    LaunchedAsAdded
    ReadyThenStopping
PROPERTIES
    NotifierEnds
