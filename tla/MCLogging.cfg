SPECIFICATION Spec
CHECK_DEADLOCK FALSE
CONSTANTS
    k1 = k1
    k2 = k2
    Calls = {k1, k2}
    Levels = {3, 7}
    Lengths = {1, 3}
    Limit = 2
    MaxTotal = 4
    MaxRestarts = 1
INVARIANTS
    TypeOK
    FileBounded
    OneEntryPastLimit
    LevelsAgree
PROPERTIES
    StuckForGood
