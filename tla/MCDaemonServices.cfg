SPECIFICATION Spec
CONSTANTS
    Services = {s1, s2}
    Continuous = {s1}
    NoDelay = {}
    Manager <- MCManager
    StartupDelay <- MCStartupDelay
    DefaultDelay <- MCDefaultDelay
    UpdateCap = 2
    LogCap = 1
    NumStages = 0
    RestartModes = {TRUE}
    LogWorkers = 1
    RPCEnabled = FALSE
INVARIANTS
    TypeOK
    NoSendOnClosed
    StopBeforeExit
    NoSecondStop
    AnnouncedState
    FinalStates
PROPERTIES
    ExitIsFinal
    PublishesLifecycle
