SPECIFICATION Spec
CONSTANTS
    Services = {s1}
    Continuous = {}
    NoDelay = {}
    Manager <- MCManager
    StartupDelay <- MCStartupDelay
    DefaultDelay <- MCDefaultDelay
    UpdateCap = 1
    LogCap = 1
    NumStages = 0
    RestartModes = {TRUE}
    LogWorkers = 1
    RPCEnabled = FALSE
INVARIANTS
    ExitReported
