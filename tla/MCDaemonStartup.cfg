SPECIFICATION FairSpec
CONSTANTS
    Services = {s1, s2}
    Continuous = {s1}
    NoDelay = {s2}
    Manager <- MCManager
    StartupDelay <- MCStartupDelay
    DefaultDelay <- MCDefaultDelay
    UpdateCap = 1
    LogCap = 1
    NumStages = 2
    RestartModes = {TRUE, FALSE}
    LogWorkers = 1
    RPCEnabled = TRUE
INVARIANTS
    PrestartGate
    LogsHandedOver
PROPERTIES
    ShutdownCompletes
    SendsLifecycle
