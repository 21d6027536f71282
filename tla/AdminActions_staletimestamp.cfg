SPECIFICATION Spec
CONSTANTS
    settingsSet = settingsSet
    projectDelete = projectDelete
    x1 = x1
    x2 = x2
    t1 = t1
    t2 = t2
    None = None
    LocalActions <- OneLocalAction
    RedActions <- NoAction
    Targets <- OneTarget
    Threads <- TwoThreads
    TokenTTL = 1
    GateTTL = 1
    MaxTime = 1
    MaxPassword = 1
    MaxTokens = 1
INVARIANT
    RevocationReachesKernel
