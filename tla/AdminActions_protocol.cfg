SPECIFICATION Spec
CONSTANTS
    settingsSet = settingsSet
    projectDelete = projectDelete
    x1 = x1
    x2 = x2
    t1 = t1
    t2 = t2
    None = None
    LocalActions <- NoAction
    RedActions <- OneRedAction
    Targets <- TwoTargets
    Threads <- OneThread
    TokenTTL = 1
    GateTTL = 2
    MaxTime = 3
    MaxPassword = 2
    MaxTokens = 1
INVARIANTS
    
    RevocationReachesKernel
PROPERTIES
    OnlyPlannedEffects
    
