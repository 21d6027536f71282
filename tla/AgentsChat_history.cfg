SPECIFICATION Spec
CONSTANTS
    MaxMsgs = 2
    MaxRare = 1
    Persist = TRUE
    None = None
INVARIANTS
    ChatBacked
    
    StopReachesLoneTurn
    RemovedStaysRemoved
    DeletedLeavesServer
CHECK_DEADLOCK FALSE
