SPECIFICATION FairSpec
CONSTANTS
    Keys = {a}
    CheapKeys = {}
    StreamKeys = {a}
    FallbackKeys = {a}
    MaxPriority = 1
    MaxJobs = 3
    MaxEpoch = 1
    None = None
INVARIANTS OnlyThisSessionShows StoresBacked
PROPERTIES PausedStaysPaused 
