SPECIFICATION FairSpec
CONSTANTS
    a = a
    b = b
    Wake = Wake
    Ids <- TwoIds
    MaxSessions = 1
    TableCap = 1
    MaxRevision = 2
    MaxPuts = 2
INVARIANTS
    AnswersLastMessage
    
    TableAccounts
PROPERTIES
    NeverResubmitted
    StopEndsRunner
    PendingResolves
