SPECIFICATION FairSpec
CONSTANTS
    MaxMsgs = 3
    MaxRare = 1
    Persist = FALSE
    None = None
INVARIANTS
    QueueFaithful
PROPERTIES
    QueueDrains
CHECK_DEADLOCK FALSE
