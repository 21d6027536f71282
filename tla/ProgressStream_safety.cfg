SPECIFICATION Spec
CONSTANTS
    r1 = r1
    r2 = r2
    p1 = p1
    None = None
    Runs <- TwoRuns
    Loads <- OneLoad
    EventLimit = 2
    MaxEvents = 3
    MaxRows = 2
SYMMETRY Symmetry
INVARIANTS
    StreamSound
    RowsExactlyOnce
    OnlyDroppedEventsMissed
PROPERTY
    FollowsForward
CHECK_DEADLOCK FALSE
