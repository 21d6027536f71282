SPECIFICATION Spec
CONSTANTS
    Wanted <- OneOfEachKind
    MaxLoads = 2
    AbortProne <- Prone
INVARIANT PageShowsCurrentLoad
CHECK_DEADLOCK FALSE
