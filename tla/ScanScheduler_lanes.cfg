SPECIFICATION SchedulerSpec
CONSTANTS
    a = a
    b = b
    x = x
    y = y
    z = z
    Keys <- MCKeys
    CheapKeys <- MCCheapKeys
    MaxPriority = 1
    MaxJobs = 3
    MaxEpoch = 1
    None = None
SYMMETRY MCSymmetry
INVARIANTS BooksBalance NoIdleLane
PROPERTIES ImplementsLanes

