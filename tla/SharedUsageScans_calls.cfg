SPECIFICATION FairSpec
CONSTANTS
    c1 = c1
    c2 = c2
    c3 = c3
    None = None
    Callers <- ThreeCallers
    MaxEvents = 3
    MaxVersion = 1
INVARIANTS
    NothingFromBeforeClear
    RegistrySound
PROPERTY WaitersWake
