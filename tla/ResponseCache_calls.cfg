SPECIFICATION FairSpec
CONSTANTS
    c1 = c1
    c2 = c2
    c3 = c3
    k1 = k1
    None = None
    Callers <- ThreeCallers
    Keys <- OneKey
    Scopes <- OneScope
    MaxVersion = 1
INVARIANTS
    RegistrationIsLive
    WaiterHasLoader
    Coalesced
    FreshAfterQuietInvalidation
PROPERTIES
    EntryNeverRegresses
    EveryCallReturns
