SPECIFICATION Spec
CONSTANTS
    Threads = {t1, t2}
    Sizes = {0, 16, 40, 96}
    PageUnits = 6
    InitialPages = 1
    MaxRequests = 5
    MaxEarly = 3
    MaxPages = 12
CHECK_DEADLOCK FALSE
INVARIANTS
    TypeOK
    Linked
    Coalesced
    BlocksIntact
    AtMostTwoExpansions
PROPERTIES
    MallocReturns
    Implements
