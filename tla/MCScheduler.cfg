SPECIFICATION Spec
CONSTANTS
    Threads = {k, a, b, c}
    Kernel = k
    NoThread = nothread
    Garbage = garbage
    InitialSize = 1
    Growth = 1
    QuantumMs = 3
    TickMs = 2
CHECK_DEADLOCK FALSE
INVARIANTS
    TypeOK
    NoThreadLost
    OnlyTornPanics
    LockOwned
PROPERTIES
    FirstInFirstOut
    RunsAgain
    LockReleased
