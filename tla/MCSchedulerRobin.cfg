SPECIFICATION Spec
CONSTANTS
    Threads = {k, a, b}
    Kernel = k
    NoThread = nothread
    Garbage = garbage
    InitialSize = 3
    Growth = 1
    QuantumMs = 3
    TickMs = 2
CHECK_DEADLOCK FALSE
PROPERTY RoundRobin
