CONSTANTS
    t1 = t1
    t2 = t2
    Threads <- MCThreads
    Objects <- MCObjects
    Volumes <- MCVolumes
    Paths <- MCPaths
    Sizes <- MCSizes
    MaxCalls = 2
SPECIFICATION Spec
INVARIANTS TypeOK BlocksOwned Resolves FilesRead
PROPERTY LookupEnds
CHECK_DEADLOCK FALSE
