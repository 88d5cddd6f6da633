SPECIFICATION Spec
CONSTANTS
    EfiMaps <- MCEfiMaps
    LowPages = 1
    PageSize = 4096
    LockRanges <- MCLockRanges
    RunLengths = {3}
INVARIANT
    RunsAreLocked
