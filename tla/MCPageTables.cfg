SPECIFICATION Spec
CONSTANTS
    EfiMaps <- MCEfiMaps
    LowPages = 3
    PageSize = 4096
    Radix = 3
    FirstMapped = 1
    Kernel <- MCKernel
    Framebuffer <- MCFramebuffer
    FramebufferMapped = 2
    Impossible = 242
    HeapStart = 54
    HeapPages = 2
    Devices = {45, 79}
    MaxHeap = 6
INVARIANTS
    TypeOK
    OwnedOnce
    Reachable
PROPERTY
    Implements
CHECK_DEADLOCK FALSE
