SPECIFICATION Spec
CONSTANTS
    Threads = {t1, t2}
    Boot = t1
    Requests <- MCRequests
    SectorSize = 2
    BufferSectors = 2
    LbaLow = 5
    Word = 10
    Junk = Junk
    Blank = Blank
INVARIANTS
    TypeOK
    PortOwned
    BufferFresh
PROPERTIES
    TableStable
    PortReleased
    Implements
