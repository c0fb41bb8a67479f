SPECIFICATION FairSpec
CONSTANTS
    HeadDim = 16
    WordElems = 4
    SregCount = 4
    MetaBytes = 4
    RopeRowBytes = 2
    DescBytes = 2
    DumpAlign = 8
    WB = 8
    BMax = 2
    VsramWords = 6
    NBits = 4
    KBits = 4
    FifoBeats = 4
    MetaFifoBeats = 4
    MaxBurst = 2
    RingWords = 2
    DumpQueue = 2
    Programs <- MCPrograms
    Mem <- MCMem
    Loaded <- MCLoaded
INVARIANTS
    OutputsExact
    SpaceReserved
PROPERTIES
    UnitsEnd
