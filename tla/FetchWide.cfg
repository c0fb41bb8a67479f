SPECIFICATION Spec
CONSTANTS
    WB = 2
    DescB = 1
    DqDepth = 6
    ByteMod = 8
    MaxBurst = 2
    LowMark = 2
    BeatCap = 2
    BeatMod = 4
    WrMod = 2
    MaxUnacked = 1
    Pcs = {0, 3}
    SLens = {1}
INVARIANTS
    NoOverflow
    HeadIsNext
    OneOvertakes
    FetchSlot
PROPERTIES
    StreamsInOrder
