SPECIFICATION FairSpec
CONSTANTS
    WB = 1
    DescB = 2
    DqDepth = 2
    ByteMod = 6
    MaxBurst = 2
    LowMark = 2
    BeatCap = 2
    BeatMod = 4
    WrMod = 2
    MaxUnacked = 1
    Pcs = {0, 4}
    SLens = {1}
INVARIANTS
    OutBeatsExact
    HeadIsNext
PROPERTIES
    HeadArrives
