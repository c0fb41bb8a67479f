SPECIFICATION Spec
CONSTANTS
    HeadDim = 2
    WordElems = 2
    SregCount = 13
    MetaBytes = 2
    RopeRowBytes = 2
    DescBytes = 2
    DumpAlign = 8
    Align = 8
    RopeBase = 264
    ConstBase = 296
    WeightBase = 328
    WbUnit = 1
    MaxCtxCap = 4
    Shapes <- MCShapes
    MaxWork = 72
    MaxMishaps = 1
    Damage = {13}
INVARIANTS
    OutputsAreGolden
    PlanDescribesWrites
    CacheIsHistory
    CountersMatchLayout
    NothingRaised
CHECK_DEADLOCK FALSE
