SPECIFICATION MCSpec
CONSTANTS
    BMax = 2
    RowMod = 2
    WB = 2
    NBits = 3
    KBits = 3
    FracMin = 1
    FracMax = 2
    Addrs <- MCAddrs
    AddrMod = 128
    CounterMod = 4
    Positions = {0, 1}
    Tokens = {0}
    WrMod = 4
    MaxUnacked = 1
    Programs <- MCPrograms
    HostOps <- MCHostOps
INVARIANTS
    TypeOK
    WrIdleExact
    EndFenced
    ReadFenced
    OneInFlight
    InHandIsPc
    ScalesCurrent
    BoundsCounted
    EndNotLost
PROPERTIES
    BundleHolds
    RunsAsPromised
