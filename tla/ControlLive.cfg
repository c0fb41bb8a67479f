SPECIFICATION FairSpec
CONSTANTS
    BMax = 1
    RowMod = 2
    WB = 2
    NBits = 3
    KBits = 3
    FracMin = 1
    FracMax = 2
    Addrs <- LiveAddrs
    AddrMod = 64
    CounterMod = 4
    Positions = {0}
    Tokens = {0}
    WrMod = 4
    MaxUnacked = 1
    Programs <- LivePrograms
    HostOps <- LiveHost
PROPERTIES
    RunEnds
