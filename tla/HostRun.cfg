SPECIFICATION FairHostSpec
CONSTANTS
    BMax = 1
    RowMod = 2
    WB = 2
    NBits = 3
    KBits = 3
    FracMin = 1
    FracMax = 2
    Addrs <- HAddrs
    AddrMod = 128
    CounterMod = 2
    Positions = {0, 1, 2, 3, 4}
    Tokens = {0, 1}
    WrMod = 2
    MaxUnacked = 1
    Programs <- HImages
    HostOps <- HHost
    Prompts <- HPrompts
    Options <- HOptions
    Program <- HProgram
    MaxCtx = 3
INVARIANTS
    ReportIsOwn
    ReportIsPlace
    ContextComplete
    SavedIsComplete
PROPERTIES
    ProcessEnds
