CONSTANTS
    Mant = 6
    AccW = 16
    OutW = 12
    Narrow = 3
    ShiftMax = 28
    E8 = 64
    TableBits = 3
    SigBits = 1
    Ext = 2
    Exp2Table <- MCExp2
    SigmoidTable <- MCSigmoid
    Unit = 3
    Heads = 4
    KvHeads = 2
    HeadDim = 4
    SmoothCap = 2
    Headroom = 1
    Eps = 1
    MaxCtx = 8
    Tokens <- MCTokens
    Checkpoint <- MCCheckpoint
    Levels <- MCLevels
SPECIFICATION Spec
INVARIANTS
    ShiftsProven
    ResultsRounded
    RowsAreScalars
    CalibrationFits
CHECK_DEADLOCK FALSE
