SPECIFICATION Spec
CONSTANTS
    Vocab = 2
    MaxCtx = 6
    Widths = {2, 4}
    Struck <- MCStruck
    Indices = {1, 4}
    Prompt <- MCPrompt
    MaxNew = 2
INVARIANTS
    VerdictIsExact
CHECK_DEADLOCK FALSE
