SPECIFICATION Spec
CONSTANTS
    Full = 2
    Few = 1
    Vocab <- MCVocab
    Greedy <- MCGreedy
    PrefillCycles <- MCPrefillCycles
    Widths = {64, 128}
    MaxNews <- MCMaxNews
    Cuts <- MCCuts
    Benches <- MCBenches
    Equivalent <- MCEquivalent
    Blocks = {"qcore_top", "qcore_csr", "qcore_perf"}
    Builds = {"Yosys 0.65", "Yosys 0.66"}
    MaxCommands <- MCMaxCommands
    MaxStops = 1
    MaxEdits <- MCMaxEdits
INVARIANTS
    
    PublishedIsMeasured
CHECK_DEADLOCK FALSE
