CONSTANTS
    NONE = NONE
    Callees <- MC_Callees
    PassArgs <- MC_PassArgs
    CCArgs <- MC_CCArgs
    LoopBodies <- MC_LoopBodies
    LoopCounts <- MC_LoopCounts
    MaxSteps = 4
    MaxDepth = 2
    MergeOverrides = TRUE
INIT Init
NEXT Next
INVARIANTS
    CalleeGetsNargs
