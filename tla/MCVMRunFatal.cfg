CONSTANTS
    NONE = NONE
    Quit0 = Quit0
    Quit1 = Quit1
    ExcQuit = ExcQuit
    k1 = k1
    k2 = k2
    k3 = k3
    GasLimit = 5
    InstrGas = 1
    ImplicitJmprefGas = 1
    CellLoadGas = 1
    ImplicitRetGas = 1
    ExceptionGas = 2
    MaxStack = 2
    OrdConts <- MC_OrdConts
    OrdCode <- MC_OrdCode
    OrdNargs <- MC_OrdNargs
    OrdSaveC0 <- MC_OrdSaveC0
    CellVals <- MC_CellVals
    Data0 <- MC_Data0
    InitStacks <- MC_InitStacks
    Instrs <- MC_Instrs
    Codepages = {0}

SPECIFICATION Spec

INVARIANT
    UnhandledExitNotNegated
