CONSTANTS
    h1 = h1
    h2 = h2
    WORD = 64
    BYTE = 8
    NONE = NONE
    NoMsg = NoMsg
    MAX_ACTIONS <- MC_MAX_ACTIONS
    MaxMsgCells <- MC_MaxMsgCells
    MaxLibraryCells <- MC_MaxLibraryCells
    MaxStateCells <- MC_MaxStateCells
    Prices <- MC_Prices
    GasFees <- MC_GasFees
    AddrIsMasterchain = FALSE
    Balance0 <- MC_Balance0
    OriginalBalance <- MC_OriginalBalance
    TotalFees0 = 0
    EndLt0 = 0
    Chains <- MC_Chains
    InMsgs <- MC_InMsgs
    NewState0 <- MC_NewState0
    Hashes <- MC_Hashes
    CodeCells <- MC_CodeCells
    LibCells <- MC_LibCells

SPECIFICATION Spec

INVARIANT
    SpecConservationLaw
