CONSTANTS
    NONE = NONE
    WORD = 64
    BYTE = 8
    Versions <- MC_Versions
    StackVals <- MC_FeeStackVals
    MaxStack <- MC_FeeMaxStack
    MaxC5 <- MC_MaxC5
    TokensMax <- MC_TokensMax
    Prices <- MC_Prices
    MyMasterchain = FALSE
    BalanceHasOther = TRUE
    InMsgHasOther = TRUE
SPECIFICATION Spec
INVARIANTS
    EstimateExactWhenLayoutsAgree
