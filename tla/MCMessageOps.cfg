CONSTANTS
    NONE = NONE
    WORD = 64
    BYTE = 8
    Versions <- MC_Versions
    StackVals <- MC_StackVals
    MaxStack <- MC_MaxStack
    MaxC5 <- MC_MaxC5
    TokensMax <- MC_TokensMax
    Prices <- MC_Prices
    MyMasterchain = FALSE
    BalanceHasOther = TRUE
    InMsgHasOther = TRUE
SPECIFICATION Spec
INVARIANTS
    TypeOK
