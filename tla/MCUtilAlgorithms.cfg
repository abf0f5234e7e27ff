CONSTANTS
    WORD = 8
    BYTE = 4
    VAR_WC_BITS = 16
    MaxWidth = 12
    LayoutBits = 6
    PENDING = PENDING

SPECIFICATION Spec

INVARIANTS
    TypeOK
    ShiftCeilIsCeiling
    StoreIntExact
    LoadUintLeqExact
    LoadIntSignExtends
    RemoveTrailingUndoesTag
    StoreIntEncodes
    LoadIntRoundTrip
    ParseAddrExact
    LayoutRewriteKeepsMessage
    UnpackAcceptsExactlyWellFormed
