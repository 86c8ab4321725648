SPECIFICATION Spec
CONSTANTS
    U32 <- MCU32
    U64 <- MCU64
    Blobs <- MCBlobs
    Messages <- MCMessages
    Transactions <- MCAllTransactions
INVARIANT
    DataShownOnlyIfPresent
