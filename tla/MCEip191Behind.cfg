SPECIFICATION Spec
CONSTANTS
    U32 <- MCU32
    U64 <- MCU64
    Uploads <- MCUploads
    Residues <- MCResidues
INVARIANT
    MessageShownIsMessage
