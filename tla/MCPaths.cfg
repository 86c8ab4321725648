SPECIFICATION FairSpec
CONSTANTS
    U32 = 32
    U64 = 1024
    Capacity = 5
    Paths <- MCPaths
    NoPath <- MCNoPath
    PathLen <- MCPathLen
    Mainnet <- MCMainnet
    Residues <- MCResidues
    Commands <- PathCommands
INVARIANTS
    AnswerOwedIffScreen
    PathOfUpload
    ReviewEndsUpload
    AddressIsOfCommand
    SignatureIsOfUpload
PROPERTIES
    EveryCommandAnswered
    SessionImplemented
