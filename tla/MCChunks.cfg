SPECIFICATION Spec
CONSTANTS
    U32 = 26
    U64 = 1024
    Capacity = 6
    Paths <- MCPaths
    NoPath <- MCNoPath
    PathLen <- MCPathLen
    Mainnet <- MCMainnet
    Residues <- MCResidues
    Commands <- ChunkCommands
INVARIANTS
    TypeOK
    CosmosReviewIsUpload
    EthReviewIsUpload
    Eip191ReviewIsUpload
