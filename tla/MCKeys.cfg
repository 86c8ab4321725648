SPECIFICATION Spec
CONSTANTS
    Commands <- MCCommands
    IoSize = 20
    ScalarLen = 2
    EthAddrLen = 4
    Bech32Len = 3
    DerLens = {6, 7}
    EncoderErrors = {0, 3}
    ChainCodes <- MCChainCodes
INVARIANTS
    TypeOK
    SecretsWiped
    
    SignatureIsOfMessage
    FailureLeavesNoSignature
PROPERTIES
    EveryRequestAnswered
