SPECIFICATION Spec
CONSTANTS
    MAX_NUMBER_OF_TOKENS = 110
    COIN_DEFAULT_CHAINID = "pacific-1"
    KeyOrder <- MCKeyOrder
    Transactions <- MCTransactions
    TurningTransactions <- MCTurning
    Documents <- MCDocuments
INVARIANTS
    TypeOK
    ApprovalSeesTransaction
    EveryItemShows
    ReviewedKeysSorted
    SpaceOnlyWhereUnseen
PROPERTY
    ItemKeepsPlace
