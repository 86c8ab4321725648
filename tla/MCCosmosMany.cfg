SPECIFICATION Spec
CONSTANTS
    MAX_NUMBER_OF_TOKENS = 768
    COIN_DEFAULT_CHAINID = "pacific-1"
    KeyOrder <- MCKeyOrder
    Transactions <- ManyTransactions
    TurningTransactions = {}
    Documents <- ManyDocuments
INVARIANT SubitemsCounted
