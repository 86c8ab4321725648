SPECIFICATION Spec
CONSTANTS
    MAX_NUMBER_OF_TOKENS = 768
    COIN_DEFAULT_CHAINID = "pacific-1"
    KeyOrder <- MCKeyOrder
    Transactions <- MixedTransactions
    TurningTransactions = {}
    Documents <- MixedDocuments
INVARIANT EveryFieldShown
