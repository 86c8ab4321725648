SPECIFICATION Spec
CONSTANTS
    ByteBits = 2
    WordBytes = 2
    OutLength = 6
    Calls <- WideFees
INVARIANTS
    FeeIsProduct
