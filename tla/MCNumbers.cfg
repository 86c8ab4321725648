SPECIFICATION Spec
CONSTANTS
    ByteBits = 2
    WordBytes = 2
    OutLength = 5
    Calls <- MCCalls
INVARIANTS
    TypeOK
    NumeralInBuffer
    DivisionHolds
    NumeralIsNumber
    RefusedOnlyIfTooLong
PROPERTIES
    EveryNumberPrinted
