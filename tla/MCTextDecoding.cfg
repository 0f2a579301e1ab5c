SPECIFICATION Spec
CONSTANTS
    Texts <- All
    HexDigits <- DigitEscapes
INVARIANTS
    GivenAsMeant
    RestAsReceived
    ReadsInText
CHECK_DEADLOCK FALSE
