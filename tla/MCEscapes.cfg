SPECIFICATION Spec
CONSTANTS
    Texts <- Documents
    HexDigits <- LetterEscapes
INVARIANT
    EscapeIsCharacter
CHECK_DEADLOCK FALSE
