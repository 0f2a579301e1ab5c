SPECIFICATION DriverSpec
CONSTANTS
    Grammars <- AllGrammars
    WordBound = 5
    TextBound = 8
    MaxTokens = 5
    YYSTACKDEPTH <- Depths
    Growth = 20
INVARIANTS
    FollowSetsAreLalr
    TokensAsResolved
    AssertionsHold
    AcceptedIsTranslated
    ErrorIsPrompt
    PrecedenceHonoured
    OverflowIsFinal
PROPERTIES
    ParseReturns
CHECK_DEADLOCK FALSE
