\* Long enough for two parameters and one header, or one and two.
SPECIFICATION Spec
CONSTANTS
    a = a
    b = b
    Keys = {a, b}
    NoKey = NoKey
    MaxRegistered = 2
    MaxElements = 3
    MaxTokens = 19
    Tables <- MCTables
INVARIANTS
    EventsInOrder
    OkIffComplete
    ReadsOnePast
PROPERTIES
    CalledOnce
    NothingToldAfterwards
