SPECIFICATION Spec
CONSTANTS
    Growth = 20
    NTerminal = 3
    NSymbol = 5
    Numbers = {0, 1}
    TokenRows <- AllTokenRows
    NtRows <- AllNtRows
    MaxRows = 3
INVARIANTS
    TokensInTable
PROPERTIES
    RefinesMap
CHECK_DEADLOCK FALSE
