\* Two documents on one request, accepted, rejected or overflowed; the LALR
\* stack holds two objects or six arrays.
CONSTANTS
    a = a
    b = b
    Names = {a, b}
    NoKey = NoKey
    Tables <- MCTables
    YYSTACKDEPTH = 15
    MaxIndex = 1
    MaxRoots = 2
SPECIFICATION Spec
INVARIANTS
    MatchedOnParseStack
    StackFits
    AcceptedIsBalanced
PROPERTIES
    OuterCursorsStay
    ValuesAreLeft
    ImplementsTraversal
