\* A LALR stack small enough for a short document to overflow it, with room
\* for every scalar at the root.
CONSTANTS
    a = a
    b = b
    Names = {a, b}
    NoKey = NoKey
    Tables <- MCTables
    YYSTACKDEPTH = 12
    MaxIndex = 1
    MaxRoots = 2
SPECIFICATION Spec
INVARIANT
    AcceptedLeavesNothing
