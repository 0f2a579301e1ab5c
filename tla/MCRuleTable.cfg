SPECIFICATION Spec
CONSTANTS
    a = a
    Names = {a}
    Unset = Unset
    NoKey = NoKey
    HttpTypes = {"URI"}
    Indexes = {0}
    MaxElements = 5
    MaxWalks = 1
INVARIANTS
    AcceptedAreRules
PROPERTIES
    WalkFindsRules
    WalkEnds
