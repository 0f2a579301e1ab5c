\* Rules of up to 3 steps of every type after "$", values up to 3 steps deep.
CONSTANTS
    a = a
    b = b
    Names = {a, b}
    NoKey = NoKey
    MaxSteps = 3
    StepTypes = {"NAME", "INDEX", "ANY", "ANYINDEX", "RECURSIVE"}
    MaxPath = 3
SPECIFICATION MCSpec
INVARIANTS
    TypeOK
    StackRestored
    CallsOwed
    NestingBounded
    NoErrorState1
    MatchInv
PROPERTY
    MatchEnds
