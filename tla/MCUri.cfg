\* Paths of up to 4 characters.
SPECIFICATION Spec
CONSTANTS
    Slash = Slash
    Dot = Dot
    MaxLength = 4
    Targets <- MCTargets
INVARIANT
    UriIsNormalForm
