\* All paths of up to 9 characters.
SPECIFICATION Spec
CONSTANTS
    Slash = Slash
    Dot = Dot
    MaxLength = 9
    Targets <- MCTargets
INVARIANT
    UriIsNormal
PROPERTY
    WritesBehindReader
