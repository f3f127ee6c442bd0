CONSTANTS
    Sessions = {s1, s2}
    DotGit <- MCDotGit
    Reserved <- MCReserved
    RawNames <- MCRawNames
SPECIFICATION Spec
INVARIANTS TypeOK
PROPERTY OnlyNamedRemoved
