CONSTANTS
    c1 = c1
    c2 = c2
    c3 = c3
    other = other
    v1 = v1
    v2 = v2
    v3 = v3
    remote = remote
    Commits = {c1, c2, c3, other}
    Parent <- MCParent
    Tree <- MCTree
    Blank = Blank
    Module = Module
    NotUtf8 = NotUtf8
    Garbled <- MCGarbled
    Printed <- MCPrinted
    Pathspec <- MCPathspec
    Followed <- MCFollowed
    Candidates <- MCCandidates
    Rows = 2
    None = None
    Gone = Gone
    HeadName = HeadName
    MirrorsOf <- MCMirrors
    Paths <- MCPaths
    ListRows = 2
    HomeRows = 1
    MaxRuns = 2
    MaxMoves = 2
SPECIFICATION Spec
INVARIANTS
    TypeOK
    QuietPageIsTrue
    PinnedPartsAgree
    PartsAreTimely
    VerdictIsBacked
