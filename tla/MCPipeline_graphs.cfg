SPECIFICATION LocalSpec
CONSTANTS
  Null = Null
  Push = push
  a = a
  b = b
  c = c
  c1 = c1
  c2 = c2
  Ids <- ThreeIds
  Slashed <- OneSlashed
  MaxCalls = 3
  Commits <- TwoCommits
  First = c1
INVARIANTS NothingDropped RefusedIffUnrunnable ErrorsNameCulprits ViewsMatchPaths
INVARIANTS PrimitivesFollowJobs CheckedIsRun ExitMatchesRow
PROPERTY ImplementsDataflow
CHECK_DEADLOCK FALSE
SYMMETRY IdSymmetry
