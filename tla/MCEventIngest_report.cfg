SPECIFICATION Spec
CONSTANTS
  Null = Null
  Push = push
  build = build
  deploy = deploy
  Pipelines <- UpToTwoJobs
  MaxClock = 2
  MaxCalls = 3
  MaxFaults = 2
INVARIANTS StreamPairsUp RowsAreReal VerdictMatchesJobs VerdictShowsEverything LogsMatchRows
PROPERTY ImplementsReport
CHECK_DEADLOCK FALSE
