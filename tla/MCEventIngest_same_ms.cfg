SPECIFICATION Spec
CONSTANTS
  Null = Null
  Push = push
  build = build
  deploy = deploy
  Pipelines <- OneJob
  MaxClock = 1
  MaxCalls = 2
  MaxFaults = 0
INVARIANT ReportedOutcomeStands
CHECK_DEADLOCK FALSE
