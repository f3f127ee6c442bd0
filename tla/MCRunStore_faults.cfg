SPECIFICATION Spec
CONSTANTS
  Null = Null
  r1 = r1
  r2 = r2
  main = main
  Runs = {r1, r2}
  RefOf <- OneRef
  Threads = 3
  MaxTime = 1
  MaxFaults = 1
  MaxCrashes = 1
INVARIANT VerdictIsEarned
INVARIANT RestartIsNeverRefused
INVARIANT CancelSettlesFinished
INVARIANT NothingLeftOpen
PROPERTY OutcomeIsFinal
PROPERTY OrphansHaveNoHandler
PROPERTY OrphansNeverStart
PROPERTY ImplementsLifecycle
CHECK_DEADLOCK FALSE
