SPECIFICATION FairSpec
CONSTANTS
  Null = Null
  r1 = r1
  r2 = r2
  main = main
  Runs = {r1, r2}
  RefOf <- OneRef
  Threads = 2
  MaxTime = 1
  MaxFaults = 0
  MaxCrashes = 1
PROPERTY EveryRunResolves
CHECK_DEADLOCK FALSE
