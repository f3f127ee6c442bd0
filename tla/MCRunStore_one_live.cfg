SPECIFICATION Spec
CONSTANTS
  Null = Null
  r1 = r1
  r2 = r2
  main = main
  Runs = {r1, r2}
  RefOf <- OneRef
  Threads = 3
  MaxTime = 0
  MaxFaults = 0
  MaxCrashes = 0
INVARIANT OneLiveRunPerRef
CHECK_DEADLOCK FALSE
