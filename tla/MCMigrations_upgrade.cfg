SPECIFICATION Spec
CONSTANTS
  Null = Null
  run = run
  job = job
  Ids <- OneRun
  JobIds <- OneJob
  Releases = {1, 6, 7, 9, 11}
  MaxTime = 1
  MaxDeaths = 1
INVARIANTS TypeOK UpgradeIsNeverRefused RunsKeepMeaning
