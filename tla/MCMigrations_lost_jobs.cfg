SPECIFICATION Spec
CONSTANTS
  Null = Null
  run = run
  job = job
  Ids <- OneRun
  JobIds <- OneJob
  Releases = {1, 6, 7, 9, 11}
  MaxTime = 0
  MaxDeaths = 0
PROPERTY JobsSurviveUpgrades
