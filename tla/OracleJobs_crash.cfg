SPECIFICATION FairSpec
CONSTANTS
  LastJob = 1
  Runners = {r1}
  MaxJobs = 1
  MaxAttempts = 2
  MaxFaults = 1
PROPERTIES
  EveryJobSettles
