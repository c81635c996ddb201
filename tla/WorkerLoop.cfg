\* Two worker processes, one of which may be ended, and calls by hand.
SPECIFICATION WorkerFairSpec
CONSTANTS
  LastJob = 1
  MaxJobs = 1
  MaxAttempts = 2
  MaxFaults = 1
  p1 = p1
  p2 = p2
  Processes = {p1, p2}
  Runners <- Calls
INVARIANTS
  TypeOK
  OneExecutor
  LockedWhileRunning
  AttemptsAgree
PROPERTIES
  SettledForGood
  PolledJobsClaimed
  TicksEnd
\* Every process may be closed for good.
CHECK_DEADLOCK FALSE
