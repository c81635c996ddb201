\* A funding and a footprint; one worker, which may die.
SPECIFICATION DeliverySpec
CONSTANTS
  LastJob = 2
  Runners = {r1}
  MaxJobs = 1
  MaxAttempts = 2
  MaxFaults = 1
  Work <- FundedFootprint
  Quotes = {1, 2}
  MaxPending = 2
  MaxVersion = 1
INVARIANTS
  DeliveryTypeOK
  CompletedIsOnChain
  FailedIsNotOnChain
  LandsOnceUnlessLost
  TreasuryBalances
