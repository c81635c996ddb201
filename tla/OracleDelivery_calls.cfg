\* The documents of two submissions and updates by the user; every call ends.
SPECIFICATION DeliveryFairSpec
CONSTANTS
  LastJob = 2
  Runners = {r1}
  MaxJobs = 1
  MaxAttempts = 2
  MaxFaults = 0
  Work <- TwoSyncs
  Quotes = {1}
  MaxPending = 1
  MaxVersion = 3
PROPERTIES
  QueueSpec
  EveryJobSettles
