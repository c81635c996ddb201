\* Five days of two moments each, a month of three days, clocks that differ by
\* more than a day either way.
SPECIFICATION Spec
CONSTANTS
  MaxU64 = 12
  GramsPerKg = 1000
  SecondsPerDay = 2
  HistoryDays = 3
  CentiKg = 2
  Emissions = {3, 7}
  SeedGrams = {5}
  Skews <- DaySkews
  SeedSkews <- SeederSkews
  MaxTime = 11
INVARIANTS
  BaselineIsAFullMonth
  BaselineOnAFreshDay
