\* Two images through two inputs, overlapping reviews, one edit, two entries.
SPECIFICATION WorkspaceSpec
CONSTANTS
  SpendCategories <- Spends
  ActivityCategories <- Activities
  SpendFactor <- SpendFactors
  ActivityFactor <- ActivityFactors
  CentiKg = 2
  Files = {"bill", "photo"}
  Text <- Texts
  SampleText <- Samples
  Amounts <- TypedAmounts
  Baselines = {0, 5, 20}
  MaxUploads = 2
  MaxReviews = 2
  MaxEdits = 1
  MaxEntries = 2
INVARIANTS
  CandidatesCountedOnce
  OwnFileUnlessReplaced
  ScoreAsPromised
PROPERTY OnlyFirstEntryPays
