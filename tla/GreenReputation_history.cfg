\* One user's footprints on some of five days; history window of three days.
SPECIFICATION Spec
CONSTANTS
  MaxU64 = 7
  GramsPerKg = 2
  SecondsPerDay = 2
  HistoryDays = 3
  MaxU32 = 1
  MaxTime = 8
  VaultRent = 1
  LamportSupply = 1
  admin = admin
  verifier = verifier
  minter = minter
  u1 = u1
  u2 = u2
  h1 = h1
  h2 = h2
  h3 = h3
  uriA = uriA
  uriB = uriB
  alias1 = alias1
  alias2 = alias2
  NotGiven = NotGiven
  NoKey = NoKey
  NoHash = NoHash
  NoProfile = NoProfile
  Keys = {admin, verifier, minter, u1}
  Users = {u1}
  ProtocolArgs <- HistoryProtocol
  ConfigUpdates <- NoArgs
  PublicProfiles = {alias1}
  SeedArgs <- NoArgs
  SyncArgs <- NoArgs
  FundAmounts <- NoArgs
  Footprints <- HistoryFootprints
SYMMETRY HistorySymmetry
INVARIANTS
  ProfileSummarisesCommitments
  HistoryMatchesCommitments
  PastMonthComplete
