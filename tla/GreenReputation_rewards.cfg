\* Two users, funding and recycling of a few lamports, claims in every order.
SPECIFICATION Spec
CONSTANTS
  MaxU64 = 8
  GramsPerKg = 2
  SecondsPerDay = 1
  HistoryDays = 2
  MaxU32 = 1
  MaxTime = 1
  VaultRent = 1
  LamportSupply = 7
  admin = admin
  verifier = verifier
  minter = minter
  u1 = u1
  u2 = u2
  h1 = h1
  h2 = h2
  h3 = h3
  uriA = uriA
  uriB = uriB
  alias1 = alias1
  alias2 = alias2
  NotGiven = NotGiven
  NoKey = NoKey
  NoHash = NoHash
  NoProfile = NoProfile
  Keys = {admin, verifier, minter, u1, u2}
  Users = {u1, u2}
  ProtocolArgs <- RewardsProtocol
  ConfigUpdates <- RewardsUpdates
  PublicProfiles = {alias1}
  SeedArgs <- NoArgs
  SyncArgs <- NoArgs
  FundAmounts = {2, 3}
  Footprints <- RewardsFootprints
SYMMETRY UserSymmetry
INVARIANTS
  TreasurySolvent
  ClaimsAlwaysPayable
  RewardsAccountedOnce
PROPERTY LedgerSpec
