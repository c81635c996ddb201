\* Registration, updates, minting, syncing until the version is exhausted, and
\* footprints between seeded histories.
SPECIFICATION Spec
CONSTANTS
  MaxU64 = 8
  GramsPerKg = 2
  SecondsPerDay = 2
  HistoryDays = 2
  MaxU32 = 4
  MaxTime = 3
  VaultRent = 1
  LamportSupply = 1
  admin = admin
  verifier = verifier
  minter = minter
  u1 = u1
  u2 = u2
  h1 = h1
  h2 = h2
  h3 = h3
  uriA = uriA
  uriB = uriB
  alias1 = alias1
  alias2 = alias2
  NotGiven = NotGiven
  NoKey = NoKey
  NoHash = NoHash
  NoProfile = NoProfile
  Keys = {admin, verifier, minter, u1}
  Users = {u1}
  ProtocolArgs <- MetadataProtocol
  ConfigUpdates <- MetadataUpdates
  PublicProfiles = {alias1, alias2}
  SeedArgs <- SeedHistories
  SyncArgs <- MetadataSyncs
  FundAmounts <- NoArgs
  Footprints <- SeedFootprints
SYMMETRY ProfileSymmetry
INVARIANT TypeOK
PROPERTY MetadataVersionLaw
