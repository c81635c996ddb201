\* Two tabs of one wallet, two footprints.
SPECIFICATION WalletSpec
SYMMETRY TabSymmetry
CONSTANTS
  Tabs = {t1, t2}
  Aliases = {aoi, ren}
  NoAlias = NoAlias
  NoSnapshot = NoSnapshot
  MaxFootprints = 2
INVARIANTS
  WalletTypeOK
  AnnouncedClaimsWerePaid
  ConfirmedIsAnnounced
PROPERTIES
  NeverForgets
