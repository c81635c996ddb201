-------------------------- MODULE MCGreenReputation --------------------------
(***************************************************************************)
(* Instances of GreenReputation for TLC.  Each run gives its own arguments  *)
(* to the instructions it is about; an instruction whose argument set is    *)
(* empty does not happen in that run.                                      *)
(***************************************************************************)
EXTENDS GreenReputation, TLC

CONSTANTS admin, verifier, minter, u1, u2,   \* keys
          h1, h2, h3,                        \* commitment hashes
          uriA, uriB,                        \* metadata URI hashes
          alias1, alias2                     \* public profiles

UserSymmetry == Permutations({u1, u2})

Policy(rate, minimum, perPeriod, pending) ==
  [lamports_per_kg_reduced |-> rate, minimum_reduction_grams |-> minimum,
   max_lamports_per_period |-> perPeriod, max_pending_lamports |-> pending]

Thresholds(a, b, c, d) ==
  [seedling_min_reduction_grams |-> a, sapling_min_reduction_grams |-> b,
   tree_min_reduction_grams |-> c, forest_min_reduction_grams |-> d]

Args(policy, thresholds, sponsors) ==
  [verifier |-> verifier, metadata_update_authority |-> minter,
   treasury_authority |-> admin, sbt_mint_authority |-> minter,
   allow_third_party_sponsors |-> sponsors, reward_policy |-> policy,
   rank_thresholds |-> thresholds]

NoUpdate ==
  [verifier |-> NotGiven, metadata_update_authority |-> NotGiven,
   treasury_authority |-> NotGiven, sbt_mint_authority |-> NotGiven,
   allow_third_party_sponsors |-> NotGiven, reward_policy |-> NotGiven,
   rank_thresholds |-> NotGiven]

Footprint(period, hash, emission, reduction, reward) ==
  [period_key |-> period, commitment_hash |-> hash,
   emission_delta_grams |-> emission, reduction_delta_grams |-> reduction,
   reward_delta_lamports |-> reward]

\* rewards: small quotes, a pending cap that two footprints reach, a policy
\* update that lowers the cap below what may already be pending, and one that
\* validate() rejects.
RewardsProtocol ==
  {Args(Policy(2, 1, 2, 3), Thresholds(1, 2, 3, 4), FALSE),
   Args(Policy(2, 1, 4, 3), Thresholds(1, 2, 3, 4), FALSE)}
RewardsUpdates ==
  {[NoUpdate EXCEPT !.reward_policy = Policy(2, 1, 1, 1)],
   [NoUpdate EXCEPT !.reward_policy = Policy(2, 1, 2, 1)],
   [NoUpdate EXCEPT !.rank_thresholds = Thresholds(2, 1, 3, 4)]}
RewardsFootprints ==
  {Footprint(1, h1, 1, 1, 1), Footprint(1, h2, 1, 2, 2), Footprint(2, h1, 1, 2, 2)}

\* history: footprints of one user over consecutive days, some days skipped,
\* with sums that saturate.
HistoryProtocol ==
  {Args(Policy(2, 1, 2, 3), Thresholds(1, 2, 3, 5), FALSE)}
HistoryFootprints ==
  {Footprint(p, h, 2 * p - 1, 4 - 2 * p, 0) : p \in {1, 2}, h \in {h1, h2}}
HistorySymmetry == Permutations({h1, h2})

\* profile: histories an admin may store, on time, ahead of the cluster's clock,
\* out of order and not on day boundaries, and footprints between them.
Entries(days) == [i \in DOMAIN days |-> DailyEntry(days[i], 1)]
Seed(days, last) ==
  [emission_history |-> Entries(days), last_verified_at |-> last,
   total_emissions_grams |-> Len(days), commitment_count |-> Len(days)]
SeedHistories ==
  {Seed(<<0, 2>>, 2), Seed(<<2, 4>>, 4), Seed(<<2, 3>>, 3), Seed(<<2, 0>>, 2)}
SeedFootprints == {Footprint(1, h, 1, 1, 0) : h \in {h1, h2}}

\* profile: public profiles, minting and syncing with a tiny u32.
MetadataProtocol ==
  {Args(Policy(2, 1, 2, 3), Thresholds(1, 2, 3, 4), s) : s \in BOOLEAN}
MetadataUpdates ==
  {[NoUpdate EXCEPT !.verifier = u1, !.metadata_update_authority = verifier,
                    !.treasury_authority = verifier],
   [NoUpdate EXCEPT !.sbt_mint_authority = admin,
                    !.allow_third_party_sponsors = TRUE]}
MetadataSyncs ==
  [metadata_version : 0 .. MaxU32, metadata_uri_hash : {uriA, uriB}]

ProfileSymmetry ==
  Permutations({h1, h2}) \cup Permutations({uriA, uriB})
                         \cup Permutations({alias1, alias2})

NoArgs == {}

=============================================================================
