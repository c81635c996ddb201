---------------------------- MODULE RewardPolicy ----------------------------
(***************************************************************************)
(* Reward quotes and ranks: pure functions of the protocol configuration    *)
(* (state/mod.rs).                                                         *)
(***************************************************************************)
EXTENDS Lamports

CONSTANT GramsPerKg          \* 1_000 in the program

ASSUME GramsPerKgAssumption == GramsPerKg \in Nat \ {0}

RewardPolicies ==
  [lamports_per_kg_reduced : U64, minimum_reduction_grams : U64,
   max_lamports_per_period : U64, max_pending_lamports : U64]

RankThresholds ==
  [seedling_min_reduction_grams : U64, sapling_min_reduction_grams : U64,
   tree_min_reduction_grams : U64, forest_min_reduction_grams : U64]

ValidPolicy(policy) ==
  policy.max_pending_lamports >= policy.max_lamports_per_period

ValidThresholds(t) ==
  /\ t.seedling_min_reduction_grams <= t.sapling_min_reduction_grams
  /\ t.sapling_min_reduction_grams <= t.tree_min_reduction_grams
  /\ t.tree_min_reduction_grams <= t.forest_min_reduction_grams

\* The largest reward the verifier may attach to a reduction.  The code first
\* re-validates the policy, which every stored policy already satisfies.
QuoteRewardLamports(policy, reductionGrams) ==
  LET uncapped == SatMul(reductionGrams, policy.lamports_per_kg_reduced)
                    \div GramsPerKg
  IN  IF reductionGrams < policy.minimum_reduction_grams THEN 0
      ELSE IF uncapped < policy.max_lamports_per_period THEN uncapped
      ELSE policy.max_lamports_per_period

\* Sprout = 0, Seedling = 1, Sapling = 2, Tree = 3, Forest = 4
Ranks == 0 .. 4

\* The highest rank whose threshold the total reaches.
RankFromReduction(total, t) ==
  LET min == <<t.seedling_min_reduction_grams, t.sapling_min_reduction_grams,
               t.tree_min_reduction_grams, t.forest_min_reduction_grams>>
      reached == {0} \cup {r \in 1 .. 4 : total >= min[r]}
  IN  CHOOSE r \in reached : \A s \in reached : s <= r

=============================================================================
