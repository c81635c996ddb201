------------------------ MODULE GreenReputationProofs ------------------------
(***************************************************************************)
(* The on-chain program keeps its types, stays solvent, accounts for every  *)
(* reward once and implements the reward ledger, for every choice of the    *)
(* constants.                                                              *)
(***************************************************************************)
EXTENDS GreenReputation, EmissionHistoryProofs

-----------------------------------------------------------------------------
\* Types

LEMMA Arithmetic ==
  ASSUME NEW a \in U64, NEW b \in U64
  PROVE  /\ SatAdd(a, b) \in U64
         /\ SatSub(a, b) \in U64
BY MaxU64Assumption DEF U64, SatAdd, SatSub

\* The rank is always one of the five.
LEMMA RankType ==
  ASSUME NEW total, NEW t
  PROVE  RankFromReduction(total, t) \in Ranks
<1> DEFINE min == <<t.seedling_min_reduction_grams,
                    t.sapling_min_reduction_grams,
                    t.tree_min_reduction_grams, t.forest_min_reduction_grams>>
           reached == {0} \cup {r \in 1 .. 4 : total >= min[r]}
<1>1. reached \subseteq 0 .. 4 /\ 0 \in reached
  OBVIOUS
<1> HIDE DEF reached
<1>2. \E r \in reached : \A s \in reached : s <= r
  <2>1. CASE 4 \in reached
    BY <1>1, <2>1
  <2>2. CASE 4 \notin reached /\ 3 \in reached
    BY <1>1, <2>2
  <2>3. CASE 4 \notin reached /\ 3 \notin reached /\ 2 \in reached
    BY <1>1, <2>3
  <2>4. CASE 4 \notin reached /\ 3 \notin reached /\ 2 \notin reached
    BY <1>1, <2>4
  <2>5. QED
    BY <2>1, <2>2, <2>3, <2>4
<1>3. (CHOOSE r \in reached : \A s \in reached : s <= r) \in reached
  BY <1>2
<1>4. QED
  BY <1>1, <1>3 DEF RankFromReduction, Ranks, reached

LEMMA NextVersionType ==
  ASSUME NEW v \in 0 .. MaxU32
  PROVE  NextVersion(v) \in 0 .. MaxU32
BY ConstantsAssumption DEF NextVersion

\* Writing one profile keeps the type of all.
LEMMA ProfileWrite ==
  ASSUME AccountsTypeOK, NEW u \in Users, NEW q \in Profiles,
         profile' = [profile EXCEPT ![u] = q]
  PROVE  profile' \in [Users -> Profiles]
BY DEF AccountsTypeOK

LEMMA InitTypes == Init => AccountsTypeOK
<1> SUFFICES ASSUME Init PROVE AccountsTypeOK
  OBVIOUS
<1> USE MaxU64Assumption, ConstantsAssumption DEF Init
<1>1. config \in Configs
  BY DEF NoConfig, Configs, Account, RewardPolicies, RankThresholds, U64
<1>2. treasury \in Treasuries
  BY DEF NoTreasury, Treasuries, Account, U64
<1>3. NewProfile(FALSE, NoKey, 0, 0, NoProfile) \in Profiles
  BY DEF NewProfile, Profiles, Account, Ranks, U64, Hashes, UriHashes, Periods
<1>4. profile \in [Users -> Profiles]
  BY <1>3
<1>5. /\ vault \in 0 .. LamportSupply + VaultRent
      /\ wallet \in [Users -> Nat]
      /\ now \in 1 .. MaxTime
      /\ commitments \subseteq FootprintCommitments
  OBVIOUS
<1>6. QED
  BY <1>1, <1>2, <1>4, <1>5 DEF AccountsTypeOK

LEMMA TypesPreserved == AccountsTypeOK /\ [Next]_vars => AccountsTypeOK'
<1> SUFFICES ASSUME AccountsTypeOK, [Next]_vars PROVE AccountsTypeOK'
  OBVIOUS
<1> USE MaxU64Assumption, ConstantsAssumption
<1>0. /\ now \in Int /\ 0 \in U64 /\ 1 \in U64
      /\ treasury \in Treasuries /\ config \in Configs
      /\ \A u \in Users : profile[u] \in Profiles
  BY DEF AccountsTypeOK, U64
<1>1. ASSUME NEW k \in Keys, NEW a \in ProtocolArgs, InitializeProtocol(k, a)
      PROVE  AccountsTypeOK'
  <2>1. config' \in Configs
    BY <1>1, ArgumentsAssumption DEF InitializeProtocol, Configs, Account
  <2>2. QED
    BY <1>1, <2>1 DEF InitializeProtocol, AccountsTypeOK
<1>2. ASSUME NEW k \in Keys, NEW a \in ConfigUpdates,
             UpdateProtocolConfig(k, a)
      PROVE  AccountsTypeOK'
  <2>1. config' \in Configs
    <3>1. /\ Given(a.verifier, config.verifier) \in Account
          /\ Given(a.metadata_update_authority,
                   config.metadata_update_authority) \in Account
          /\ Given(a.treasury_authority, config.treasury_authority) \in Account
          /\ Given(a.sbt_mint_authority, config.sbt_mint_authority) \in Account
          /\ Given(a.allow_third_party_sponsors,
                   config.allow_third_party_sponsors) \in BOOLEAN
          /\ Given(a.reward_policy, config.reward_policy) \in RewardPolicies
          /\ Given(a.rank_thresholds, config.rank_thresholds)
               \in RankThresholds
      BY <1>0, ArgumentsAssumption DEF Configs, Account, Given
    <3>2. QED
      BY <1>0, <1>2, <3>1 DEF UpdateProtocolConfig, Configs
  <2>2. QED
    BY <1>2, <2>1 DEF UpdateProtocolConfig, AccountsTypeOK
<1>3. ASSUME NEW u \in Users, NEW k \in Keys, NEW p \in PublicProfiles,
             RegisterUser(u, k, p)
      PROVE  AccountsTypeOK'
  <2>1. RankFromReduction(0, config.rank_thresholds) \in Ranks
    BY RankType
  <2>2. NewProfile(TRUE, k, RankFromReduction(0, config.rank_thresholds), 1, p)
          \in Profiles
    BY <2>1 DEF NewProfile, Profiles, Account, U64, Hashes, UriHashes, Periods
  <2>3. QED
    BY <1>3, <2>2 DEF RegisterUser, AccountsTypeOK
<1>4. ASSUME NEW u \in Users, NEW p \in PublicProfiles, UpdatePublicProfile(u, p)
      PROVE  AccountsTypeOK'
  <2>1. NextVersion(profile[u].metadata_version) \in 0 .. MaxU32
    BY <1>0, NextVersionType DEF Profiles
  <2>2. [profile[u] EXCEPT
           !.public_profile = p,
           !.metadata_version = NextVersion(profile[u].metadata_version)]
          \in Profiles
    BY <1>0, <2>1 DEF Profiles
  <2>3. profile' \in [Users -> Profiles]
    BY <1>4, <2>2, ProfileWrite DEF UpdatePublicProfile
  <2>4. QED
    BY <1>4, <2>3 DEF UpdatePublicProfile, AccountsTypeOK
<1>5. ASSUME NEW k \in Keys, NEW u \in Users, NEW a \in SeedArgs,
             AdminSeedEmissionHistory(k, u, a)
      PROVE  AccountsTypeOK'
  <2>1. [profile[u] EXCEPT
           !.last_verified_at = a.last_verified_at,
           !.total_emissions_grams = a.total_emissions_grams,
           !.commitment_count = a.commitment_count] \in Profiles
    <3>1. /\ a.last_verified_at \in Int /\ a.total_emissions_grams \in U64
          /\ a.commitment_count \in U64
      BY ArgumentsAssumption
    <3>2. profile[u] \in Profiles
      BY <1>0
    <3>3. QED
      BY <3>1, <3>2 DEF Profiles
  <2>2. profile' \in [Users -> Profiles]
    BY <1>5, <2>1, ProfileWrite DEF AdminSeedEmissionHistory
  <2>3. QED
    BY <1>5, <2>2 DEF AdminSeedEmissionHistory, AccountsTypeOK
<1>6. ASSUME NEW u \in Users, NEW s \in Keys, NEW m \in Keys,
             MintUserSbt(u, s, m)
      PROVE  AccountsTypeOK'
  <2>1. NextVersion(profile[u].metadata_version) \in 0 .. MaxU32
    BY <1>0, NextVersionType DEF Profiles
  <2>2. [profile[u] EXCEPT
           !.has_sbt = TRUE,
           !.sbt_minted_at = now,
           !.metadata_version = NextVersion(profile[u].metadata_version)]
          \in Profiles
    <3>1. profile[u] \in Profiles
      BY <1>0
    <3>2. QED
      BY <1>0, <2>1, <3>1 DEF Profiles
  <2>3. profile' \in [Users -> Profiles]
    BY <1>6, <2>2, ProfileWrite DEF MintUserSbt
  <2>4. QED
    BY <1>6, <2>3 DEF MintUserSbt, AccountsTypeOK
<1>7. ASSUME NEW k \in Keys, NEW u \in Users, NEW a \in SyncArgs,
             SyncSbtState(k, u, a)
      PROVE  AccountsTypeOK'
  <2>1. a.metadata_version \in 0 .. MaxU32 /\ a.metadata_uri_hash \in UriHashes
    BY ArgumentsAssumption DEF UriHashes
  <2>2. [profile[u] EXCEPT
           !.metadata_version = a.metadata_version,
           !.metadata_uri_hash = a.metadata_uri_hash,
           !.last_metadata_sync_at = now] \in Profiles
    <3>1. profile[u] \in Profiles
      BY <1>0
    <3>2. QED
      BY <1>0, <2>1, <3>1 DEF Profiles
  <2>3. profile' \in [Users -> Profiles]
    BY <1>7, <2>2, ProfileWrite DEF SyncSbtState
  <2>4. QED
    BY <1>7, <2>3 DEF SyncSbtState, AccountsTypeOK
<1>8. ASSUME NEW k \in Keys, InitializeRewardTreasury(k)
      PROVE  AccountsTypeOK'
  <2>1. treasury' \in Treasuries
    BY <1>0, <1>8 DEF InitializeRewardTreasury, Treasuries, NoTreasury, Configs
  <2>2. QED
    BY <1>8, <2>1 DEF InitializeRewardTreasury, AccountsTypeOK
<1>9. ASSUME NEW k \in Keys, NEW n \in FundAmounts, FundTreasury(k, n)
      PROVE  AccountsTypeOK'
  <2>1. SatAdd(treasury.total_funded_lamports, n) \in U64
    BY Arithmetic, ArgumentsAssumption DEF AccountsTypeOK, Treasuries
  <2>2. treasury' \in Treasuries
    BY <1>0, <1>9, <2>1 DEF FundTreasury, Treasuries
  <2>3. vault' \in 0 .. LamportSupply + VaultRent
    BY <1>9, ArgumentsAssumption DEF FundTreasury, AccountsTypeOK, U64
  <2>4. QED
    BY <1>9, <2>2, <2>3 DEF FundTreasury, AccountsTypeOK
<1>10. ASSUME NEW k \in Keys, NEW u \in Users, NEW f \in Footprints,
              SubmitVerifiedFootprint(k, u, f)
       PROVE  AccountsTypeOK'
  <2>1. /\ f.emission_delta_grams \in U64 /\ f.reduction_delta_grams \in U64
        /\ f.reward_delta_lamports \in U64
        /\ f.period_key \in Periods /\ f.commitment_hash \in Hashes
    BY ArgumentsAssumption DEF Periods, Hashes
  <2>2. treasury' \in Treasuries
    <3>1. SatAdd(treasury.total_pending_lamports, f.reward_delta_lamports)
            \in U64
      BY <2>1, Arithmetic DEF AccountsTypeOK, Treasuries
    <3>2. QED
      BY <1>10, <3>1 DEF SubmitVerifiedFootprint, ReservePendingRewards,
                         AccountsTypeOK, Treasuries
  <2>3. profile' \in [Users -> Profiles]
    <3> DEFINE q == ApplyVerifiedFootprint(profile[u], f, now,
                                           config.rank_thresholds)
    <3>1. profile[u] \in Profiles /\ now \in Int
      BY DEF AccountsTypeOK
    <3>2. /\ SatAdd(profile[u].total_emissions_grams, f.emission_delta_grams)
               \in U64
          /\ SatAdd(profile[u].total_reduced_grams, f.reduction_delta_grams)
               \in U64
          /\ SatAdd(profile[u].pending_reward_lamports,
                    f.reward_delta_lamports) \in U64
      BY <2>1, <3>1, Arithmetic DEF Profiles
    <3>3. SatAdd(profile[u].commitment_count, 1) \in U64
      BY <3>1 DEF Profiles, SatAdd, U64
    <3>4. RankFromReduction(SatAdd(profile[u].total_reduced_grams,
                                   f.reduction_delta_grams),
                            config.rank_thresholds) \in Ranks
      BY RankType
    <3>5. q \in Profiles
      BY <2>1, <3>1, <3>2, <3>3, <3>4 DEF ApplyVerifiedFootprint, Profiles
    <3>6. profile' = [profile EXCEPT ![u] = q]
      BY <1>10 DEF SubmitVerifiedFootprint
    <3>7. QED
      BY <3>5, <3>6, ProfileWrite
  <2>4. Commitment(u, k, f, now) \in FootprintCommitments
    BY <2>1 DEF Commitment, FootprintCommitments, AccountsTypeOK
  <2>5. QED
    BY <1>10, <2>2, <2>3, <2>4 DEF SubmitVerifiedFootprint, AccountsTypeOK
<1>11. ASSUME NEW u \in Users, ClaimReward(u)
       PROVE  AccountsTypeOK'
  <2> DEFINE amount == profile[u].pending_reward_lamports
  <2>1. profile[u] \in Profiles /\ amount \in U64
    BY DEF AccountsTypeOK, Profiles
  <2>2. treasury' \in Treasuries
    <3>1. /\ SatSub(treasury.total_pending_lamports, amount) \in U64
          /\ SatAdd(treasury.total_disbursed_lamports, amount) \in U64
      BY <2>1, Arithmetic DEF AccountsTypeOK, Treasuries
    <3>2. QED
      BY <1>11, <3>1 DEF ClaimReward, Disburse, AccountsTypeOK, Treasuries
  <2>3. profile' \in [Users -> Profiles]
    <3>1. SatAdd(profile[u].total_claimed_lamports, amount) \in U64
      BY <2>1, Arithmetic DEF Profiles
    <3>2. ClaimPending(profile[u]) \in Profiles
      BY <1>0, <2>1, <3>1 DEF ClaimPending, Profiles
    <3>3. QED
      BY <1>11, <3>2, ProfileWrite DEF ClaimReward
  <2>4. vault' \in 0 .. LamportSupply + VaultRent
    BY <1>11, <2>1 DEF ClaimReward, AccountsTypeOK, U64
  <2>5. wallet' \in [Users -> Nat]
    BY <1>11, <2>1 DEF ClaimReward, AccountsTypeOK, U64
  <2>6. QED
    BY <1>11, <2>2, <2>3, <2>4, <2>5 DEF ClaimReward, AccountsTypeOK
<1>12. ASSUME Tick PROVE AccountsTypeOK'
  BY <1>12 DEF Tick, AccountsTypeOK
<1>13. ASSUME UNCHANGED vars PROVE AccountsTypeOK'
  BY <1>13 DEF vars, AccountsTypeOK
<1>14. QED
  BY <1>1, <1>2, <1>3, <1>4, <1>5, <1>6, <1>7, <1>8, <1>9, <1>10, <1>11,
     <1>12, <1>13 DEF Next

LEMMA InitHistory == Init => HistoryTypeOK
<1> SUFFICES ASSUME Init PROVE HistoryTypeOK
  OBVIOUS
<1>1. << >> \in Seq(DailyEntries) /\ Len(<< >>) <= HistoryDays
  BY EmptySeq, HistoryAssumption
<1>2. QED
  BY <1>1 DEF Init, HistoryTypeOK

\* Writing one history keeps the type of all.
LEMMA HistoryWrite ==
  ASSUME HistoryTypeOK, NEW u \in Users, NEW h \in Seq(DailyEntries),
         Len(h) <= HistoryDays, history' = [history EXCEPT ![u] = h]
  PROVE  HistoryTypeOK'
BY DEF HistoryTypeOK

\* A seeded history has at most HistoryDays entries and a footprint adds one
\* only where one has left the window or is drained.
LEMMA HistoryTypesPreserved ==
  AccountsTypeOK /\ HistoryTypeOK /\ [Next]_vars => HistoryTypeOK'
<1> SUFFICES ASSUME AccountsTypeOK, HistoryTypeOK, [Next]_vars
             PROVE  HistoryTypeOK'
  OBVIOUS
<1>1. ASSUME UNCHANGED history PROVE HistoryTypeOK'
  BY <1>1 DEF HistoryTypeOK
<1>2. ASSUME NEW k \in Keys, NEW u \in Users, NEW a \in SeedArgs,
             AdminSeedEmissionHistory(k, u, a)
      PROVE  HistoryTypeOK'
  <2>1. /\ a.emission_history \in Seq(DailyEntries)
        /\ history' = [history EXCEPT ![u] = a.emission_history]
        /\ Len(a.emission_history) \in 1 .. HistoryDays
    BY <1>2, ArgumentsAssumption DEF AdminSeedEmissionHistory, ValidSeed
  <2>2. Len(a.emission_history) <= HistoryDays
    BY <2>1, HistoryAssumption
  <2>3. QED
    BY <2>1, <2>2, HistoryWrite
<1>3. ASSUME NEW k \in Keys, NEW u \in Users, NEW f \in Footprints,
             SubmitVerifiedFootprint(k, u, f)
      PROVE  HistoryTypeOK'
  <2> DEFINE h == RecordDailyEmission(history[u], f.emission_delta_grams, now)
  <2>1. /\ history[u] \in Seq(DailyEntries) /\ Len(history[u]) <= HistoryDays
        /\ f.emission_delta_grams \in U64 /\ now \in Int
    BY ArgumentsAssumption DEF HistoryTypeOK, AccountsTypeOK
  <2>2. h \in Seq(DailyEntries) /\ Len(h) <= HistoryDays
    BY <2>1, RecordType
  <2>3. history' = [history EXCEPT ![u] = h]
    BY <1>3 DEF SubmitVerifiedFootprint
  <2> HIDE DEF h
  <2>4. QED
    BY <2>2, <2>3, HistoryWrite
<1>4. CASE \/ \E k \in Keys, a \in ProtocolArgs : InitializeProtocol(k, a)
           \/ \E k \in Keys, a \in ConfigUpdates : UpdateProtocolConfig(k, a)
           \/ \E u \in Users, k \in Keys, p \in PublicProfiles : RegisterUser(u, k, p)
           \/ \E u \in Users, p \in PublicProfiles : UpdatePublicProfile(u, p)
           \/ \E u \in Users, s, m \in Keys : MintUserSbt(u, s, m)
           \/ \E k \in Keys, u \in Users, a \in SyncArgs : SyncSbtState(k, u, a)
  BY <1>1, <1>4 DEF InitializeProtocol, UpdateProtocolConfig, RegisterUser,
                    UpdatePublicProfile, MintUserSbt, SyncSbtState
<1>5. CASE \/ \E k \in Keys : InitializeRewardTreasury(k)
           \/ \E k \in Keys, n \in FundAmounts : FundTreasury(k, n)
           \/ \E u \in Users : ClaimReward(u)
           \/ Tick \/ UNCHANGED vars
  BY <1>1, <1>5 DEF InitializeRewardTreasury, FundTreasury, ClaimReward, Tick, vars
<1>6. QED
  BY <1>2, <1>3, <1>4, <1>5 DEF Next

\* Every account keeps the widths the program declares, and no history outgrows
\* the bytes reserved for it, under every sequence of instructions: no user is
\* ever locked out of further footprints by encode_emission_history.
THEOREM ProgramTyped == Spec => []TypeOK
<1>1. Init => TypeOK
  BY InitTypes, InitHistory DEF TypeOK
<1>2. TypeOK /\ [Next]_vars => TypeOK'
  BY TypesPreserved, HistoryTypesPreserved DEF TypeOK
<1>3. QED
  BY <1>1, <1>2, PTL DEF Spec

-----------------------------------------------------------------------------
\* Rewards

\* Nothing was ever owed by a treasury or to a user that does not exist yet:
\* initialize_reward_treasury and register_user write zeros over nothing.
Blank ==
  /\ ~treasury.initialized => /\ treasury.total_pending_lamports = 0
                              /\ treasury.total_disbursed_lamports = 0
                              /\ treasury.total_funded_lamports = 0
  /\ \A u \in Users : ~profile[u].registered =>
       /\ profile[u].pending_reward_lamports = 0
       /\ profile[u].total_claimed_lamports = 0

\* The inductive invariant.
MoneyInv ==
  /\ AccountsTypeOK
  /\ Blank
  /\ TreasurySolvent
  /\ RewardsAccountedOnce
  /\ IsFiniteSet(commitments)

LEMMA PendingType ==
  ASSUME AccountsTypeOK
  PROVE  \A u \in Users : /\ Pending[u] \in U64
                          /\ Claimed[u] \in U64
                          /\ Pending[u] = profile[u].pending_reward_lamports
                          /\ Claimed[u] = profile[u].total_claimed_lamports
BY DEF AccountsTypeOK, Profiles, Pending, Claimed

\* Instructions that touch neither the rewards of a profile nor the treasury
\* keep the accounting.
LEMMA MoneyUntouched ==
  ASSUME MoneyInv, AccountsTypeOK', UNCHANGED <<treasury, vault, commitments, wallet>>,
         \A u \in Users :
           /\ profile'[u].pending_reward_lamports
                = profile[u].pending_reward_lamports
           /\ profile'[u].total_claimed_lamports
                = profile[u].total_claimed_lamports
           /\ profile[u].registered => profile'[u].registered
  PROVE  MoneyInv'
<1>1. Pending' = Pending /\ Claimed' = Claimed
  BY DEF Pending, Claimed
<1>2. \A u \in Users : RewardsOf(u)' = RewardsOf(u)
  BY DEF RewardsOf, CommitmentsOf
<1>3. TreasurySolvent'
  BY <1>1 DEF MoneyInv, TreasurySolvent, AvailableLamports
<1>4. RewardsAccountedOnce'
  BY <1>1, <1>2 DEF MoneyInv, RewardsAccountedOnce
<1>5. Blank'
  BY DEF MoneyInv, Blank
<1>6. QED
  BY <1>3, <1>4, <1>5 DEF MoneyInv

\* A commitment's amounts are numbers.
LEMMA GramsTyped ==
  \A c \in FootprintCommitments :
    /\ c.emission_delta_grams \in Nat /\ c.reduction_delta_grams \in Nat
    /\ c.reward_delta_lamports \in Nat
BY MaxU64Assumption DEF FootprintCommitments, U64

\* What one user's amount changes by, the total does.
LEMMA UsersTotalUpdate ==
  ASSUME NEW P, NEW Q, NEW u \in Users,
         \A v \in Users : P[v] \in U64 /\ Q[v] \in U64,
         \A v \in Users \ {u} : Q[v] = P[v]
  PROVE  Total(Users, Q) = Total(Users, P) - P[u] + Q[u]
<1>1. IsFiniteSet(Users) /\ Q[u] \in Nat /\ \A v \in Users : P[v] \in Nat
  BY ConstantsAssumption, MaxU64Assumption DEF U64
<1>2. QED
  BY <1>1, TotalUpdate

LEMMA InitMoney == Init => MoneyInv
<1> SUFFICES ASSUME Init PROVE MoneyInv
  OBVIOUS
<1>1. AccountsTypeOK
  BY InitTypes
<1>2. /\ treasury.total_pending_lamports = 0
      /\ treasury.total_disbursed_lamports = 0
      /\ treasury.total_funded_lamports = 0
      /\ ~treasury.initialized
  BY DEF Init, NoTreasury
<1>3. \A u \in Users : /\ profile[u].pending_reward_lamports = 0
                       /\ profile[u].total_claimed_lamports = 0
  BY DEF Init, NewProfile
<1>4. Total(Users, Pending) = 0 /\ Total(Users, Claimed) = 0
  BY <1>3, TotalZero DEF Pending, Claimed
<1>5. TreasurySolvent
  BY <1>2, <1>4 DEF TreasurySolvent, AvailableLamports, SatSub
<1>6. \A u \in Users : RewardsOf(u) = 0
  BY TotalZero DEF Init, RewardsOf, CommitmentsOf
<1>7. RewardsAccountedOnce
  <2>1. \A u \in Users : wallet[u] = 0
    BY DEF Init
  <2>2. QED
    BY <1>2, <1>3, <1>4, <1>6, <2>1 DEF RewardsAccountedOnce
<1>8. IsFiniteSet(commitments)
  BY FS_EmptySet DEF Init
<1>9. QED
  BY <1>1, <1>2, <1>3, <1>5, <1>7, <1>8 DEF MoneyInv, Blank

LEMMA MoneyFund ==
  ASSUME MoneyInv, AccountsTypeOK', NEW k \in Keys, NEW n \in FundAmounts,
         FundTreasury(k, n)
  PROVE  MoneyInv'
<1> USE MaxU64Assumption, ConstantsAssumption
<1>1. treasury \in Treasuries /\ n \in U64
  BY ArgumentsAssumption DEF MoneyInv, AccountsTypeOK
<1>2. /\ treasury'.total_funded_lamports
           = SatAdd(treasury.total_funded_lamports, n)
      /\ treasury'.total_disbursed_lamports = treasury.total_disbursed_lamports
      /\ treasury'.total_pending_lamports = treasury.total_pending_lamports
      /\ treasury'.initialized = treasury.initialized
      /\ treasury.initialized
  BY <1>1 DEF FundTreasury, Treasuries
<1>3. /\ AvailableLamports(treasury) <= AvailableLamports(treasury')
      /\ AvailableLamports(treasury') <= AvailableLamports(treasury) + n
      /\ AvailableLamports(treasury) \in Nat
      /\ AvailableLamports(treasury') \in Nat
  <2>1. /\ treasury.total_funded_lamports \in U64
        /\ treasury.total_disbursed_lamports \in U64
    BY <1>1 DEF Treasuries
  <2>2. QED
    BY <1>1, <1>2, <2>1 DEF AvailableLamports, SatAdd, SatSub, U64
<1>4. vault' = vault + n /\ vault \in Nat
  BY DEF FundTreasury, MoneyInv, AccountsTypeOK
<1>5. /\ UNCHANGED <<commitments, wallet, profile>>
      /\ Pending' = Pending /\ Claimed' = Claimed
      /\ \A u \in Users : RewardsOf(u)' = RewardsOf(u)
  BY DEF FundTreasury, Pending, Claimed, RewardsOf, CommitmentsOf
<1>6. TreasurySolvent'
  <2>1. /\ Total(Users, Pending) = treasury.total_pending_lamports
        /\ treasury.total_pending_lamports <= AvailableLamports(treasury)
        /\ AvailableLamports(treasury) + VaultRent <= vault
    BY <1>2 DEF MoneyInv, TreasurySolvent
  <2>2. treasury.total_pending_lamports \in Nat /\ n \in Nat
    BY <1>1 DEF Treasuries, U64
  <2>3. /\ treasury.total_pending_lamports <= AvailableLamports(treasury')
        /\ AvailableLamports(treasury') + VaultRent <= vault'
    BY <1>3, <1>4, <2>1, <2>2
  <2>4. QED
    BY <1>2, <1>5, <2>1, <2>3 DEF TreasurySolvent
<1>7. RewardsAccountedOnce'
  BY <1>2, <1>5 DEF MoneyInv, RewardsAccountedOnce
<1>8. Blank'
  BY <1>2, <1>5 DEF MoneyInv, Blank
<1>9. QED
  BY <1>5, <1>6, <1>7, <1>8 DEF MoneyInv

LEMMA MoneyTreasury ==
  ASSUME MoneyInv, AccountsTypeOK', NEW k \in Keys, InitializeRewardTreasury(k)
  PROVE  MoneyInv'
<1> USE MaxU64Assumption, ConstantsAssumption
<1>1. /\ treasury'.total_funded_lamports = 0
      /\ treasury'.total_disbursed_lamports = 0
      /\ treasury'.total_pending_lamports = 0
      /\ treasury'.initialized
      /\ vault' = VaultRent
  BY DEF InitializeRewardTreasury, NoTreasury
<1>2. /\ UNCHANGED <<commitments, wallet, profile>>
      /\ Pending' = Pending /\ Claimed' = Claimed
      /\ \A u \in Users : RewardsOf(u)' = RewardsOf(u)
  BY DEF InitializeRewardTreasury, Pending, Claimed, RewardsOf, CommitmentsOf
<1>3. /\ treasury.total_pending_lamports = 0
      /\ treasury.total_disbursed_lamports = 0
  BY DEF InitializeRewardTreasury, MoneyInv, Blank
<1>4. TreasurySolvent'
  BY <1>1, <1>2, <1>3
     DEF MoneyInv, TreasurySolvent, AvailableLamports, SatSub
<1>5. RewardsAccountedOnce'
  BY <1>1, <1>2, <1>3 DEF MoneyInv, RewardsAccountedOnce
<1>6. Blank'
  BY <1>1, <1>2 DEF MoneyInv, Blank
<1>7. QED
  BY <1>2, <1>4, <1>5, <1>6 DEF MoneyInv

\* claim_reward: both saturating operations of disburse and the one of
\* UserProfile::claim_reward are exact.
LEMMA MoneyClaim ==
  ASSUME MoneyInv, AccountsTypeOK', NEW u \in Users, ClaimReward(u)
  PROVE  MoneyInv'
<1> USE MaxU64Assumption, ConstantsAssumption
<1> DEFINE amount == profile[u].pending_reward_lamports
           funded == treasury.total_funded_lamports
           disbursed == treasury.total_disbursed_lamports
           pending == treasury.total_pending_lamports
           claimed == profile[u].total_claimed_lamports
<1>1. /\ treasury \in Treasuries /\ profile \in [Users -> Profiles]
      /\ wallet \in [Users -> Nat] /\ vault \in Int
      /\ amount \in U64 /\ funded \in U64 /\ disbursed \in U64
      /\ pending \in U64 /\ claimed \in U64
  BY DEF MoneyInv, AccountsTypeOK, Treasuries, Profiles
<1>2. /\ amount > 0 /\ amount <= pending
      /\ amount <= AvailableLamports(treasury)
      /\ vault' = vault - amount
      /\ treasury.initialized /\ profile[u].registered
  BY DEF ClaimReward
<1>3. /\ Total(Users, Pending) = pending
      /\ pending <= AvailableLamports(treasury)
      /\ AvailableLamports(treasury) + VaultRent <= vault
      /\ Total(Users, Claimed) = disbursed
  BY <1>2 DEF MoneyInv, TreasurySolvent, RewardsAccountedOnce
<1>4. claimed <= disbursed
  <2>1. Claimed[u] = claimed /\ \A v \in Users : Claimed[v] \in Nat
    BY PendingType, MaxU64Assumption DEF MoneyInv, U64
  <2>2. QED
    BY <1>3, <2>1, TotalBounds
<1>5. AvailableLamports(treasury) = funded - disbursed
      /\ disbursed + amount <= funded
  BY <1>1, <1>2 DEF AvailableLamports, SatSub, U64
<1>6. /\ SatSub(pending, amount) = pending - amount
      /\ SatAdd(disbursed, amount) = disbursed + amount
      /\ SatAdd(claimed, amount) = claimed + amount
  BY <1>1, <1>2, <1>4, <1>5 DEF SatSub, SatAdd, U64
<1>7. /\ treasury'.total_funded_lamports = funded
      /\ treasury'.total_disbursed_lamports = disbursed + amount
      /\ treasury'.total_pending_lamports = pending - amount
      /\ treasury'.initialized
  BY <1>1, <1>2, <1>6 DEF ClaimReward, Disburse, Treasuries
<1>8. /\ profile'[u].pending_reward_lamports = 0
      /\ profile'[u].total_claimed_lamports = claimed + amount
      /\ profile'[u].registered
      /\ wallet'[u] = wallet[u] + amount
      /\ \A v \in Users \ {u} : profile'[v] = profile[v] /\ wallet'[v] = wallet[v]
      /\ commitments' = commitments
  BY <1>1, <1>2, <1>6 DEF ClaimReward, ClaimPending, Profiles
<1>9. Total(Users, Pending') = pending - amount
  <2>1. \A v \in Users : Pending[v] \in U64 /\ Pending'[v] \in U64
    BY DEF MoneyInv, AccountsTypeOK, Profiles, Pending
  <2>2. \A v \in Users \ {u} : Pending'[v] = Pending[v]
    BY <1>8 DEF Pending
  <2>3. Total(Users, Pending') = Total(Users, Pending) - Pending[u] + Pending'[u]
    BY <2>1, <2>2, UsersTotalUpdate
  <2>4. Pending[u] = amount /\ Pending'[u] = 0
    BY <1>8 DEF Pending
  <2>5. QED
    BY <1>1, <1>3, <2>3, <2>4 DEF U64
<1>e. Total(Users, Claimed') = disbursed + amount
  <2>1. \A v \in Users : Claimed[v] \in U64 /\ Claimed'[v] \in U64
    BY DEF MoneyInv, AccountsTypeOK, Profiles, Claimed
  <2>2. \A v \in Users \ {u} : Claimed'[v] = Claimed[v]
    BY <1>8 DEF Claimed
  <2>3. Total(Users, Claimed') = Total(Users, Claimed) - Claimed[u] + Claimed'[u]
    BY <2>1, <2>2, UsersTotalUpdate
  <2>4. Claimed[u] = claimed /\ Claimed'[u] = claimed + amount
    BY <1>8 DEF Claimed
  <2>5. QED
    BY <1>1, <1>3, <2>3, <2>4 DEF U64
<1>10. AvailableLamports(treasury') = AvailableLamports(treasury) - amount
  BY <1>1, <1>2, <1>5, <1>7 DEF AvailableLamports, SatSub, U64
<1>11. TreasurySolvent'
  <2>1. AvailableLamports(treasury) \in Int /\ amount \in Int /\ pending \in Int
    BY <1>1, <1>5 DEF U64
  <2>2. /\ pending - amount <= AvailableLamports(treasury')
        /\ AvailableLamports(treasury') + VaultRent <= vault'
    BY <1>1, <1>2, <1>3, <1>10, <2>1
  <2>3. QED
    BY <1>7, <1>9, <2>2 DEF TreasurySolvent
<1>12. RewardsAccountedOnce'
  <2>1. ASSUME NEW v \in Users
        PROVE  RewardsOf(v)' = profile'[v].pending_reward_lamports
                                 + profile'[v].total_claimed_lamports
               /\ wallet'[v] = profile'[v].total_claimed_lamports
    <3>1. RewardsOf(v)' = RewardsOf(v)
      BY <1>8 DEF RewardsOf, CommitmentsOf
    <3>2. /\ RewardsOf(v) = profile[v].pending_reward_lamports
                             + profile[v].total_claimed_lamports
          /\ wallet[v] = profile[v].total_claimed_lamports
      BY DEF MoneyInv, RewardsAccountedOnce
    <3>3. CASE v = u
      BY <1>1, <1>8, <3>1, <3>2, <3>3 DEF U64
    <3>4. CASE v # u
      BY <1>8, <3>1, <3>2, <3>4
    <3>5. QED
      BY <3>3, <3>4
  <2>2. QED
    BY <1>7, <1>e, <2>1 DEF RewardsAccountedOnce
<1>13. Blank'
  BY <1>7, <1>8 DEF MoneyInv, Blank
<1>14. QED
  BY <1>8, <1>11, <1>12, <1>13 DEF MoneyInv

\* submit_verified_footprint: what is reserved fits the available funds, so the
\* saturating additions are exact, and the commitment is a new one.
LEMMA MoneySubmit ==
  ASSUME MoneyInv, AccountsTypeOK', NEW k \in Keys, NEW u \in Users,
         NEW f \in Footprints, SubmitVerifiedFootprint(k, u, f)
  PROVE  MoneyInv'
<1> USE MaxU64Assumption, ConstantsAssumption
<1> DEFINE reward == f.reward_delta_lamports
           owed == profile[u].pending_reward_lamports
           pending == treasury.total_pending_lamports
           c == Commitment(u, k, f, now)
<1>1. /\ treasury \in Treasuries /\ profile \in [Users -> Profiles]
      /\ vault \in 0 .. LamportSupply + VaultRent
      /\ reward \in U64 /\ owed \in U64 /\ pending \in U64
      /\ treasury.total_funded_lamports \in U64
      /\ treasury.total_disbursed_lamports \in U64
      /\ config.reward_policy.max_pending_lamports \in U64
  BY ArgumentsAssumption DEF MoneyInv, AccountsTypeOK, Treasuries, Profiles,
                             Configs, RewardPolicies
<1>2. /\ treasury.initialized /\ profile[u].registered
      /\ ~Committed(u, f)
      /\ owed + reward <= config.reward_policy.max_pending_lamports
      /\ commitments' = commitments \cup {c}
      /\ UNCHANGED <<vault, wallet>>
  BY DEF SubmitVerifiedFootprint
<1>3. /\ treasury'.total_pending_lamports = SatAdd(pending, reward)
      /\ treasury'.total_funded_lamports = treasury.total_funded_lamports
      /\ treasury'.total_disbursed_lamports = treasury.total_disbursed_lamports
      /\ treasury'.initialized
      /\ treasury'.total_pending_lamports <= AvailableLamports(treasury')
  BY <1>1, <1>2 DEF SubmitVerifiedFootprint, ReservePendingRewards, Treasuries
<1>4. /\ AvailableLamports(treasury') = AvailableLamports(treasury)
      /\ AvailableLamports(treasury) \in Nat
  BY <1>1, <1>3 DEF AvailableLamports, SatSub, U64
<1>5. /\ Total(Users, Pending) = pending
      /\ AvailableLamports(treasury) + VaultRent <= vault
  BY <1>2 DEF MoneyInv, TreasurySolvent
<1>6. SatAdd(pending, reward) = pending + reward
  <2>1. AvailableLamports(treasury) < MaxU64
    BY <1>1, <1>4, <1>5
  <2>2. QED
    BY <1>1, <1>3, <1>4, <2>1 DEF SatAdd, U64
<1>7. SatAdd(owed, reward) = owed + reward
  BY <1>1, <1>2 DEF SatAdd, U64
<1>8. /\ profile'[u].pending_reward_lamports = owed + reward
      /\ profile'[u].total_claimed_lamports = profile[u].total_claimed_lamports
      /\ profile'[u].registered
      /\ \A v \in Users \ {u} : profile'[v] = profile[v]
  <2>1. profile' = [profile EXCEPT ![u] =
          ApplyVerifiedFootprint(profile[u], f, now, config.rank_thresholds)]
    BY DEF SubmitVerifiedFootprint
  <2>2. profile'[u] =
          ApplyVerifiedFootprint(profile[u], f, now, config.rank_thresholds)
    BY <1>1, <2>1
  <2>3. profile[u] \in Profiles
    BY <1>1
  <2>4. /\ profile'[u].pending_reward_lamports = SatAdd(owed, reward)
        /\ profile'[u].total_claimed_lamports = profile[u].total_claimed_lamports
        /\ profile'[u].registered = profile[u].registered
    BY <2>2, <2>3 DEF ApplyVerifiedFootprint, Profiles
  <2>5. QED
    BY <1>1, <1>2, <1>7, <2>1, <2>4
<1>9. Total(Users, Pending') = pending + reward
  <2>1. \A v \in Users : Pending[v] \in U64 /\ Pending'[v] \in U64
    BY DEF MoneyInv, AccountsTypeOK, Profiles, Pending
  <2>2. \A v \in Users \ {u} : Pending'[v] = Pending[v]
    BY <1>8 DEF Pending
  <2>3. Total(Users, Pending') = Total(Users, Pending) - Pending[u] + Pending'[u]
    BY <2>1, <2>2, UsersTotalUpdate
  <2>4. Pending[u] = owed /\ Pending'[u] = owed + reward
    BY <1>8 DEF Pending
  <2>5. QED
    BY <1>1, <1>5, <2>3, <2>4 DEF U64
<1>10. Claimed' = Claimed
  BY <1>8 DEF Claimed
<1>11. TreasurySolvent'
  BY <1>2, <1>3, <1>4, <1>5, <1>6, <1>9 DEF TreasurySolvent
<1>12. RewardsAccountedOnce'
  <2>1. RewardsOf(u)' = RewardsOf(u) + reward
    <3> DEFINE S == CommitmentsOf(u)
               g == [x \in S |-> x.reward_delta_lamports]
               h == [x \in S \cup {c} |-> x.reward_delta_lamports]
    <3>1. c.user = u /\ c.reward_delta_lamports = reward
          /\ c.period_key = f.period_key /\ c.commitment_hash = f.commitment_hash
      BY DEF Commitment
    <3>2. c \notin S
      BY <1>2, <3>1 DEF Committed, CommitmentsOf
    <3>3. CommitmentsOf(u)' = S \cup {c}
      BY <1>2, <3>1 DEF CommitmentsOf
    <3>4. IsFiniteSet(S)
      BY FS_Subset DEF MoneyInv, CommitmentsOf
    <3>5. h[c] = reward /\ \A x \in S : h[x] = g[x]
      BY <3>1
    <3> HIDE DEF c, S, g, h
    <3>6. Total(S \cup {c}, h) = Total(S, g) + h[c]
      <4>1. h[c] \in Nat
        BY <1>1, <3>5, MaxU64Assumption DEF U64
      <4>2. \A x \in S : h[x] = g[x] /\ g[x] \in Nat
        <5>1. \A x \in S : g[x] = x.reward_delta_lamports
          BY DEF g
        <5>2. \A x \in S : x.reward_delta_lamports \in Nat
          <6>1. S \subseteq FootprintCommitments
            BY DEF S, MoneyInv, AccountsTypeOK, CommitmentsOf
          <6>2. QED
            BY <6>1, GramsTyped
        <5>3. QED
          BY <3>5, <5>1, <5>2
      <4>3. /\ IsFiniteSet(S) /\ c \notin S /\ \A x \in S : g[x] \in Nat
            /\ \A x \in S : h[x] = g[x]
            /\ h[c] \in Nat
        BY <3>2, <3>4, <4>1, <4>2
      <4>4. PICK T, p, q, x : T = S /\ p = g /\ q = h /\ x = c
        OBVIOUS
      <4>5. Total(T \cup {x}, q) = Total(T, p) + q[x]
        <5>1. /\ IsFiniteSet(T) /\ x \notin T /\ \A y \in T : p[y] \in Nat
              /\ \A y \in T : q[y] = p[y]
              /\ q[x] \in Nat
          BY <4>3, <4>4
        <5>2. QED
          BY <5>1, TotalAdd
      <4>6. QED
        BY <4>4, <4>5
    <3>7. RewardsOf(u) = Total(S, g)
      BY DEF RewardsOf, S, g
    <3>8. RewardsOf(u)' = Total(S \cup {c}, h)
      BY <3>3 DEF RewardsOf, h
    <3>9. QED
      BY <3>5, <3>6, <3>7, <3>8
  <2>2. ASSUME NEW v \in Users \ {u}
        PROVE  RewardsOf(v)' = RewardsOf(v)
    <3>1. c.user = u
      BY DEF Commitment
    <3>2. CommitmentsOf(v)' = CommitmentsOf(v)
      BY <1>2, <3>1 DEF CommitmentsOf
    <3>3. QED
      BY <3>2 DEF RewardsOf
  <2>3. \A v \in Users : /\ RewardsOf(v) = profile[v].pending_reward_lamports
                                            + profile[v].total_claimed_lamports
                         /\ wallet[v] = profile[v].total_claimed_lamports
    BY DEF MoneyInv, RewardsAccountedOnce
  <2>4. profile[u].total_claimed_lamports \in U64
    BY <1>1 DEF Profiles
  <2>5. RewardsOf(u)' = profile'[u].pending_reward_lamports
                          + profile'[u].total_claimed_lamports
    BY <1>1, <1>8, <2>1, <2>3, <2>4 DEF U64
  <2>6. \A v \in Users :
          /\ RewardsOf(v)' = profile'[v].pending_reward_lamports
                               + profile'[v].total_claimed_lamports
          /\ wallet'[v] = profile'[v].total_claimed_lamports
    BY <1>2, <1>8, <2>2, <2>3, <2>5
  <2>7. Total(Users, Claimed') = treasury'.total_disbursed_lamports
    BY <1>3, <1>10 DEF MoneyInv, RewardsAccountedOnce
  <2>8. QED
    BY <2>6, <2>7 DEF RewardsAccountedOnce
<1>13. Blank'
  BY <1>3, <1>8 DEF MoneyInv, Blank
<1>14. IsFiniteSet(commitments')
  BY <1>2, FS_AddElement DEF MoneyInv
<1>15. QED
  BY <1>11, <1>12, <1>13, <1>14 DEF MoneyInv

LEMMA MoneyPreserved == MoneyInv /\ [Next]_vars => MoneyInv'
<1> SUFFICES ASSUME MoneyInv, [Next]_vars PROVE MoneyInv'
  OBVIOUS
<1>0. AccountsTypeOK'
  BY TypesPreserved DEF MoneyInv
<1>t. profile \in [Users -> Profiles]
  BY DEF MoneyInv, AccountsTypeOK
<1>1. ASSUME NEW k \in Keys, NEW a \in ProtocolArgs, InitializeProtocol(k, a)
      PROVE  MoneyInv'
  BY <1>0, <1>1, MoneyUntouched DEF InitializeProtocol
<1>2. ASSUME NEW k \in Keys, NEW a \in ConfigUpdates,
             UpdateProtocolConfig(k, a)
      PROVE  MoneyInv'
  BY <1>0, <1>2, MoneyUntouched DEF UpdateProtocolConfig
<1>3. ASSUME NEW u \in Users, NEW k \in Keys, NEW p \in PublicProfiles,
             RegisterUser(u, k, p)
      PROVE  MoneyInv'
  <2>1. /\ profile[u].pending_reward_lamports = 0
        /\ profile[u].total_claimed_lamports = 0
    BY <1>3 DEF RegisterUser, MoneyInv, Blank
  <2>2. /\ profile'[u].pending_reward_lamports = 0
        /\ profile'[u].total_claimed_lamports = 0
        /\ profile'[u].registered
        /\ \A v \in Users \ {u} : profile'[v] = profile[v]
    BY <1>3, <1>t DEF RegisterUser, NewProfile
  <2>3. QED
    BY <1>0, <1>3, <2>1, <2>2, MoneyUntouched DEF RegisterUser
<1>4. ASSUME NEW u \in Users, NEW p \in PublicProfiles, UpdatePublicProfile(u, p)
      PROVE  MoneyInv'
  <2>1. /\ profile'[u].pending_reward_lamports
             = profile[u].pending_reward_lamports
        /\ profile'[u].total_claimed_lamports = profile[u].total_claimed_lamports
        /\ profile'[u].registered = profile[u].registered
        /\ \A v \in Users \ {u} : profile'[v] = profile[v]
    BY <1>4, <1>t DEF UpdatePublicProfile, Profiles
  <2>2. QED
    BY <1>0, <1>4, <2>1, MoneyUntouched DEF UpdatePublicProfile
<1>5. ASSUME NEW k \in Keys, NEW u \in Users, NEW a \in SeedArgs,
             AdminSeedEmissionHistory(k, u, a)
      PROVE  MoneyInv'
  <2>1. /\ profile'[u].pending_reward_lamports
             = profile[u].pending_reward_lamports
        /\ profile'[u].total_claimed_lamports = profile[u].total_claimed_lamports
        /\ profile'[u].registered = profile[u].registered
        /\ \A v \in Users \ {u} : profile'[v] = profile[v]
    BY <1>5, <1>t DEF AdminSeedEmissionHistory, Profiles
  <2>2. QED
    BY <1>0, <1>5, <2>1, MoneyUntouched DEF AdminSeedEmissionHistory
<1>6. ASSUME NEW u \in Users, NEW s \in Keys, NEW m \in Keys,
             MintUserSbt(u, s, m)
      PROVE  MoneyInv'
  <2>1. /\ profile'[u].pending_reward_lamports
             = profile[u].pending_reward_lamports
        /\ profile'[u].total_claimed_lamports = profile[u].total_claimed_lamports
        /\ profile'[u].registered = profile[u].registered
        /\ \A v \in Users \ {u} : profile'[v] = profile[v]
    BY <1>6, <1>t DEF MintUserSbt, Profiles
  <2>2. QED
    BY <1>0, <1>6, <2>1, MoneyUntouched DEF MintUserSbt
<1>7. ASSUME NEW k \in Keys, NEW u \in Users, NEW a \in SyncArgs,
             SyncSbtState(k, u, a)
      PROVE  MoneyInv'
  <2>1. /\ profile'[u].pending_reward_lamports
             = profile[u].pending_reward_lamports
        /\ profile'[u].total_claimed_lamports = profile[u].total_claimed_lamports
        /\ profile'[u].registered = profile[u].registered
        /\ \A v \in Users \ {u} : profile'[v] = profile[v]
    BY <1>7, <1>t DEF SyncSbtState, Profiles
  <2>2. QED
    BY <1>0, <1>7, <2>1, MoneyUntouched DEF SyncSbtState
<1>8. ASSUME Tick PROVE MoneyInv'
  BY <1>0, <1>8, MoneyUntouched DEF Tick
<1>9. ASSUME UNCHANGED vars PROVE MoneyInv'
  BY <1>0, <1>9, MoneyUntouched DEF vars
<1>10. QED
  BY <1>0, <1>1, <1>2, <1>3, <1>4, <1>5, <1>6, <1>7, <1>8, <1>9,
     MoneyFund, MoneyTreasury, MoneyClaim, MoneySubmit DEF Next

\* The three counters of the treasury, the profiles and the vault agree in every
\* reachable state: what is owed is recorded, funded and in the vault.
THEOREM Solvent == Spec => []TreasurySolvent
<1>1. MoneyInv => TreasurySolvent
  BY DEF MoneyInv
<1>2. QED
  BY <1>1, InitMoney, MoneyPreserved, PTL DEF Spec

\* Every reward is pending or was claimed, once, and reached the wallet.
THEOREM AccountedOnce == Spec => []RewardsAccountedOnce
<1>1. MoneyInv => RewardsAccountedOnce
  BY DEF MoneyInv
<1>2. QED
  BY <1>1, InitMoney, MoneyPreserved, PTL DEF Spec

\* No pending reward is ever stuck: whoever holds one passes the checks of
\* claim_reward, in every order of claims.
THEOREM ClaimsPayable == Spec => []ClaimsAlwaysPayable
<1>1. MoneyInv => ClaimsAlwaysPayable
  <2> SUFFICES ASSUME MoneyInv, NEW u \in Users,
                      profile[u].pending_reward_lamports > 0
               PROVE  LET amount == profile[u].pending_reward_lamports
                      IN  /\ amount <= treasury.total_pending_lamports
                          /\ amount <= AvailableLamports(treasury)
                          /\ vault - amount >= VaultRent
    BY DEF ClaimsAlwaysPayable
  <2> DEFINE amount == profile[u].pending_reward_lamports
  <2>1. /\ treasury.total_pending_lamports \in Nat
        /\ treasury.total_funded_lamports \in Nat
        /\ treasury.total_disbursed_lamports \in Nat
        /\ vault \in Int /\ VaultRent \in Int
    BY MaxU64Assumption, ConstantsAssumption
       DEF MoneyInv, AccountsTypeOK, Treasuries, U64
  <2>2. Pending[u] = amount /\ amount \in U64
    BY PendingType DEF MoneyInv
  <2>3. amount <= treasury.total_pending_lamports
    <3>1. \A v \in Users : Pending[v] \in Nat
      BY PendingType, MaxU64Assumption DEF MoneyInv, U64
    <3>2. Pending[u] <= Total(Users, Pending)
      BY <3>1, ConstantsAssumption, TotalBounds
    <3>3. QED
      BY <2>2, <3>2 DEF MoneyInv, TreasurySolvent
  <2>4. /\ treasury.total_pending_lamports <= AvailableLamports(treasury)
        /\ AvailableLamports(treasury) \in Nat
    BY <2>1 DEF MoneyInv, TreasurySolvent, AvailableLamports, SatSub
  <2>5. treasury.initialized
    BY <2>1, <2>2, <2>3, MaxU64Assumption DEF MoneyInv, Blank, U64
  <2>6. AvailableLamports(treasury) + VaultRent <= vault
    BY <2>5 DEF MoneyInv, TreasurySolvent
  <2>7. amount \in Int
    BY <2>2 DEF U64
  <2>8. QED
    BY <2>1, <2>3, <2>4, <2>6, <2>7
<1>2. QED
  BY <1>1, InitMoney, MoneyPreserved, PTL DEF Spec

-----------------------------------------------------------------------------
\* Refinement

Pot == IF treasury.initialized THEN vault - VaultRent ELSE 0

\* A step that leaves rewards, wallets and the vault alone is a stutter of the
\* ledger.
LEMMA LedgerStutter ==
  ASSUME UNCHANGED <<treasury, vault, wallet>>,
         \A u \in Users : profile'[u].pending_reward_lamports
                            = profile[u].pending_reward_lamports
  PROVE  UNCHANGED Ledger!ledgerVars
<1>1. Pending' = Pending
  BY DEF Pending
<1>2. QED
  BY <1>1 DEF Ledger!ledgerVars

LEMMA LedgerAccrue ==
  ASSUME MoneyInv, MoneyInv', NEW k \in Keys, NEW u \in Users,
         NEW f \in Footprints, SubmitVerifiedFootprint(k, u, f)
  PROVE  Ledger!Accrue(u)
<1> USE MaxU64Assumption, ConstantsAssumption
<1> DEFINE reward == f.reward_delta_lamports
           owed == profile[u].pending_reward_lamports
<1>1. /\ profile \in [Users -> Profiles] /\ profile[u] \in Profiles
      /\ reward \in U64 /\ owed \in U64
      /\ config.reward_policy.max_pending_lamports \in U64
  BY ArgumentsAssumption DEF MoneyInv, AccountsTypeOK, Profiles,
                             Configs, RewardPolicies
<1>2. /\ owed + reward <= config.reward_policy.max_pending_lamports
      /\ treasury.initialized
      /\ profile' = [profile EXCEPT ![u] =
           ApplyVerifiedFootprint(profile[u], f, now, config.rank_thresholds)]
      /\ UNCHANGED <<vault, wallet>>
      /\ treasury' = ReservePendingRewards(treasury, reward)
  BY DEF SubmitVerifiedFootprint
<1>3. SatAdd(owed, reward) = owed + reward
  BY <1>1, <1>2 DEF SatAdd, U64
<1>4. /\ profile'[u].pending_reward_lamports = owed + reward
      /\ \A v \in Users \ {u} : profile'[v] = profile[v]
  <2>1. profile'[u] =
          ApplyVerifiedFootprint(profile[u], f, now, config.rank_thresholds)
    BY <1>1, <1>2
  <2>2. profile'[u].pending_reward_lamports = SatAdd(owed, reward)
    BY <1>1, <2>1 DEF ApplyVerifiedFootprint, Profiles
  <2>3. QED
    BY <1>1, <1>2, <1>3, <2>2
<1>5. Pending' = [Pending EXCEPT ![u] = @ + reward]
  BY <1>4 DEF Pending
<1>6. treasury'.initialized
  BY <1>2 DEF ReservePendingRewards, MoneyInv, AccountsTypeOK, Treasuries
<1>7. Pot' = Pot /\ Pot = vault - VaultRent
  BY <1>2, <1>6 DEF Pot
<1>8. Total(Users, Pending') <= Pot
  <2>1. /\ Total(Users, Pending') = treasury'.total_pending_lamports
        /\ treasury'.total_pending_lamports <= AvailableLamports(treasury')
        /\ AvailableLamports(treasury') + VaultRent <= vault
    BY <1>2, <1>6 DEF MoneyInv, TreasurySolvent
  <2>2. /\ AvailableLamports(treasury') \in Int /\ vault \in Int
        /\ treasury'.total_pending_lamports \in Int
    BY DEF MoneyInv, AccountsTypeOK, Treasuries, AvailableLamports, SatSub, U64
  <2>3. QED
    BY <1>7, <2>1, <2>2
<1>9. \E a \in U64 : Pending' = [Pending EXCEPT ![u] = @ + a]
  BY <1>1, <1>5
<1>10. Total(Users, Pending') <= Pot
  BY <1>8
<1>11. UNCHANGED <<wallet, Pot>>
  BY <1>2, <1>7
<1>12. Ledger!U64 = U64 /\ Ledger!Total(Users, Pending') = Total(Users, Pending')
  <2>1. Ledger!U64 = U64
    BY DEF Ledger!U64, U64
  <2>2. Ledger!Units(Users, Pending') = Units(Users, Pending')
    BY DEF Ledger!Units, Units
  <2>3. Ledger!Cardinality(Units(Users, Pending'))
          = Cardinality(Units(Users, Pending'))
    BY DEF Ledger!Cardinality, Cardinality
  <2>4. QED
    BY <2>1, <2>2, <2>3 DEF Ledger!Total, Total
<1>13. QED
  BY <1>9, <1>10, <1>11, <1>12 DEF Ledger!Accrue, Pot

LEMMA LedgerPay ==
  ASSUME MoneyInv, MoneyInv', NEW u \in Users, ClaimReward(u)
  PROVE  Ledger!Pay(u)
<1> USE MaxU64Assumption, ConstantsAssumption
<1> DEFINE amount == profile[u].pending_reward_lamports
<1>1. /\ profile \in [Users -> Profiles] /\ profile[u] \in Profiles
      /\ wallet \in [Users -> Nat] /\ vault \in Int /\ amount \in Int
      /\ treasury \in Treasuries
  BY DEF MoneyInv, AccountsTypeOK, Profiles, U64
<1>2. /\ amount > 0 /\ treasury.initialized
      /\ vault' = vault - amount
      /\ wallet' = [wallet EXCEPT ![u] = @ + amount]
      /\ profile' = [profile EXCEPT ![u] = ClaimPending(profile[u])]
      /\ treasury' = Disburse(treasury, amount)
  BY DEF ClaimReward
<1>3. /\ profile'[u].pending_reward_lamports = 0
      /\ \A v \in Users \ {u} : profile'[v] = profile[v]
  BY <1>1, <1>2 DEF ClaimPending, Profiles
<1>4. Pending[u] = amount /\ Pending' = [Pending EXCEPT ![u] = 0]
  BY <1>3 DEF Pending
<1>5. treasury'.initialized
  BY <1>1, <1>2 DEF Disburse, Treasuries
<1>6. Pot' = Pot - amount
  BY <1>1, <1>2, <1>5 DEF Pot
<1>7. QED
  BY <1>2, <1>4, <1>6 DEF Ledger!Pay, Pot

LEMMA LedgerInit == Init => Ledger!Init
BY DEF Init, NoTreasury, NewProfile, Pending, Ledger!Init

LEMMA LedgerStep ==
  ASSUME MoneyInv, MoneyInv', [Next]_vars
  PROVE  [Ledger!Next]_(Ledger!ledgerVars)
<1> USE MaxU64Assumption, ConstantsAssumption
<1>t. profile \in [Users -> Profiles] /\ treasury \in Treasuries /\ vault \in Int
  BY DEF MoneyInv, AccountsTypeOK
<1>1. ASSUME NEW k \in Keys, NEW a \in ProtocolArgs, InitializeProtocol(k, a)
      PROVE  UNCHANGED Ledger!ledgerVars
  BY <1>1, LedgerStutter DEF InitializeProtocol
<1>2. ASSUME NEW k \in Keys, NEW a \in ConfigUpdates,
             UpdateProtocolConfig(k, a)
      PROVE  UNCHANGED Ledger!ledgerVars
  BY <1>2, LedgerStutter DEF UpdateProtocolConfig
<1>3. ASSUME NEW u \in Users, NEW k \in Keys, NEW p \in PublicProfiles,
             RegisterUser(u, k, p)
      PROVE  UNCHANGED Ledger!ledgerVars
  <2>1. profile[u].pending_reward_lamports = 0
    BY <1>3 DEF RegisterUser, MoneyInv, Blank
  <2>2. /\ profile'[u].pending_reward_lamports = 0
        /\ \A v \in Users \ {u} : profile'[v] = profile[v]
    BY <1>3, <1>t DEF RegisterUser, NewProfile
  <2>3. QED
    BY <1>3, <2>1, <2>2, LedgerStutter DEF RegisterUser
<1>4. ASSUME NEW u \in Users, NEW p \in PublicProfiles, UpdatePublicProfile(u, p)
      PROVE  UNCHANGED Ledger!ledgerVars
  <2>1. /\ profile'[u].pending_reward_lamports
             = profile[u].pending_reward_lamports
        /\ \A v \in Users \ {u} : profile'[v] = profile[v]
    BY <1>4, <1>t DEF UpdatePublicProfile, Profiles
  <2>2. QED
    BY <1>4, <2>1, LedgerStutter DEF UpdatePublicProfile
<1>5. ASSUME NEW k \in Keys, NEW u \in Users, NEW a \in SeedArgs,
             AdminSeedEmissionHistory(k, u, a)
      PROVE  UNCHANGED Ledger!ledgerVars
  <2>1. /\ profile'[u].pending_reward_lamports
             = profile[u].pending_reward_lamports
        /\ \A v \in Users \ {u} : profile'[v] = profile[v]
    BY <1>5, <1>t DEF AdminSeedEmissionHistory, Profiles
  <2>2. QED
    BY <1>5, <2>1, LedgerStutter DEF AdminSeedEmissionHistory
<1>6. ASSUME NEW u \in Users, NEW s \in Keys, NEW m \in Keys,
             MintUserSbt(u, s, m)
      PROVE  UNCHANGED Ledger!ledgerVars
  <2>1. /\ profile'[u].pending_reward_lamports
             = profile[u].pending_reward_lamports
        /\ \A v \in Users \ {u} : profile'[v] = profile[v]
    BY <1>6, <1>t DEF MintUserSbt, Profiles
  <2>2. QED
    BY <1>6, <2>1, LedgerStutter DEF MintUserSbt
<1>7. ASSUME NEW k \in Keys, NEW u \in Users, NEW a \in SyncArgs,
             SyncSbtState(k, u, a)
      PROVE  UNCHANGED Ledger!ledgerVars
  <2>1. /\ profile'[u].pending_reward_lamports
             = profile[u].pending_reward_lamports
        /\ \A v \in Users \ {u} : profile'[v] = profile[v]
    BY <1>7, <1>t DEF SyncSbtState, Profiles
  <2>2. QED
    BY <1>7, <2>1, LedgerStutter DEF SyncSbtState
<1>8. ASSUME NEW k \in Keys, InitializeRewardTreasury(k)
      PROVE  UNCHANGED Ledger!ledgerVars
  <2>1. Pending' = Pending /\ wallet' = wallet
    BY <1>8 DEF InitializeRewardTreasury, Pending
  <2>2. Pot' = Pot
    BY <1>8, <1>t DEF InitializeRewardTreasury, NoTreasury, Pot
  <2>3. QED
    BY <2>1, <2>2 DEF Ledger!ledgerVars, Pot
<1>9. ASSUME NEW k \in Keys, NEW n \in FundAmounts, FundTreasury(k, n)
      PROVE  Ledger!Fund \/ UNCHANGED Ledger!ledgerVars
  <2>1. Pending' = Pending /\ wallet' = wallet
    BY <1>9 DEF FundTreasury, Pending
  <2>2. n \in Nat
    BY ArgumentsAssumption DEF U64
  <2>3. treasury.initialized /\ treasury'.initialized /\ vault' = vault + n
    BY <1>9, <1>t DEF FundTreasury, Treasuries
  <2>4. Pot' = Pot + n /\ Pot \in Int
    BY <1>t, <2>2, <2>3 DEF Pot
  <2>5. CASE n = 0
    BY <2>1, <2>4, <2>5 DEF Ledger!ledgerVars, Pot
  <2>6. CASE n > 0
    <3>1. Pot' > Pot
      BY <2>2, <2>4, <2>6
    <3>2. QED
      BY <2>1, <3>1 DEF Ledger!Fund, Pot
  <2>7. QED
    BY <2>2, <2>5, <2>6
<1>10. ASSUME Tick PROVE UNCHANGED Ledger!ledgerVars
  BY <1>10, LedgerStutter DEF Tick
<1>11. ASSUME UNCHANGED vars PROVE UNCHANGED Ledger!ledgerVars
  BY <1>11, LedgerStutter DEF vars
<1>12. ASSUME NEW k \in Keys, NEW u \in Users, NEW f \in Footprints,
              SubmitVerifiedFootprint(k, u, f)
       PROVE  Ledger!Next
  BY <1>12, LedgerAccrue DEF Ledger!Next
<1>13. ASSUME NEW u \in Users, ClaimReward(u)
       PROVE  Ledger!Next
  BY <1>13, LedgerPay DEF Ledger!Next
<1>14. ASSUME NEW k \in Keys, NEW n \in FundAmounts, FundTreasury(k, n)
       PROVE  [Ledger!Next]_(Ledger!ledgerVars)
  BY <1>9, <1>14 DEF Ledger!Next
<1>15. QED
  BY <1>1, <1>2, <1>3, <1>4, <1>5, <1>6, <1>7, <1>8, <1>10, <1>11, <1>12,
     <1>13, <1>14 DEF Next

\* The program implements the reward ledger, for every supply, policy and
\* number of users.
THEOREM ImplementsLedger == Spec => LedgerSpec
<1>1. Init => Ledger!Init
  BY LedgerInit
<1>2. MoneyInv /\ MoneyInv' /\ [Next]_vars => [Ledger!Next]_(Ledger!ledgerVars)
  BY LedgerStep
<1>3. QED
  BY <1>1, <1>2, InitMoney, MoneyPreserved, PTL DEF Spec, LedgerSpec, Ledger!Spec

-----------------------------------------------------------------------------
\* Metadata versions

\* register_user writes its first version over nothing.
VersionInv ==
  /\ AccountsTypeOK
  /\ \A u \in Users : ~profile[u].registered => profile[u].metadata_version = 0

VersionLaw(p, q) ==
  /\ q.metadata_version >= p.metadata_version
  /\ q.metadata_uri_hash # p.metadata_uri_hash
     => q.metadata_version > p.metadata_version
  /\ q.public_profile # p.public_profile \/ q.has_sbt # p.has_sbt
     => q.metadata_version = NextVersion(p.metadata_version)

LEMMA NextVersionLaw ==
  ASSUME NEW v \in 0 .. MaxU32
  PROVE  NextVersion(v) >= v /\ NextVersion(0) = 1
BY ConstantsAssumption DEF NextVersion

\* One profile is written, within the law.
LEMMA VersionWrite ==
  ASSUME VersionInv, AccountsTypeOK', NEW u \in Users, NEW q,
         profile' = [profile EXCEPT ![u] = q], VersionLaw(profile[u], q),
         q.registered
  PROVE  VersionInv' /\ \A v \in Users : VersionLaw(profile[v], profile'[v])
<1>1. profile'[u] = q /\ \A v \in Users \ {u} : profile'[v] = profile[v]
  BY DEF VersionInv, AccountsTypeOK
<1>2. \A v \in Users : profile[v].metadata_version \in 0 .. MaxU32
  BY DEF VersionInv, AccountsTypeOK, Profiles
<1>3. \A v \in Users : VersionLaw(profile[v], profile[v])
  BY <1>2, ConstantsAssumption DEF VersionLaw
<1>4. QED
  BY <1>1, <1>3 DEF VersionInv

LEMMA VersionStep ==
  ASSUME VersionInv, [Next]_vars
  PROVE  VersionInv' /\ \A u \in Users : VersionLaw(profile[u], profile'[u])
<1>1. AccountsTypeOK'
  BY TypesPreserved DEF VersionInv
<1>2. \A u \in Users : profile[u] \in Profiles
                       /\ profile[u].metadata_version \in 0 .. MaxU32
  BY DEF VersionInv, AccountsTypeOK, Profiles
<1>3. ASSUME UNCHANGED profile
      PROVE  VersionInv' /\ \A u \in Users : VersionLaw(profile[u], profile'[u])
  BY <1>1, <1>2, <1>3, ConstantsAssumption DEF VersionInv, VersionLaw
<1>4. ASSUME NEW u \in Users, NEW q, profile' = [profile EXCEPT ![u] = q],
             profile[u].registered, q.registered = profile[u].registered,
             q.metadata_version = profile[u].metadata_version,
             q.metadata_uri_hash = profile[u].metadata_uri_hash,
             q.public_profile = profile[u].public_profile,
             q.has_sbt = profile[u].has_sbt
      PROVE  VersionInv' /\ \A v \in Users : VersionLaw(profile[v], profile'[v])
  <2>1. VersionLaw(profile[u], q)
    BY <1>2, <1>4, ConstantsAssumption DEF VersionLaw
  <2>2. QED
    BY <1>1, <1>4, <2>1, VersionWrite
<1>5. ASSUME NEW u \in Users, NEW k \in Keys, NEW p \in PublicProfiles,
             RegisterUser(u, k, p)
      PROVE  VersionInv' /\ \A v \in Users : VersionLaw(profile[v], profile'[v])
  <2> DEFINE q == NewProfile(TRUE, k, RankFromReduction(0, config.rank_thresholds),
                             1, p)
  <2>1. profile[u].metadata_version = 0 /\ profile' = [profile EXCEPT ![u] = q]
    BY <1>5 DEF RegisterUser, VersionInv
  <2>2. q.metadata_version = 1 /\ q.registered
    BY DEF NewProfile
  <2> HIDE DEF q
  <2>3. VersionLaw(profile[u], q)
    BY <2>1, <2>2, NextVersionLaw, ConstantsAssumption DEF VersionLaw
  <2>4. QED
    BY <1>1, <2>1, <2>2, <2>3, VersionWrite
<1>6. ASSUME NEW u \in Users, NEW q, profile' = [profile EXCEPT ![u] = q],
             profile[u].registered, q.registered = profile[u].registered,
             q.metadata_version = NextVersion(profile[u].metadata_version),
             q.metadata_uri_hash = profile[u].metadata_uri_hash
      PROVE  VersionInv' /\ \A v \in Users : VersionLaw(profile[v], profile'[v])
  <2>1. VersionLaw(profile[u], q)
    BY <1>2, <1>6, NextVersionLaw DEF VersionLaw
  <2>2. QED
    BY <1>1, <1>6, <2>1, VersionWrite
<1>7. ASSUME NEW u \in Users, NEW p \in PublicProfiles, UpdatePublicProfile(u, p)
      PROVE  VersionInv' /\ \A v \in Users : VersionLaw(profile[v], profile'[v])
  <2> DEFINE q == [profile[u] EXCEPT
                     !.public_profile = p,
                     !.metadata_version = NextVersion(profile[u].metadata_version)]
  <2>1. profile' = [profile EXCEPT ![u] = q] /\ profile[u].registered
    BY <1>7 DEF UpdatePublicProfile
  <2>2. /\ q.registered = profile[u].registered
        /\ q.metadata_version = NextVersion(profile[u].metadata_version)
        /\ q.metadata_uri_hash = profile[u].metadata_uri_hash
    BY <1>2 DEF Profiles
  <2> HIDE DEF q
  <2>3. QED
    BY <1>6, <2>1, <2>2
<1>8. ASSUME NEW u \in Users, NEW s \in Keys, NEW m \in Keys, MintUserSbt(u, s, m)
      PROVE  VersionInv' /\ \A v \in Users : VersionLaw(profile[v], profile'[v])
  <2> DEFINE q == [profile[u] EXCEPT
                     !.has_sbt = TRUE,
                     !.sbt_minted_at = now,
                     !.metadata_version = NextVersion(profile[u].metadata_version)]
  <2>1. profile' = [profile EXCEPT ![u] = q] /\ profile[u].registered
    BY <1>8 DEF MintUserSbt
  <2>2. /\ q.registered = profile[u].registered
        /\ q.metadata_version = NextVersion(profile[u].metadata_version)
        /\ q.metadata_uri_hash = profile[u].metadata_uri_hash
    BY <1>2 DEF Profiles
  <2> HIDE DEF q
  <2>3. QED
    BY <1>6, <2>1, <2>2
<1>9. ASSUME NEW k \in Keys, NEW u \in Users, NEW a \in SyncArgs,
             SyncSbtState(k, u, a)
      PROVE  VersionInv' /\ \A v \in Users : VersionLaw(profile[v], profile'[v])
  <2> DEFINE q == [profile[u] EXCEPT
                     !.metadata_version = a.metadata_version,
                     !.metadata_uri_hash = a.metadata_uri_hash,
                     !.last_metadata_sync_at = now]
  <2>1. /\ profile' = [profile EXCEPT ![u] = q] /\ profile[u].registered
        /\ a.metadata_version > profile[u].metadata_version
    BY <1>9 DEF SyncSbtState, CanSync
  <2>2. /\ q.registered = profile[u].registered
        /\ q.metadata_version = a.metadata_version
        /\ q.public_profile = profile[u].public_profile
        /\ q.has_sbt = profile[u].has_sbt
    BY <1>2 DEF Profiles
  <2>3. a.metadata_version \in 0 .. MaxU32
    BY ArgumentsAssumption
  <2> HIDE DEF q
  <2>4. VersionLaw(profile[u], q)
    BY <1>2, <2>1, <2>2, <2>3, ConstantsAssumption DEF VersionLaw
  <2>5. QED
    BY <1>1, <2>1, <2>2, <2>4, VersionWrite
<1>10. ASSUME NEW k \in Keys, NEW u \in Users, NEW a \in SeedArgs,
              AdminSeedEmissionHistory(k, u, a)
       PROVE  VersionInv' /\ \A v \in Users : VersionLaw(profile[v], profile'[v])
  <2> DEFINE q == [profile[u] EXCEPT
                     !.last_verified_at = a.last_verified_at,
                     !.total_emissions_grams = a.total_emissions_grams,
                     !.commitment_count = a.commitment_count]
  <2>1. profile' = [profile EXCEPT ![u] = q] /\ profile[u].registered
    BY <1>10 DEF AdminSeedEmissionHistory
  <2>2. /\ q.registered = profile[u].registered
        /\ q.metadata_version = profile[u].metadata_version
        /\ q.metadata_uri_hash = profile[u].metadata_uri_hash
        /\ q.public_profile = profile[u].public_profile
        /\ q.has_sbt = profile[u].has_sbt
    BY <1>2 DEF Profiles
  <2> HIDE DEF q
  <2>3. QED
    BY <1>4, <2>1, <2>2
<1>11. ASSUME NEW k \in Keys, NEW u \in Users, NEW f \in Footprints,
              SubmitVerifiedFootprint(k, u, f)
       PROVE  VersionInv' /\ \A v \in Users : VersionLaw(profile[v], profile'[v])
  <2> DEFINE q == ApplyVerifiedFootprint(profile[u], f, now, config.rank_thresholds)
  <2>1. profile' = [profile EXCEPT ![u] = q] /\ profile[u].registered
    BY <1>11 DEF SubmitVerifiedFootprint
  <2>2. /\ q.registered = profile[u].registered
        /\ q.metadata_version = profile[u].metadata_version
        /\ q.metadata_uri_hash = profile[u].metadata_uri_hash
        /\ q.public_profile = profile[u].public_profile
        /\ q.has_sbt = profile[u].has_sbt
    BY <1>2 DEF ApplyVerifiedFootprint, Profiles
  <2> HIDE DEF q
  <2>3. QED
    BY <1>4, <2>1, <2>2
<1>12. ASSUME NEW u \in Users, ClaimReward(u)
       PROVE  VersionInv' /\ \A v \in Users : VersionLaw(profile[v], profile'[v])
  <2> DEFINE q == ClaimPending(profile[u])
  <2>1. profile' = [profile EXCEPT ![u] = q] /\ profile[u].registered
    BY <1>12 DEF ClaimReward
  <2>2. /\ q.registered = profile[u].registered
        /\ q.metadata_version = profile[u].metadata_version
        /\ q.metadata_uri_hash = profile[u].metadata_uri_hash
        /\ q.public_profile = profile[u].public_profile
        /\ q.has_sbt = profile[u].has_sbt
    BY <1>2 DEF ClaimPending, Profiles
  <2> HIDE DEF q
  <2>3. QED
    BY <1>4, <2>1, <2>2
<1>13. ASSUME \/ \E k \in Keys, a \in ProtocolArgs : InitializeProtocol(k, a)
              \/ \E k \in Keys, a \in ConfigUpdates : UpdateProtocolConfig(k, a)
              \/ \E k \in Keys : InitializeRewardTreasury(k)
              \/ \E k \in Keys, n \in FundAmounts : FundTreasury(k, n)
              \/ Tick \/ UNCHANGED vars
       PROVE  VersionInv' /\ \A u \in Users : VersionLaw(profile[u], profile'[u])
  BY <1>3, <1>13 DEF InitializeProtocol, UpdateProtocolConfig,
                     InitializeRewardTreasury, FundTreasury, Tick, vars
<1>14. QED
  BY <1>5, <1>7, <1>8, <1>9, <1>10, <1>11, <1>12, <1>13 DEF Next

\* metadata_version orders the documents of a token, in whatever order users,
\* minter, verifier and admin act: it never goes back, a new URI takes a greater
\* version, however far ahead; a new public profile and the minting take the next
\* one, or the last one again.
THEOREM VersionsOrderDocuments == Spec => MetadataVersionLaw
<1>1. Init => VersionInv
  BY InitTypes DEF Init, NewProfile, VersionInv
<1>2. VersionInv /\ [Next]_vars => VersionInv'
  BY VersionStep
<1>3. VersionInv /\ [Next]_vars =>
        [\A u \in Users :
           LET p == profile[u]
               q == profile'[u]
           IN  /\ q.metadata_version >= p.metadata_version
               /\ q.metadata_uri_hash # p.metadata_uri_hash
                  => q.metadata_version > p.metadata_version
               /\ q.public_profile # p.public_profile \/ q.has_sbt # p.has_sbt
                  => q.metadata_version = NextVersion(p.metadata_version)]_vars
  BY VersionStep DEF VersionLaw
<1>4. QED
  BY <1>1, <1>2, <1>3, PTL DEF Spec, MetadataVersionLaw

-----------------------------------------------------------------------------
\* Profiles and commitments

\* Only submit_verified_footprint creates commitments, at the time of the clock,
\* for a user who is registered.
RecordInv ==
  /\ AccountsTypeOK
  /\ IsFiniteSet(commitments)
  /\ \A u \in Users :
       /\ ~profile[u].registered => CommitmentsOf(u) = {}
       /\ profile[u].last_verified_at <= now
       /\ \A c \in CommitmentsOf(u) :
            c.verified_at <= profile[u].last_verified_at

\* What a summary of commitments reads of a profile.
SameSummary(p, q) ==
  /\ q.registered = p.registered
  /\ q.commitment_count = p.commitment_count
  /\ q.total_emissions_grams = p.total_emissions_grams
  /\ q.total_reduced_grams = p.total_reduced_grams
  /\ q.rank = p.rank
  /\ q.last_verified_at = p.last_verified_at
  /\ q.latest_period_key = p.latest_period_key
  /\ q.latest_commitment_hash = p.latest_commitment_hash

\* Steps that change neither the commitments nor what summarises them.
Aside ==
  /\ UNCHANGED <<commitments, history>>
  /\ now' \in Int /\ now <= now'
  /\ \A u \in Users : SameSummary(profile[u], profile'[u])

LEMMA ProfileAside ==
  ASSUME AccountsTypeOK, NEW u \in Users, NEW q,
         profile' = [profile EXCEPT ![u] = q], SameSummary(profile[u], q),
         UNCHANGED <<commitments, history, now>>
  PROVE  Aside
<1>1. profile'[u] = q /\ \A v \in Users \ {u} : profile'[v] = profile[v]
  BY DEF AccountsTypeOK
<1>2. now \in Int
  BY DEF AccountsTypeOK
<1>3. QED
  BY <1>1, <1>2 DEF Aside, SameSummary

\* Without a seed, only two instructions touch commitments or summaries.
LEMMA StepsAside ==
  ASSUME SeedArgs = {}, AccountsTypeOK, [Next]_vars
  PROVE  \/ \E k \in Keys, u \in Users, f \in Footprints :
              SubmitVerifiedFootprint(k, u, f)
         \/ \E u \in Users, k \in Keys, p \in PublicProfiles :
              RegisterUser(u, k, p)
         \/ Aside
<1>1. now \in Int /\ \A u \in Users : profile[u] \in Profiles
  BY DEF AccountsTypeOK
<1>2. ASSUME UNCHANGED <<commitments, history, profile>>,
             now' = now \/ now' = now + 1
      PROVE  Aside
  BY <1>1, <1>2 DEF Aside, SameSummary
<1>3. ASSUME NEW u \in Users, NEW p \in PublicProfiles, UpdatePublicProfile(u, p)
      PROVE  Aside
  <2> DEFINE q == [profile[u] EXCEPT
                     !.public_profile = p,
                     !.metadata_version = NextVersion(profile[u].metadata_version)]
  <2>1. /\ profile' = [profile EXCEPT ![u] = q]
        /\ UNCHANGED <<commitments, history, now>>
    BY <1>3 DEF UpdatePublicProfile
  <2>2. SameSummary(profile[u], q)
    BY <1>1 DEF Profiles, SameSummary
  <2> HIDE DEF q
  <2>3. QED
    BY <2>1, <2>2, ProfileAside
<1>4. ASSUME NEW u \in Users, NEW s \in Keys, NEW m \in Keys, MintUserSbt(u, s, m)
      PROVE  Aside
  <2> DEFINE q == [profile[u] EXCEPT
                     !.has_sbt = TRUE,
                     !.sbt_minted_at = now,
                     !.metadata_version = NextVersion(profile[u].metadata_version)]
  <2>1. /\ profile' = [profile EXCEPT ![u] = q]
        /\ UNCHANGED <<commitments, history, now>>
    BY <1>4 DEF MintUserSbt
  <2>2. SameSummary(profile[u], q)
    BY <1>1 DEF Profiles, SameSummary
  <2> HIDE DEF q
  <2>3. QED
    BY <2>1, <2>2, ProfileAside
<1>5. ASSUME NEW k \in Keys, NEW u \in Users, NEW a \in SyncArgs,
             SyncSbtState(k, u, a)
      PROVE  Aside
  <2> DEFINE q == [profile[u] EXCEPT
                     !.metadata_version = a.metadata_version,
                     !.metadata_uri_hash = a.metadata_uri_hash,
                     !.last_metadata_sync_at = now]
  <2>1. /\ profile' = [profile EXCEPT ![u] = q]
        /\ UNCHANGED <<commitments, history, now>>
    BY <1>5 DEF SyncSbtState
  <2>2. SameSummary(profile[u], q)
    BY <1>1 DEF Profiles, SameSummary
  <2> HIDE DEF q
  <2>3. QED
    BY <2>1, <2>2, ProfileAside
<1>6. ASSUME NEW u \in Users, ClaimReward(u)
      PROVE  Aside
  <2> DEFINE q == ClaimPending(profile[u])
  <2>1. /\ profile' = [profile EXCEPT ![u] = q]
        /\ UNCHANGED <<commitments, history, now>>
    BY <1>6 DEF ClaimReward
  <2>2. SameSummary(profile[u], q)
    BY <1>1 DEF Profiles, SameSummary, ClaimPending
  <2> HIDE DEF q
  <2>3. QED
    BY <2>1, <2>2, ProfileAside
<1>7. CASE \/ \E k \in Keys, a \in ProtocolArgs : InitializeProtocol(k, a)
           \/ \E k \in Keys, a \in ConfigUpdates : UpdateProtocolConfig(k, a)
           \/ \E k \in Keys : InitializeRewardTreasury(k)
           \/ \E k \in Keys, n \in FundAmounts : FundTreasury(k, n)
           \/ Tick \/ UNCHANGED vars
  BY <1>2, <1>7 DEF InitializeProtocol, UpdateProtocolConfig,
                    InitializeRewardTreasury, FundTreasury, Tick, vars
<1>8. QED
  BY <1>3, <1>4, <1>5, <1>6, <1>7 DEF Next

\* submit_verified_footprint adds one commitment, which did not exist.
LEMMA CommitmentAdded ==
  ASSUME AccountsTypeOK, NEW k \in Keys, NEW u \in Users, NEW f \in Footprints,
         SubmitVerifiedFootprint(k, u, f)
  PROVE  /\ Commitment(u, k, f, now) \notin commitments
         /\ commitments' = commitments \cup {Commitment(u, k, f, now)}
         /\ CommitmentsOf(u)' = CommitmentsOf(u) \cup {Commitment(u, k, f, now)}
         /\ \A v \in Users \ {u} : CommitmentsOf(v)' = CommitmentsOf(v)
         /\ Commitment(u, k, f, now).emission_delta_grams = f.emission_delta_grams
         /\ Commitment(u, k, f, now).reduction_delta_grams
              = f.reduction_delta_grams
         /\ Commitment(u, k, f, now).verified_at = now
         /\ Commitment(u, k, f, now).period_key = f.period_key
         /\ Commitment(u, k, f, now).commitment_hash = f.commitment_hash
<1> DEFINE c == Commitment(u, k, f, now)
<1>1. /\ c.user = u /\ c.verified_at = now
      /\ c.period_key = f.period_key /\ c.commitment_hash = f.commitment_hash
      /\ c.emission_delta_grams = f.emission_delta_grams
      /\ c.reduction_delta_grams = f.reduction_delta_grams
  BY DEF Commitment
<1>2. commitments' = commitments \cup {c} /\ ~Committed(u, f)
  BY DEF SubmitVerifiedFootprint
<1> HIDE DEF c
<1>3. c \notin commitments
  BY <1>1, <1>2 DEF Committed
<1>4. /\ CommitmentsOf(u)' = CommitmentsOf(u) \cup {c}
      /\ \A v \in Users \ {u} : CommitmentsOf(v)' = CommitmentsOf(v)
  BY <1>1, <1>2 DEF CommitmentsOf
<1>5. QED
  BY <1>1, <1>2, <1>3, <1>4 DEF c

\* What submit_verified_footprint writes to the profile.
LEMMA FootprintApplied ==
  ASSUME AccountsTypeOK, NEW k \in Keys, NEW u \in Users, NEW f \in Footprints,
         SubmitVerifiedFootprint(k, u, f)
  PROVE  /\ profile[u].registered /\ profile'[u].registered /\ config.initialized
         /\ profile'[u].commitment_count = SatAdd(profile[u].commitment_count, 1)
         /\ profile'[u].total_emissions_grams
              = SatAdd(profile[u].total_emissions_grams, f.emission_delta_grams)
         /\ profile'[u].total_reduced_grams
              = SatAdd(profile[u].total_reduced_grams, f.reduction_delta_grams)
         /\ profile'[u].rank = RankFromReduction(profile'[u].total_reduced_grams,
                                                 config.rank_thresholds)
         /\ profile'[u].last_verified_at = now
         /\ profile'[u].latest_period_key = f.period_key
         /\ profile'[u].latest_commitment_hash = f.commitment_hash
         /\ \A v \in Users \ {u} : profile'[v] = profile[v]
         /\ UNCHANGED <<config, now>>
<1>1. profile \in [Users -> Profiles] /\ profile[u] \in Profiles
  BY DEF AccountsTypeOK
<1>2. /\ profile' = [profile EXCEPT ![u] =
             ApplyVerifiedFootprint(profile[u], f, now, config.rank_thresholds)]
      /\ profile[u].registered /\ config.initialized
      /\ UNCHANGED <<config, now>>
  BY DEF SubmitVerifiedFootprint
<1>3. /\ profile'[u] =
           ApplyVerifiedFootprint(profile[u], f, now, config.rank_thresholds)
      /\ \A v \in Users \ {u} : profile'[v] = profile[v]
  BY <1>1, <1>2
<1>4. QED
  BY <1>1, <1>2, <1>3 DEF ApplyVerifiedFootprint, Profiles

\* What register_user writes to the profile.
LEMMA ProfileCreated ==
  ASSUME AccountsTypeOK, NEW u \in Users, NEW k \in Keys, NEW p \in PublicProfiles,
         RegisterUser(u, k, p)
  PROVE  /\ ~profile[u].registered /\ profile'[u].registered /\ config.initialized
         /\ profile'[u].commitment_count = 0
         /\ profile'[u].total_emissions_grams = 0
         /\ profile'[u].total_reduced_grams = 0
         /\ profile'[u].rank = RankFromReduction(0, config.rank_thresholds)
         /\ profile'[u].last_verified_at = 0
         /\ \A v \in Users \ {u} : profile'[v] = profile[v]
         /\ UNCHANGED <<config, history, commitments, now>>
<1>1. profile \in [Users -> Profiles]
  BY DEF AccountsTypeOK
<1>2. /\ profile' = [profile EXCEPT ![u] =
             NewProfile(TRUE, k, RankFromReduction(0, config.rank_thresholds), 1, p)]
      /\ ~profile[u].registered /\ config.initialized
      /\ UNCHANGED <<config, history, commitments, now>>
  BY DEF RegisterUser
<1>3. QED
  BY <1>1, <1>2 DEF NewProfile

LEMMA InitRecords == Init => RecordInv
<1> SUFFICES ASSUME Init PROVE RecordInv
  OBVIOUS
<1>1. IsFiniteSet(commitments)
  BY FS_EmptySet DEF Init
<1>2. \A u \in Users : profile[u].last_verified_at = 0 /\ now = 1
  BY DEF Init, NewProfile
<1>3. \A u \in Users : CommitmentsOf(u) = {}
  BY DEF Init, CommitmentsOf
<1>4. QED
  BY <1>1, <1>2, <1>3, InitTypes DEF RecordInv

LEMMA RecordsPreserved ==
  ASSUME SeedArgs = {}, RecordInv, [Next]_vars
  PROVE  RecordInv'
<1>1. AccountsTypeOK /\ AccountsTypeOK' /\ now \in Int /\ now >= 1
  BY TypesPreserved, ConstantsAssumption DEF RecordInv, AccountsTypeOK
<1>2. ASSUME NEW k \in Keys, NEW u \in Users, NEW f \in Footprints,
             SubmitVerifiedFootprint(k, u, f)
      PROVE  RecordInv'
  <2> DEFINE c == Commitment(u, k, f, now)
  <2>1. /\ commitments' = commitments \cup {c}
        /\ CommitmentsOf(u)' = CommitmentsOf(u) \cup {c}
        /\ \A v \in Users \ {u} : CommitmentsOf(v)' = CommitmentsOf(v)
        /\ c.verified_at = now
    BY <1>1, <1>2, CommitmentAdded
  <2> HIDE DEF c
  <2>2. /\ profile'[u].registered /\ profile'[u].last_verified_at = now
        /\ \A v \in Users \ {u} : profile'[v] = profile[v]
        /\ now' = now
    BY <1>1, <1>2, FootprintApplied
  <2>3. IsFiniteSet(commitments')
    BY <2>1, FS_AddElement DEF RecordInv
  <2>4. \A x \in CommitmentsOf(u) : x.verified_at <= now
    <3>1. SUFFICES ASSUME NEW x \in CommitmentsOf(u) PROVE x.verified_at <= now
      OBVIOUS
    <3>2. x.verified_at \in Int /\ profile[u].last_verified_at \in Int
      BY <1>1 DEF AccountsTypeOK, CommitmentsOf, FootprintCommitments, Profiles
    <3>3. /\ x.verified_at <= profile[u].last_verified_at
          /\ profile[u].last_verified_at <= now
      BY DEF RecordInv
    <3>4. QED
      BY <1>1, <3>2, <3>3
  <2>5. \A x \in CommitmentsOf(u)' : x.verified_at <= profile'[u].last_verified_at
    BY <1>1, <2>1, <2>2, <2>4
  <2>6. QED
    BY <1>1, <2>1, <2>2, <2>3, <2>5 DEF RecordInv
<1>3. ASSUME NEW u \in Users, NEW k \in Keys, NEW p \in PublicProfiles,
             RegisterUser(u, k, p)
      PROVE  RecordInv'
  <2>1. /\ ~profile[u].registered /\ profile'[u].registered
        /\ profile'[u].last_verified_at = 0
        /\ \A v \in Users \ {u} : profile'[v] = profile[v]
        /\ UNCHANGED <<commitments, now>>
    BY <1>1, <1>3, ProfileCreated
  <2>2. \A v \in Users : CommitmentsOf(v)' = CommitmentsOf(v)
    BY <2>1 DEF CommitmentsOf
  <2>3. CommitmentsOf(u) = {}
    BY <2>1 DEF RecordInv
  <2>4. QED
    BY <1>1, <2>1, <2>2, <2>3 DEF RecordInv
<1>4. ASSUME Aside PROVE RecordInv'
  <2>1. \A v \in Users : /\ CommitmentsOf(v)' = CommitmentsOf(v)
                         /\ profile'[v].registered = profile[v].registered
                         /\ profile'[v].last_verified_at
                              = profile[v].last_verified_at
                         /\ profile[v].last_verified_at \in Int
    BY <1>1, <1>4 DEF Aside, SameSummary, CommitmentsOf, AccountsTypeOK, Profiles
  <2>2. commitments' = commitments /\ now' \in Int /\ now <= now'
    BY <1>4 DEF Aside
  <2>3. QED
    BY <1>1, <2>1, <2>2 DEF RecordInv
<1>5. QED
  BY <1>1, <1>2, <1>3, <1>4, StepsAside

\* The inductive invariant: nobody registers before the thresholds are set.
SummaryInv ==
  /\ RecordInv
  /\ ~config.initialized => \A u \in Users : ~profile[u].registered
  /\ ProfileSummarisesCommitments

LEMMA CappedFacts ==
  ASSUME NEW n \in Nat, NEW d \in Nat
  PROVE  /\ Capped(n) \in U64
         /\ SatAdd(Capped(n), d) = Capped(n + d)
         /\ n <= MaxU64 => Capped(n) = n
BY MaxU64Assumption DEF Capped, SatAdd, U64

\* A new commitment adds its grams, saturating.
LEMMA GramsAdded ==
  ASSUME NEW S \in SUBSET FootprintCommitments, IsFiniteSet(S), NEW c, c \notin S,
         c.emission_delta_grams \in U64, c.reduction_delta_grams \in U64
  PROVE  /\ EmissionsOf(S) \in U64 /\ ReductionsOf(S) \in U64
         /\ EmissionsOf(S \cup {c}) = SatAdd(EmissionsOf(S), c.emission_delta_grams)
         /\ ReductionsOf(S \cup {c})
              = SatAdd(ReductionsOf(S), c.reduction_delta_grams)
         /\ Capped(Cardinality(S \cup {c})) = SatAdd(Capped(Cardinality(S)), 1)
<1> DEFINE e == [x \in S |-> x.emission_delta_grams]
           ee == [x \in S \cup {c} |-> x.emission_delta_grams]
           r == [x \in S |-> x.reduction_delta_grams]
           rr == [x \in S \cup {c} |-> x.reduction_delta_grams]
<1>1. /\ ee[c] = c.emission_delta_grams /\ \A x \in S : ee[x] = e[x]
      /\ rr[c] = c.reduction_delta_grams /\ \A x \in S : rr[x] = r[x]
  OBVIOUS
<1>a. \A x \in S : e[x] \in Nat /\ r[x] \in Nat
  BY GramsTyped
<1>2. /\ EmissionsOf(S) = Capped(Total(S, e))
      /\ EmissionsOf(S \cup {c}) = Capped(Total(S \cup {c}, ee))
      /\ ReductionsOf(S) = Capped(Total(S, r))
      /\ ReductionsOf(S \cup {c}) = Capped(Total(S \cup {c}, rr))
  BY DEF EmissionsOf, ReductionsOf
<1> HIDE DEF e, ee, r, rr
<1>3. Total(S, e) \in Nat /\ Total(S, r) \in Nat
  BY <1>a, TotalType
<1>4. Total(S \cup {c}, ee) = Total(S, e) + c.emission_delta_grams
  <2>1. ee[c] \in Nat
    BY <1>1, MaxU64Assumption DEF U64
  <2>2. Total(S \cup {c}, ee) = Total(S, e) + ee[c]
    <3>1. \A x \in S : ee[x] = e[x] /\ e[x] \in Nat
      BY <1>1, <1>a
    <3>2. QED
      BY <2>1, <3>1, TotalAdd
  <2>3. QED
    BY <1>1, <2>2
<1>5. Total(S \cup {c}, rr) = Total(S, r) + c.reduction_delta_grams
  <2>1. rr[c] \in Nat
    BY <1>1, MaxU64Assumption DEF U64
  <2>2. Total(S \cup {c}, rr) = Total(S, r) + rr[c]
    <3>1. \A x \in S : rr[x] = r[x] /\ r[x] \in Nat
      BY <1>1, <1>a
    <3>2. QED
      BY <2>1, <3>1, TotalAdd
  <2>3. QED
    BY <1>1, <2>2
<1>6. c.emission_delta_grams \in Nat /\ c.reduction_delta_grams \in Nat
  BY MaxU64Assumption DEF U64
<1>7. Cardinality(S) \in Nat /\ Cardinality(S \cup {c}) = Cardinality(S) + 1
  BY FS_CardinalityType, FS_AddElement
<1>8. SatAdd(Capped(Cardinality(S)), 1) = Capped(Cardinality(S) + 1)
  BY <1>7, CappedFacts
<1>9. QED
  BY <1>2, <1>3, <1>4, <1>5, <1>6, <1>7, <1>8, CappedFacts

\* No commitments, no grams.
LEMMA NoGrams ==
  /\ EmissionsOf({}) = 0 /\ ReductionsOf({}) = 0 /\ Capped(Cardinality({})) = 0
<1>1. \A f : Total({}, f) = 0
  BY TotalZero
<1>2. Cardinality({}) = 0 /\ Capped(0) = 0
  BY FS_EmptySet, MaxU64Assumption DEF Capped
<1>3. QED
  BY <1>1, <1>2 DEF EmissionsOf, ReductionsOf

\* Thresholds stay as they were initialised.
LEMMA ThresholdsKept ==
  ASSUME \A a \in ConfigUpdates : a.rank_thresholds = NotGiven,
         AccountsTypeOK, [Next]_vars
  PROVE  config.initialized =>
           config'.initialized /\ config'.rank_thresholds = config.rank_thresholds
<1>1. config \in Configs
  BY DEF AccountsTypeOK
<1>2. ASSUME NEW k \in Keys, NEW a \in ConfigUpdates, UpdateProtocolConfig(k, a)
      PROVE  /\ config'.initialized = config.initialized
             /\ config'.rank_thresholds = config.rank_thresholds
  BY <1>1, <1>2 DEF UpdateProtocolConfig, Given, Configs
<1>3. ASSUME NEW k \in Keys, NEW a \in ProtocolArgs, InitializeProtocol(k, a)
      PROVE  ~config.initialized
  BY <1>3 DEF InitializeProtocol
<1>4. CASE \/ \E u \in Users, k \in Keys, p \in PublicProfiles : RegisterUser(u, k, p)
           \/ \E u \in Users, p \in PublicProfiles : UpdatePublicProfile(u, p)
           \/ \E k \in Keys, u \in Users, a \in SeedArgs :
                AdminSeedEmissionHistory(k, u, a)
           \/ \E u \in Users, s, m \in Keys : MintUserSbt(u, s, m)
           \/ \E k \in Keys, u \in Users, a \in SyncArgs : SyncSbtState(k, u, a)
  BY <1>4 DEF RegisterUser, UpdatePublicProfile, AdminSeedEmissionHistory,
              MintUserSbt, SyncSbtState
<1>5. CASE \/ \E k \in Keys : InitializeRewardTreasury(k)
           \/ \E k \in Keys, n \in FundAmounts : FundTreasury(k, n)
           \/ \E k \in Keys, u \in Users, f \in Footprints :
                SubmitVerifiedFootprint(k, u, f)
           \/ \E u \in Users : ClaimReward(u)
           \/ Tick \/ UNCHANGED vars
  BY <1>5 DEF InitializeRewardTreasury, FundTreasury, SubmitVerifiedFootprint,
              ClaimReward, Tick, vars
<1>6. QED
  BY <1>2, <1>3, <1>4, <1>5 DEF Next

\* The summary of one user.
Summarises(p, cs, thresholds) ==
  /\ p.commitment_count = Capped(Cardinality(cs))
  /\ p.total_emissions_grams = EmissionsOf(cs)
  /\ p.total_reduced_grams = ReductionsOf(cs)
  /\ p.rank = RankFromReduction(p.total_reduced_grams, thresholds)
  /\ cs # {} => \E c \in cs : /\ c.verified_at = p.last_verified_at
                              /\ c.period_key = p.latest_period_key
                              /\ c.commitment_hash = p.latest_commitment_hash

LEMMA SummaryByUser ==
  ASSUME RecordInv
  PROVE  ProfileSummarisesCommitments <=>
           \A u \in Users : profile[u].registered =>
             Summarises(profile[u], CommitmentsOf(u), config.rank_thresholds)
BY DEF RecordInv, ProfileSummarisesCommitments, Summarises

LEMMA SummaryByUserNext ==
  ASSUME RecordInv'
  PROVE  ProfileSummarisesCommitments' <=>
           \A u \in Users : profile'[u].registered =>
             Summarises(profile'[u], CommitmentsOf(u)', config'.rank_thresholds)
BY DEF RecordInv, ProfileSummarisesCommitments, Summarises

LEMMA SummaryPreserved ==
  ASSUME SeedArgs = {}, \A a \in ConfigUpdates : a.rank_thresholds = NotGiven,
         SummaryInv, [Next]_vars
  PROVE  SummaryInv'
<1>1. /\ RecordInv /\ RecordInv' /\ AccountsTypeOK
      /\ \A v \in Users : profile[v].registered =>
           Summarises(profile[v], CommitmentsOf(v), config.rank_thresholds)
  BY RecordsPreserved, SummaryByUser DEF SummaryInv, RecordInv
<1>2. config.initialized =>
        config'.initialized /\ config'.rank_thresholds = config.rank_thresholds
  BY <1>1, ThresholdsKept
<1>3. ASSUME NEW k \in Keys, NEW u \in Users, NEW f \in Footprints,
             SubmitVerifiedFootprint(k, u, f)
      PROVE  SummaryInv'
  <2> DEFINE c == Commitment(u, k, f, now)
             S == CommitmentsOf(u)
  <2>1. /\ c \notin commitments
        /\ CommitmentsOf(u)' = S \cup {c}
        /\ \A v \in Users \ {u} : CommitmentsOf(v)' = CommitmentsOf(v)
        /\ c.emission_delta_grams = f.emission_delta_grams
        /\ c.reduction_delta_grams = f.reduction_delta_grams
        /\ c.verified_at = now
        /\ c.period_key = f.period_key /\ c.commitment_hash = f.commitment_hash
    BY <1>1, <1>3, CommitmentAdded
  <2>2. /\ profile[u].registered /\ config.initialized
        /\ profile'[u].commitment_count = SatAdd(profile[u].commitment_count, 1)
        /\ profile'[u].total_emissions_grams
             = SatAdd(profile[u].total_emissions_grams, f.emission_delta_grams)
        /\ profile'[u].total_reduced_grams
             = SatAdd(profile[u].total_reduced_grams, f.reduction_delta_grams)
        /\ profile'[u].rank = RankFromReduction(profile'[u].total_reduced_grams,
                                                config.rank_thresholds)
        /\ profile'[u].last_verified_at = now
        /\ profile'[u].latest_period_key = f.period_key
        /\ profile'[u].latest_commitment_hash = f.commitment_hash
        /\ \A v \in Users \ {u} : profile'[v] = profile[v]
    BY <1>1, <1>3, FootprintApplied
  <2>3. /\ c \notin S /\ IsFiniteSet(S) /\ S \in SUBSET FootprintCommitments
        /\ c.emission_delta_grams \in U64 /\ c.reduction_delta_grams \in U64
    <3>1. S \in SUBSET commitments
      BY DEF CommitmentsOf
    <3>2. /\ IsFiniteSet(commitments)
          /\ commitments \in SUBSET FootprintCommitments
      BY <1>1 DEF RecordInv, AccountsTypeOK
    <3>3. IsFiniteSet(S) /\ S \in SUBSET FootprintCommitments
      BY <3>1, <3>2, FS_Subset
    <3>4. QED
      BY <2>1, <3>1, <3>3, ArgumentsAssumption
  <2> HIDE DEF c, S
  <2>4. /\ EmissionsOf(S \cup {c})
             = SatAdd(EmissionsOf(S), f.emission_delta_grams)
        /\ ReductionsOf(S \cup {c})
             = SatAdd(ReductionsOf(S), f.reduction_delta_grams)
        /\ Capped(Cardinality(S \cup {c})) = SatAdd(Capped(Cardinality(S)), 1)
    BY <2>1, <2>3, GramsAdded
  <2>5. Summarises(profile[u], S, config.rank_thresholds)
    BY <1>1, <2>2 DEF S
  <2>6. Summarises(profile'[u], S \cup {c}, config.rank_thresholds)
    BY <2>1, <2>2, <2>4, <2>5 DEF Summarises
  <2>7. \A v \in Users : profile'[v].registered =>
          Summarises(profile'[v], CommitmentsOf(v)', config'.rank_thresholds)
    BY <1>1, <1>2, <2>1, <2>2, <2>6
  <2>8. QED
    BY <1>1, <1>2, <2>2, <2>7, SummaryByUserNext DEF SummaryInv
<1>4. ASSUME NEW u \in Users, NEW k \in Keys, NEW p \in PublicProfiles,
             RegisterUser(u, k, p)
      PROVE  SummaryInv'
  <2>1. /\ ~profile[u].registered /\ config.initialized
        /\ profile'[u].commitment_count = 0
        /\ profile'[u].total_emissions_grams = 0
        /\ profile'[u].total_reduced_grams = 0
        /\ profile'[u].rank = RankFromReduction(0, config.rank_thresholds)
        /\ \A v \in Users \ {u} : profile'[v] = profile[v]
        /\ UNCHANGED commitments
    BY <1>1, <1>4, ProfileCreated
  <2>2. /\ \A v \in Users : CommitmentsOf(v)' = CommitmentsOf(v)
        /\ CommitmentsOf(u) = {}
    BY <1>1, <2>1 DEF CommitmentsOf, RecordInv
  <2>3. Summarises(profile'[u], {}, config.rank_thresholds)
    BY <2>1, NoGrams DEF Summarises
  <2>4. \A v \in Users : profile'[v].registered =>
          Summarises(profile'[v], CommitmentsOf(v)', config'.rank_thresholds)
    BY <1>1, <1>2, <2>1, <2>2, <2>3
  <2>5. QED
    BY <1>1, <1>2, <2>1, <2>4, SummaryByUserNext DEF SummaryInv
<1>5. ASSUME Aside PROVE SummaryInv'
  <2>1. \A v \in Users : /\ CommitmentsOf(v)' = CommitmentsOf(v)
                         /\ SameSummary(profile[v], profile'[v])
    BY <1>5 DEF Aside, CommitmentsOf
  <2>2. ~config'.initialized => \A v \in Users : ~profile'[v].registered
    BY <1>2, <2>1 DEF SummaryInv, SameSummary
  <2>3. ASSUME NEW v \in Users, profile'[v].registered
        PROVE  Summarises(profile'[v], CommitmentsOf(v)', config'.rank_thresholds)
    <3>1. profile[v].registered /\ config.initialized
      BY <2>1, <2>3 DEF SummaryInv, SameSummary
    <3>2. Summarises(profile[v], CommitmentsOf(v), config.rank_thresholds)
      BY <1>1, <3>1
    <3>3. QED
      BY <1>2, <2>1, <3>1, <3>2 DEF Summarises, SameSummary
  <2>4. QED
    BY <1>1, <2>2, <2>3, SummaryByUserNext DEF SummaryInv
<1>6. QED
  BY <1>1, <1>3, <1>4, <1>5, StepsAside

\* While no history is seeded and the thresholds stay, the incremental and
\* saturating totals of apply_verified_footprint are those of the user's
\* FootprintCommitment accounts, and the rank is that of the total, for any
\* number of users and footprints.
THEOREM ProfilesSummarise ==
  ASSUME SeedArgs = {}, \A a \in ConfigUpdates : a.rank_thresholds = NotGiven
  PROVE  Spec => []ProfileSummarisesCommitments
<1>1. Init => SummaryInv
  <2> SUFFICES ASSUME Init PROVE SummaryInv
    OBVIOUS
  <2>1. \A u \in Users : ~profile[u].registered
    BY DEF Init, NewProfile
  <2>2. QED
    BY <2>1, InitRecords, SummaryByUser DEF SummaryInv
<1>2. SummaryInv /\ [Next]_vars => SummaryInv'
  BY SummaryPreserved
<1>3. SummaryInv => ProfileSummarisesCommitments
  BY DEF SummaryInv
<1>4. QED
  BY <1>1, <1>2, <1>3, PTL DEF Spec

-----------------------------------------------------------------------------
\* Histories

\* A history is the days of some commitments in the window that ends at asOf,
\* each with its grams.
Matches(h, cs, asOf) ==
  /\ InOrder(h)
  /\ DaysIn(h) = {d \in {DayBucketStart(c.verified_at) : c \in cs} :
                    d >= RollingWindowStart(asOf)}
  /\ \A i \in 1 .. Len(h) :
       h[i].emission_grams
         = EmissionsOf({c \in cs : DayBucketStart(c.verified_at)
                                     = h[i].day_start_timestamp})

\* The inductive invariant.  Order is between any two entries, not neighbours,
\* and the window is the one of the last footprint, not that of the clock.
HistoryInv ==
  /\ RecordInv
  /\ HistoryTypeOK
  /\ \A u \in Users :
       Matches(history[u], CommitmentsOf(u), profile[u].last_verified_at)

LEMMA CommitmentTypes ==
  ASSUME NEW S \in SUBSET FootprintCommitments
  PROVE  \A x \in S : /\ x.verified_at \in Int
                      /\ x.emission_delta_grams \in U64
                      /\ x.reduction_delta_grams \in U64
                      /\ DayBucketStart(x.verified_at) \in Int
                      /\ IsDay(DayBucketStart(x.verified_at))
<1>1. \A x \in S : /\ x.verified_at \in Int
                   /\ x.emission_delta_grams \in U64
                   /\ x.reduction_delta_grams \in U64
  BY DEF FootprintCommitments
<1>2. QED
  BY <1>1, DayOfTimestamp DEF IsDay

\* The days of a history, and those of the commitments of the window that ends
\* at t, which is not before any of them.
MatchedDays(h, cs, t) ==
  /\ \A x \in cs : DayBucketStart(x.verified_at) <= DayBucketStart(t)
  /\ \A i \in 1 .. Len(h) :
       /\ IsDay(h[i].day_start_timestamp)
       /\ h[i].day_start_timestamp <= DayBucketStart(t)
       /\ \E x \in cs : DayBucketStart(x.verified_at) = h[i].day_start_timestamp
  /\ \A x \in cs :
       DayBucketStart(x.verified_at) >= RollingWindowStart(t) =>
         \E i \in 1 .. Len(h) :
           h[i].day_start_timestamp = DayBucketStart(x.verified_at)

LEMMA MatchingDays ==
  ASSUME NEW h \in Seq(DailyEntries), NEW S \in SUBSET FootprintCommitments,
         NEW last \in Int, NEW t \in Int, last <= t,
         \A x \in S : x.verified_at <= last,
         Matches(h, S, last)
  PROVE  MatchedDays(h, S, t)
<1>1. \A x \in S : x.verified_at \in Int /\ x.verified_at <= t
                   /\ DayBucketStart(x.verified_at) \in Int
                   /\ IsDay(DayBucketStart(x.verified_at))
  BY CommitmentTypes
<1>2. \A x \in S : DayBucketStart(x.verified_at) <= DayBucketStart(t)
  BY <1>1, DaysApart
<1>3. DaysIn(h) = {d \in {DayBucketStart(c.verified_at) : c \in S} :
                    d >= RollingWindowStart(last)}
  BY DEF Matches
<1>4. \A i \in 1 .. Len(h) : h[i].day_start_timestamp \in DaysIn(h)
  BY DEF DaysIn
<1>5. \A i \in 1 .. Len(h) :
        \E x \in S : DayBucketStart(x.verified_at) = h[i].day_start_timestamp
  BY <1>3, <1>4
<1>6. ASSUME NEW x \in S, DayBucketStart(x.verified_at) >= RollingWindowStart(t)
      PROVE  \E i \in 1 .. Len(h) :
               h[i].day_start_timestamp = DayBucketStart(x.verified_at)
  <2>1. DayBucketStart(x.verified_at) >= RollingWindowStart(last)
    BY <1>1, <1>6, WindowMoves
  <2>2. DayBucketStart(x.verified_at) \in DaysIn(h)
    BY <1>3, <2>1
  <2>3. QED
    BY <2>2 DEF DaysIn
<1>7. QED
  BY <1>1, <1>2, <1>5, <1>6 DEF MatchedDays

\* A footprint keeps the match, in the window that ends with it.
LEMMA MatchRecorded ==
  ASSUME NEW h \in Seq(DailyEntries), NEW S \in SUBSET FootprintCommitments,
         IsFiniteSet(S), NEW last \in Int, NEW t \in Int, last <= t,
         \A x \in S : x.verified_at <= last,
         Matches(h, S, last),
         NEW c, c \notin S, c.verified_at = t,
         c.emission_delta_grams \in U64, c.reduction_delta_grams \in U64
  PROVE  Matches(RecordDailyEmission(h, c.emission_delta_grams, t), S \cup {c}, t)
<1> DEFINE today == DayBucketStart(t)
           start == RollingWindowStart(t)
           g == c.emission_delta_grams
           r == RecordDailyEmission(h, g, t)
           On(d) == {x \in S : DayBucketStart(x.verified_at) = d}
<1>1. /\ \A i \in 1 .. Len(h) :
           /\ IsDay(h[i].day_start_timestamp)
           /\ h[i].day_start_timestamp <= today
           /\ \E x \in S : DayBucketStart(x.verified_at)
                             = h[i].day_start_timestamp
      /\ \A x \in S : DayBucketStart(x.verified_at) >= start =>
           \E i \in 1 .. Len(h) :
             h[i].day_start_timestamp = DayBucketStart(x.verified_at)
  <2>1. MatchedDays(h, S, t)
    BY MatchingDays
  <2>2. QED
    BY <2>1 DEF MatchedDays
<1>2. InOrder(h) /\ \A i \in 1 .. Len(h) :
        h[i].emission_grams = EmissionsOf(On(h[i].day_start_timestamp))
  BY DEF Matches
<1>3. Recorded(r, h, g, t)
  BY <1>1, <1>2, RecordKeeps
<1>4. today \in Int /\ start \in Int /\ start <= today
  BY DayOfTimestamp, WindowMoves
<1> HIDE DEF r
<1>5. DaysIn(r) = {d \in {DayBucketStart(x.verified_at) : x \in S \cup {c}} :
                     d >= start}
  <2>1. ASSUME NEW n \in 1 .. Len(r)
        PROVE  /\ r[n].day_start_timestamp >= start
               /\ \E x \in S \cup {c} : DayBucketStart(x.verified_at)
                                          = r[n].day_start_timestamp
    <3>1. CASE r[n].day_start_timestamp = today
      BY <1>4, <3>1
    <3>2. CASE r[n].day_start_timestamp # today
      BY <1>1, <1>3, <3>2 DEF Recorded
    <3>3. QED
      BY <3>1, <3>2
  <2>2. ASSUME NEW x \in S \cup {c}, DayBucketStart(x.verified_at) >= start
        PROVE  \E n \in 1 .. Len(r) : r[n].day_start_timestamp
                                        = DayBucketStart(x.verified_at)
    <3>1. CASE DayBucketStart(x.verified_at) = today
      BY <1>3, <3>1 DEF Recorded
    <3>2. CASE DayBucketStart(x.verified_at) # today
      <4>1. x \in S
        BY <2>2, <3>2
      <4>2. PICK i \in 1 .. Len(h) :
              h[i].day_start_timestamp = DayBucketStart(x.verified_at)
        BY <1>1, <2>2, <4>1
      <4>3. \E n \in 1 .. Len(r) : r[n] = h[i]
        BY <1>3, <2>2, <3>2, <4>2 DEF Recorded
      <4>4. QED
        BY <4>2, <4>3
    <3>3. QED
      BY <3>1, <3>2
  <2> HIDE DEF today, start
  <2>3. QED
    BY <2>1, <2>2 DEF DaysIn
<1>6. ASSUME NEW n \in 1 .. Len(r)
      PROVE  r[n].emission_grams
               = EmissionsOf({x \in S \cup {c} : DayBucketStart(x.verified_at)
                                                   = r[n].day_start_timestamp})
  <2>1. CASE r[n].day_start_timestamp # today
    <3>1. PICK i \in 1 .. Len(h) : r[n] = h[i]
      BY <1>3, <2>1 DEF Recorded
    <3>2. {x \in S \cup {c} : DayBucketStart(x.verified_at)
                                = r[n].day_start_timestamp}
            = On(h[i].day_start_timestamp)
      BY <2>1, <3>1
    <3>3. QED
      BY <1>2, <3>1, <3>2
  <2>2. CASE r[n].day_start_timestamp = today
    <3> DEFINE A == On(today)
    <3>1. {x \in S \cup {c} : DayBucketStart(x.verified_at)
                                = r[n].day_start_timestamp} = A \cup {c}
      BY <2>2
    <3>2. IsFiniteSet(A) /\ c \notin A /\ A \in SUBSET FootprintCommitments
      BY FS_Subset
    <3>3. EmissionsOf(A \cup {c}) = SatAdd(EmissionsOf(A), g)
      <4> HIDE DEF A
      <4>1. QED
        BY <3>2, GramsAdded
    <3>4. CASE /\ \A i \in 1 .. Len(h) : h[i].day_start_timestamp # today
               /\ r[n].emission_grams = g
      <4>1. A = {}
        BY <1>1, <1>4, <3>4
      <4>2. EmissionsOf(A) = 0
        BY <4>1, NoGrams
      <4>3. SatAdd(0, g) = g
        BY MaxU64Assumption DEF SatAdd, U64
      <4>4. QED
        BY <3>1, <3>3, <3>4, <4>2, <4>3
    <3>5. CASE \E i \in 1 .. Len(h) :
                 /\ h[i].day_start_timestamp = today
                 /\ r[n].emission_grams = SatAdd(h[i].emission_grams, g)
      BY <1>2, <3>1, <3>3, <3>5
    <3>6. QED
      BY <1>3, <2>2, <3>4, <3>5 DEF Recorded
  <2>3. QED
    BY <2>1, <2>2
<1>7. InOrder(r)
  BY <1>3 DEF Recorded
<1>8. QED
  BY <1>5, <1>6, <1>7 DEF Matches, r

\* Without commitments there is no history, in any window.
LEMMA MatchNothing ==
  ASSUME NEW h, NEW s, NEW t, Matches(h, {}, s)
  PROVE  Matches(h, {}, t)
<1>1. DaysIn(h) = {}
  BY DEF Matches
<1>2. QED
  BY <1>1 DEF Matches

LEMMA InitMatches == Init => HistoryInv
<1> SUFFICES ASSUME Init PROVE HistoryInv
  OBVIOUS
<1>1. ASSUME NEW u \in Users
      PROVE  Matches(history[u], CommitmentsOf(u), profile[u].last_verified_at)
  <2>1. history[u] = << >> /\ CommitmentsOf(u) = {}
    BY DEF Init, CommitmentsOf
  <2>2. Len(<< >>) = 0 /\ \A i \in 1 .. Len(<< >>) : FALSE
    BY EmptySeq
  <2>3. DaysIn(<< >>) = {} /\ InOrder(<< >>)
    BY <2>2 DEF DaysIn, InOrder
  <2>4. Matches(<< >>, {}, profile[u].last_verified_at)
    BY <2>2, <2>3 DEF Matches
  <2>5. QED
    BY <2>1, <2>4
<1>2. QED
  BY <1>1, InitRecords, InitHistory DEF HistoryInv

LEMMA MatchesPreserved ==
  ASSUME SeedArgs = {}, HistoryInv, [Next]_vars
  PROVE  HistoryInv'
<1>1. /\ AccountsTypeOK /\ RecordInv /\ RecordInv' /\ HistoryTypeOK /\ HistoryTypeOK'
      /\ \A v \in Users :
           Matches(history[v], CommitmentsOf(v), profile[v].last_verified_at)
  BY RecordsPreserved, HistoryTypesPreserved DEF HistoryInv, RecordInv
<1>2. ASSUME \A v \in Users :
               Matches(history'[v], CommitmentsOf(v)', profile'[v].last_verified_at)
      PROVE  HistoryInv'
  BY <1>1, <1>2 DEF HistoryInv
<1>3. ASSUME NEW k \in Keys, NEW u \in Users, NEW f \in Footprints,
             SubmitVerifiedFootprint(k, u, f)
      PROVE  HistoryInv'
  <2> DEFINE c == Commitment(u, k, f, now)
             S == CommitmentsOf(u)
             h == history[u]
             last == profile[u].last_verified_at
             r == RecordDailyEmission(h, f.emission_delta_grams, now)
  <2>1. /\ c \notin commitments
        /\ CommitmentsOf(u)' = S \cup {c}
        /\ \A v \in Users \ {u} : CommitmentsOf(v)' = CommitmentsOf(v)
        /\ c.emission_delta_grams = f.emission_delta_grams
        /\ c.reduction_delta_grams = f.reduction_delta_grams
        /\ c.verified_at = now
    BY <1>1, <1>3, CommitmentAdded
  <2>2. /\ profile'[u].last_verified_at = now
        /\ \A v \in Users \ {u} : profile'[v] = profile[v]
    BY <1>1, <1>3, FootprintApplied
  <2>3. history'[u] = r /\ \A v \in Users \ {u} : history'[v] = history[v]
    BY <1>1, <1>3 DEF SubmitVerifiedFootprint, HistoryTypeOK
  <2>4. /\ h \in Seq(DailyEntries) /\ S \in SUBSET FootprintCommitments
        /\ IsFiniteSet(S) /\ c \notin S
        /\ last \in Int /\ now \in Int
    BY <1>1, <2>1, FS_Subset
       DEF HistoryTypeOK, AccountsTypeOK, RecordInv, CommitmentsOf, Profiles
  <2>5. /\ last <= now /\ Matches(h, S, last)
        /\ \A x \in S : x.verified_at <= last
    BY <1>1 DEF RecordInv
  <2>6. c.emission_delta_grams \in U64 /\ c.reduction_delta_grams \in U64
    BY <2>1, ArgumentsAssumption
  <2>7. Matches(r, S \cup {c}, now)
    <3> HIDE DEF c, S, h, last, r
    <3>1. Matches(RecordDailyEmission(h, c.emission_delta_grams, now),
                  S \cup {c}, now)
      BY <2>1, <2>4, <2>5, <2>6, MatchRecorded
    <3>2. QED
      BY <2>1, <3>1 DEF r
  <2>8. QED
    BY <1>1, <1>2, <2>1, <2>2, <2>3, <2>7
<1>4. ASSUME NEW u \in Users, NEW k \in Keys, NEW p \in PublicProfiles,
             RegisterUser(u, k, p)
      PROVE  HistoryInv'
  <2>1. /\ ~profile[u].registered
        /\ \A v \in Users \ {u} : profile'[v] = profile[v]
        /\ UNCHANGED <<history, commitments>>
    BY <1>1, <1>4, ProfileCreated
  <2>2. /\ \A v \in Users : CommitmentsOf(v)' = CommitmentsOf(v)
        /\ CommitmentsOf(u) = {}
    BY <1>1, <2>1 DEF CommitmentsOf, RecordInv
  <2>3. Matches(history[u], {}, profile[u].last_verified_at)
    BY <1>1, <2>2
  <2>4. Matches(history[u], {}, profile'[u].last_verified_at)
    BY <2>3, MatchNothing
  <2>5. QED
    BY <1>1, <1>2, <2>1, <2>2, <2>4
<1>5. ASSUME Aside PROVE HistoryInv'
  <2>1. \A v \in Users : /\ CommitmentsOf(v)' = CommitmentsOf(v)
                         /\ history'[v] = history[v]
                         /\ profile'[v].last_verified_at
                              = profile[v].last_verified_at
    BY <1>5 DEF Aside, SameSummary, CommitmentsOf
  <2>2. QED
    BY <1>1, <1>2, <2>1
<1>6. QED
  BY <1>1, <1>3, <1>4, <1>5, StepsAside

\* While no history is seeded, every user's rolling history holds, in order and
\* once, the days of the window that ended at the last footprint, with the sum of
\* the emissions of each: pruning, merging and draining in record_daily_emission
\* lose nothing and keep nothing too long.
THEOREM HistoriesMatch ==
  ASSUME SeedArgs = {}
  PROVE  Spec => []HistoryMatchesCommitments
<1>1. Init => HistoryInv
  BY InitMatches
<1>2. HistoryInv /\ [Next]_vars => HistoryInv'
  BY MatchesPreserved
<1>3. HistoryInv => HistoryMatchesCommitments
  <2>1. SUFFICES ASSUME HistoryInv PROVE HistoryMatchesCommitments
    OBVIOUS
  <2>2. ASSUME NEW u \in Users
        PROVE  LET h == history[u]
                   days == {h[i].day_start_timestamp : i \in DOMAIN h}
               IN  /\ \A i \in 1 .. Len(h) - 1 :
                        h[i].day_start_timestamp < h[i + 1].day_start_timestamp
                   /\ days = ActiveDays(u, profile[u].last_verified_at)
                   /\ \A i \in DOMAIN h :
                        h[i].emission_grams = GramsOn(u, h[i].day_start_timestamp)
    <3> DEFINE h == history[u]
    <3>1. /\ Matches(h, CommitmentsOf(u), profile[u].last_verified_at)
          /\ h \in Seq(DailyEntries)
      BY <2>1 DEF HistoryInv, HistoryTypeOK
    <3>2. DOMAIN h = 1 .. Len(h) /\ Len(h) \in Nat
      BY <3>1, LenProperties
    <3> HIDE DEF h
    <3>3. \A i \in 1 .. Len(h) - 1 :
            h[i].day_start_timestamp < h[i + 1].day_start_timestamp
      <4>1. \A i \in 1 .. Len(h) - 1 :
              i \in 1 .. Len(h) /\ i + 1 \in 1 .. Len(h) /\ i < i + 1
        BY <3>2
      <4>2. QED
        BY <3>1, <4>1 DEF Matches, InOrder
    <3>4. {h[i].day_start_timestamp : i \in DOMAIN h}
            = ActiveDays(u, profile[u].last_verified_at)
      BY <3>1, <3>2 DEF Matches, DaysIn, ActiveDays
    <3>5. \A i \in DOMAIN h :
            h[i].emission_grams = GramsOn(u, h[i].day_start_timestamp)
      BY <3>1, <3>2 DEF Matches, GramsOn
    <3>6. QED
      BY <3>3, <3>4, <3>5 DEF h
  <2>3. QED
    BY <2>2 DEF HistoryMatchesCommitments
<1>4. QED
  BY <1>1, <1>2, <1>3, PTL DEF Spec

\* The grams of two groups of commitments
LEMMA GramsUnion ==
  ASSUME NEW S \in SUBSET FootprintCommitments, IsFiniteSet(S),
         NEW T \in SUBSET FootprintCommitments, IsFiniteSet(T), S \cap T = {}
  PROVE  EmissionsOf(S \cup T) = SatAdd(EmissionsOf(S), EmissionsOf(T))
<1> DEFINE f == [x \in S |-> x.emission_delta_grams]
           g == [x \in T |-> x.emission_delta_grams]
           h == [x \in S \cup T |-> x.emission_delta_grams]
<1>1. /\ \A x \in S : h[x] = f[x] /\ f[x] \in Nat
      /\ \A x \in T : h[x] = g[x] /\ g[x] \in Nat
  BY GramsTyped
<1>a. /\ EmissionsOf(S) = Capped(Total(S, f))
      /\ EmissionsOf(T) = Capped(Total(T, g))
      /\ EmissionsOf(S \cup T) = Capped(Total(S \cup T, h))
  BY DEF EmissionsOf
<1> HIDE DEF f, g, h
<1>2. /\ Total(S \cup T, h) = Total(S, f) + Total(T, g)
      /\ Total(S, f) \in Nat /\ Total(T, g) \in Nat
  BY <1>1, TotalUnion, TotalType
<1>3. \A m, n \in Nat : Capped(m + n) = SatAdd(Capped(m), Capped(n))
  BY MaxU64Assumption DEF Capped, SatAdd
<1>4. QED
  BY <1>a, <1>2, <1>3

\* The sum over an ordered history whose entries are the grams of their days is
\* the sum over the commitments of those days.
LEMMA GramsOfDays ==
  ASSUME NEW h \in Seq(DailyEntries), InOrder(h),
         NEW S \in SUBSET FootprintCommitments, IsFiniteSet(S),
         \A i \in 1 .. Len(h) :
           h[i].emission_grams
             = EmissionsOf({c \in S : DayBucketStart(c.verified_at)
                                        = h[i].day_start_timestamp})
  PROVE  GramsOf(h)
           = EmissionsOf({c \in S : DayBucketStart(c.verified_at) \in DaysIn(h)})
<1> DEFINE N == Len(h)
           On(i) == {c \in S : DayBucketStart(c.verified_at)
                                 = h[i].day_start_timestamp}
           Upto(i) == {c \in S : \E j \in 1 .. i :
                         DayBucketStart(c.verified_at) = h[j].day_start_timestamp}
<1>1. PICK sum : /\ sum[0] = 0
                 /\ \A i \in 1 .. N : sum[i] = SatAdd(sum[i - 1], h[i].emission_grams)
                 /\ GramsOf(h) = sum[N]
  BY GramsStepByStep
<1>2. N \in Nat
  BY EntryTypes
<1> DEFINE T == {i \in 0 .. N : sum[i] # EmissionsOf(Upto(i))}
<1>3. ASSUME T # {} PROVE FALSE
  <2>1. T \subseteq Nat
    BY <1>2
  <2>2. PICK m \in T : \A k \in T : m <= k
    <3> HIDE DEF T
    <3>1. QED
      BY <1>3, <2>1, LeastNumber
  <2>3. m \in 0 .. N /\ sum[m] # EmissionsOf(Upto(m))
    BY DEF T
  <2>4. CASE m = 0
    <3>1. Upto(0) = {}
      OBVIOUS
    <3> HIDE DEF Upto
    <3>2. QED
      BY <1>1, <2>3, <2>4, <3>1, NoGrams
  <2>5. CASE m # 0
    <3>1. m - 1 \in 0 .. N /\ m \in 1 .. N /\ m - 1 < m /\ m - 1 \in Int
      BY <1>2, <2>3, <2>5
    <3>2. sum[m - 1] = EmissionsOf(Upto(m - 1))
      <4>1. m - 1 \notin T
        BY <2>2, <3>1
      <4>2. QED
        BY <3>1, <4>1 DEF T
    <3>3. sum[m] = SatAdd(EmissionsOf(Upto(m - 1)), EmissionsOf(On(m)))
      BY <1>1, <3>1, <3>2
    <3>4. Upto(m) = Upto(m - 1) \cup On(m)
      <4>1. \A j \in 1 .. m : j \in 1 .. m - 1 \/ j = m
        BY <3>1
      <4>2. \A j \in 1 .. m - 1 : j \in 1 .. m
        BY <3>1
      <4>3. m \in 1 .. m
        BY <3>1
      <4>4. QED
        BY <4>1, <4>2, <4>3
    <3>5. Upto(m - 1) \cap On(m) = {}
      <4>1. \A j \in 1 .. m - 1 : j \in 1 .. N /\ j # m
        BY <1>2, <3>1
      <4>2. \A j \in 1 .. m - 1 :
              h[j].day_start_timestamp # h[m].day_start_timestamp
        BY <3>1, <4>1, OneEntryPerDay
      <4>3. QED
        BY <4>2
    <3>6. /\ IsFiniteSet(Upto(m - 1)) /\ IsFiniteSet(On(m))
          /\ Upto(m - 1) \in SUBSET FootprintCommitments
          /\ On(m) \in SUBSET FootprintCommitments
      BY FS_Subset
    <3> HIDE DEF Upto, On
    <3>7. QED
      BY <2>3, <3>3, <3>4, <3>5, <3>6, GramsUnion
  <2>6. QED
    BY <2>4, <2>5
<1>4. N \in 0 .. N
  BY <1>2
<1>5. sum[N] = EmissionsOf(Upto(N))
  BY <1>3, <1>4
<1>6. Upto(N) = {c \in S : DayBucketStart(c.verified_at) \in DaysIn(h)}
  BY DEF DaysIn
<1>7. QED
  BY <1>1, <1>5, <1>6

\* A month is reported when all its days are in the history.
LEMMA MonthOfMatch ==
  ASSUME NEW h \in Seq(DailyEntries), NEW S \in SUBSET FootprintCommitments,
         IsFiniteSet(S), NEW last \in Int, NEW t \in Int, last <= t,
         \A x \in S : x.verified_at <= last,
         Matches(h, S, last)
  PROVE  PastMonthEmissionsGrams(h, t)
           = IF DaysOfWindow(t) \subseteq
                  {d \in {DayBucketStart(c.verified_at) : c \in S} :
                     d >= RollingWindowStart(t)}
             THEN EmissionsOf({c \in S : DayBucketStart(c.verified_at)
                                           \in DaysOfWindow(t)})
             ELSE NoMonth
<1> DEFINE start == RollingWindowStart(t)
           W == DaysOfWindow(t)
           D == {d \in {DayBucketStart(c.verified_at) : c \in S} : d >= start}
           a == ActiveEmissionHistory(h, t)
<1>1. MatchedDays(h, S, t)
  BY MatchingDays
<1>2. InOrder(h) /\ \A i \in 1 .. Len(h) :
        h[i].emission_grams
          = EmissionsOf({c \in S : DayBucketStart(c.verified_at)
                                     = h[i].day_start_timestamp})
  BY DEF Matches
<1>3. /\ a \in Seq(DailyEntries) /\ InOrder(a)
      /\ \A n \in 1 .. Len(a) : /\ \E i \in 1 .. Len(h) : a[n] = h[i]
                                /\ a[n].day_start_timestamp >= start
      /\ \A i \in 1 .. Len(h) : h[i].day_start_timestamp >= start =>
           \E n \in 1 .. Len(a) : a[n] = h[i]
  BY <1>2, ActiveKeeps
<1>4. PastMonthEmissionsGrams(h, t)
        = IF Len(a) < HistoryDays \/ a[1].day_start_timestamp > start
          THEN NoMonth ELSE GramsOf(a)
  BY DEF PastMonthEmissionsGrams
<1>5. /\ IsFiniteSet(W) /\ Cardinality(W) = HistoryDays /\ start \in W
  BY WindowSize
<1>6. start \in Int /\ HistoryDays \in Nat \ {0}
  BY WindowMoves, HistoryAssumption
<1>7. /\ Len(a) \in Nat
      /\ \A n \in 1 .. Len(a) : a[n].day_start_timestamp \in Int
  BY <1>3, EntryTypes
<1> HIDE DEF a
<1>8. DaysIn(a) = D
  <2>1. ASSUME NEW n \in 1 .. Len(a)
        PROVE  /\ a[n].day_start_timestamp >= start
               /\ \E x \in S : DayBucketStart(x.verified_at)
                                 = a[n].day_start_timestamp
    <3>1. PICK i \in 1 .. Len(h) : a[n] = h[i]
      BY <1>3
    <3>2. \E x \in S : DayBucketStart(x.verified_at) = h[i].day_start_timestamp
      BY <1>1 DEF MatchedDays
    <3>3. QED
      BY <1>3, <3>1, <3>2
  <2>2. ASSUME NEW x \in S, DayBucketStart(x.verified_at) >= start
        PROVE  \E n \in 1 .. Len(a) : a[n].day_start_timestamp
                                        = DayBucketStart(x.verified_at)
    <3>1. PICK i \in 1 .. Len(h) :
            h[i].day_start_timestamp = DayBucketStart(x.verified_at)
      BY <1>1, <2>2 DEF MatchedDays
    <3>2. QED
      BY <1>3, <2>2, <3>1
  <2> HIDE DEF start
  <2>3. QED
    BY <2>1, <2>2 DEF DaysIn
<1>9. D \in SUBSET W
  <2>1. SUFFICES ASSUME NEW x \in S, DayBucketStart(x.verified_at) >= start
                 PROVE  DayBucketStart(x.verified_at) \in W
    OBVIOUS
  <2>2. /\ IsDay(DayBucketStart(x.verified_at))
        /\ DayBucketStart(x.verified_at) \in Int
    BY CommitmentTypes
  <2>3. start <= DayBucketStart(x.verified_at)
    BY <1>6, <2>1, <2>2
  <2>4. DayBucketStart(x.verified_at) <= DayBucketStart(t)
    BY <1>1 DEF MatchedDays
  <2>5. QED
    BY <2>2, <2>3, <2>4, DayInWindow
<1>10. Cardinality(D) = Len(a) /\ IsFiniteSet(D)
  BY <1>3, <1>8, OneEntryPerDay
<1> HIDE DEF D, W, start
<1>11. CASE W \subseteq D
  <2>1. D = W
    BY <1>9, <1>11
  <2>2. Len(a) = HistoryDays
    BY <1>5, <1>10, <2>1
  <2>3. ~(a[1].day_start_timestamp > start)
    <3>1. PICK n \in 1 .. Len(a) : a[n].day_start_timestamp = start
      BY <1>5, <1>8, <2>1 DEF DaysIn
    <3>2. 1 \in 1 .. Len(a) /\ (n = 1 \/ 1 < n)
      BY <1>7, <3>1
    <3>3. 1 < n => a[1].day_start_timestamp < a[n].day_start_timestamp
      BY <1>3, <3>2 DEF InOrder
    <3>4. QED
      BY <1>6, <1>7, <3>1, <3>2, <3>3
  <2>4. GramsOf(a) = EmissionsOf({c \in S : DayBucketStart(c.verified_at) \in W})
    <3>1. ASSUME NEW n \in 1 .. Len(a)
          PROVE  a[n].emission_grams
                   = EmissionsOf({c \in S : DayBucketStart(c.verified_at)
                                              = a[n].day_start_timestamp})
      <4>1. PICK i \in 1 .. Len(h) : a[n] = h[i]
        BY <1>3
      <4>2. QED
        BY <1>2, <4>1
    <3>2. GramsOf(a)
            = EmissionsOf({c \in S : DayBucketStart(c.verified_at) \in DaysIn(a)})
      BY <1>3, <3>1, GramsOfDays
    <3>3. QED
      BY <1>8, <2>1, <3>2
  <2>5. PastMonthEmissionsGrams(h, t) = GramsOf(a)
    <3>1. ~(Len(a) < HistoryDays)
      BY <1>6, <2>2
    <3>2. QED
      BY <1>4, <2>3, <3>1
  <2>6. QED
    BY <1>11, <2>4, <2>5 DEF D, W, start
<1>12. CASE ~(W \subseteq D)
  <2>1. Cardinality(D) <= Cardinality(W) /\ Cardinality(D) # Cardinality(W)
    BY <1>5, <1>9, <1>12, FS_Subset
  <2>2. Len(a) < HistoryDays
    BY <1>5, <1>6, <1>7, <1>10, <2>1
  <2>3. PastMonthEmissionsGrams(h, t) = NoMonth
    BY <1>4, <2>2
  <2>4. QED
    BY <1>12, <2>3 DEF D, W, start
<1>13. QED
  BY <1>11, <1>12

\* While no history is seeded, the month that past_month_emissions_grams reports
\* at any time is complete, and is the sum of the footprints of its days.
THEOREM MonthsComplete ==
  ASSUME SeedArgs = {}
  PROVE  Spec => []PastMonthComplete
<1>1. Init => HistoryInv
  BY InitMatches
<1>2. HistoryInv /\ [Next]_vars => HistoryInv'
  BY MatchesPreserved
<1>3. HistoryInv => PastMonthComplete
  <2>1. SUFFICES ASSUME HistoryInv PROVE PastMonthComplete
    OBVIOUS
  <2>2. ASSUME NEW u \in Users
        PROVE  PastMonthEmissionsGrams(history[u], now)
                 = IF Window(now) \subseteq ActiveDays(u, now)
                   THEN EmissionsOf({c \in CommitmentsOf(u) :
                                       DayBucketStart(c.verified_at)
                                         \in Window(now)})
                   ELSE NoMonth
    <3> DEFINE S == CommitmentsOf(u)
               last == profile[u].last_verified_at
    <3>1. /\ history[u] \in Seq(DailyEntries) /\ S \in SUBSET FootprintCommitments
          /\ IsFiniteSet(S) /\ last \in Int /\ now \in Int
      BY <2>1, FS_Subset
         DEF HistoryInv, HistoryTypeOK, AccountsTypeOK, RecordInv, CommitmentsOf,
             Profiles
    <3>2. /\ last <= now /\ Matches(history[u], S, last)
          /\ \A x \in S : x.verified_at <= last
      BY <2>1 DEF HistoryInv, RecordInv
    <3> HIDE DEF S, last
    <3>3. PastMonthEmissionsGrams(history[u], now)
            = IF DaysOfWindow(now) \subseteq
                   {d \in {DayBucketStart(c.verified_at) : c \in S} :
                      d >= RollingWindowStart(now)}
              THEN EmissionsOf({c \in S : DayBucketStart(c.verified_at)
                                            \in DaysOfWindow(now)})
              ELSE NoMonth
      BY <3>1, <3>2, MonthOfMatch
    <3>4. Window(now) = DaysOfWindow(now)
      BY DEF Window, DaysOfWindow
    <3>5. QED
      BY <3>3, <3>4 DEF ActiveDays, S
  <2>3. QED
    BY <2>2 DEF PastMonthComplete
<1>4. QED
  BY <1>1, <1>2, <1>3, PTL DEF Spec
=============================================================================
