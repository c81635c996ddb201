--------------------------- MODULE GreenReputation ---------------------------
(***************************************************************************)
(* The on-chain program (solana/programs/green-reputation).                 *)
(*                                                                         *)
(* One action per instruction.  A Solana transaction is atomic: when any    *)
(* require!, account constraint or inner call fails, nothing is written, so *)
(* every rejection is a guard.  The accounts are                           *)
(*   config       the ProtocolConfig PDA                                   *)
(*   treasury     the RewardTreasury PDA                                   *)
(*   vault        lamports of the treasury vault PDA (0: not created)      *)
(*   profile      the UserProfile PDA of every user, without its history   *)
(*   history      UserProfile.emission_history, decoded                    *)
(*   commitments  the FootprintCommitment PDAs                             *)
(*   wallet       lamports that claims have moved to each user's wallet    *)
(*   now          the cluster clock (Clock::get)                           *)
(* A PDA that does not exist is its zeroed record with the existence flag   *)
(* FALSE.  Rent of PDAs other than the vault, bumps, account versions,      *)
(* source kinds and events are left out: nothing reads them.               *)
(***************************************************************************)
EXTENDS EmissionHistory

CONSTANTS
  Keys,            \* public keys that sign transactions
  Users,           \* keys that register as users
  MaxU32,          \* largest metadata version
  MaxTime,         \* bound on the cluster clock
  VaultRent,       \* rent-exempt minimum of an empty account
  LamportSupply,   \* bound on the lamports the vault can ever hold
  ProtocolArgs,    \* arguments tried for initialize_protocol
  ConfigUpdates,   \* arguments tried for update_protocol_config
  PublicProfiles,  \* valid public profiles
  SeedArgs,        \* arguments tried for admin_seed_emission_history
  SyncArgs,        \* arguments tried for sync_sbt_state
  FundAmounts,     \* amounts tried for fund_treasury
  Footprints,      \* arguments tried for submit_verified_footprint
  NotGiven,        \* None of an Option argument
  NoKey,           \* Pubkey::default()
  NoHash,          \* the all-zero hash
  NoProfile        \* public profile of an account that does not exist

ASSUME ConstantsAssumption ==
  /\ Users \subseteq Keys
  /\ IsFiniteSet(Users)
  /\ MaxU32 \in Nat \ {0}
  /\ MaxTime \in Nat \ {0}
  /\ VaultRent \in Nat \ {0}
  /\ LamportSupply \in Nat
  /\ LamportSupply < MaxU64    \* all lamports there are fit a u64

\* Every argument has the type the instruction declares for it.
ASSUME ArgumentsAssumption ==
  /\ ProtocolArgs \subseteq
       [verifier : Keys, metadata_update_authority : Keys,
        treasury_authority : Keys, sbt_mint_authority : Keys,
        allow_third_party_sponsors : BOOLEAN,
        reward_policy : RewardPolicies, rank_thresholds : RankThresholds]
  /\ ConfigUpdates \subseteq
       [verifier : Keys \cup {NotGiven},
        metadata_update_authority : Keys \cup {NotGiven},
        treasury_authority : Keys \cup {NotGiven},
        sbt_mint_authority : Keys \cup {NotGiven},
        allow_third_party_sponsors : BOOLEAN \cup {NotGiven},
        reward_policy : RewardPolicies \cup {NotGiven},
        rank_thresholds : RankThresholds \cup {NotGiven}]
  /\ FundAmounts \subseteq U64
  /\ \A f \in Footprints : /\ f.emission_delta_grams \in U64
                           /\ f.reduction_delta_grams \in U64
                           /\ f.reward_delta_lamports \in U64
  /\ \A s \in SyncArgs : s.metadata_version \in 0 .. MaxU32
  /\ \A s \in SeedArgs : /\ s.emission_history \in Seq(DailyEntries)
                         /\ s.total_emissions_grams \in U64
                         /\ s.commitment_count \in U64
                         /\ s.last_verified_at \in Int

VARIABLES config, treasury, vault, profile, history, commitments, wallet, now

vars == <<config, treasury, vault, profile, history, commitments, wallet, now>>

-----------------------------------------------------------------------------
Account == Keys \cup {NoKey}

Configs ==
  [initialized : BOOLEAN, admin : Account, verifier : Account,
   metadata_update_authority : Account, treasury_authority : Account,
   sbt_mint_authority : Account, allow_third_party_sponsors : BOOLEAN,
   reward_policy : RewardPolicies, rank_thresholds : RankThresholds]

Treasuries ==
  [initialized : BOOLEAN, authority : Account, total_funded_lamports : U64,
   total_disbursed_lamports : U64, total_pending_lamports : U64,
   last_funded_at : Int]

Hashes == {f.commitment_hash : f \in Footprints} \cup {NoHash}
UriHashes == {a.metadata_uri_hash : a \in SyncArgs} \cup {NoHash}
Periods == {f.period_key : f \in Footprints} \cup {0}

Profiles ==
  [registered : BOOLEAN, rank : Ranks, sponsor : Account, has_sbt : BOOLEAN,
   total_emissions_grams : U64, total_reduced_grams : U64,
   pending_reward_lamports : U64, total_claimed_lamports : U64,
   commitment_count : U64, last_verified_at : Int,
   latest_period_key : Periods, latest_commitment_hash : Hashes,
   metadata_version : 0 .. MaxU32, metadata_uri_hash : UriHashes,
   last_metadata_sync_at : Int, sbt_minted_at : Int,
   public_profile : PublicProfiles \cup {NoProfile}]

FootprintCommitments ==
  [user : Users, verifier : Keys, period_key : Periods,
   commitment_hash : Hashes, emission_delta_grams : U64,
   reduction_delta_grams : U64, reward_delta_lamports : U64,
   verified_at : Int]

NoConfig ==
  [initialized |-> FALSE, admin |-> NoKey, verifier |-> NoKey,
   metadata_update_authority |-> NoKey, treasury_authority |-> NoKey,
   sbt_mint_authority |-> NoKey, allow_third_party_sponsors |-> FALSE,
   reward_policy |->
     [lamports_per_kg_reduced |-> 0, minimum_reduction_grams |-> 0,
      max_lamports_per_period |-> 0, max_pending_lamports |-> 0],
   rank_thresholds |->
     [seedling_min_reduction_grams |-> 0, sapling_min_reduction_grams |-> 0,
      tree_min_reduction_grams |-> 0, forest_min_reduction_grams |-> 0]]

NoTreasury ==
  [initialized |-> FALSE, authority |-> NoKey, total_funded_lamports |-> 0,
   total_disbursed_lamports |-> 0, total_pending_lamports |-> 0,
   last_funded_at |-> 0]

\* UserProfile::initialize; the account before it is the same record with
\* registered FALSE.
NewProfile(registered, sponsor, rank, version, publicProfile) ==
  [registered |-> registered, rank |-> rank, sponsor |-> sponsor,
   has_sbt |-> FALSE, total_emissions_grams |-> 0, total_reduced_grams |-> 0,
   pending_reward_lamports |-> 0, total_claimed_lamports |-> 0,
   commitment_count |-> 0, last_verified_at |-> 0, latest_period_key |-> 0,
   latest_commitment_hash |-> NoHash, metadata_version |-> version,
   metadata_uri_hash |-> NoHash, last_metadata_sync_at |-> 0,
   sbt_minted_at |-> 0, public_profile |-> publicProfile]

Init ==
  /\ config = NoConfig
  /\ treasury = NoTreasury
  /\ vault = 0
  /\ profile = [u \in Users |-> NewProfile(FALSE, NoKey, 0, 0, NoProfile)]
  /\ history = [u \in Users |-> << >>]
  /\ commitments = {}
  /\ wallet = [u \in Users |-> 0]
  /\ now = 1

-----------------------------------------------------------------------------
\* Configuration

InitializeProtocol(admin, args) ==
  /\ ~config.initialized
  /\ ValidPolicy(args.reward_policy)
  /\ ValidThresholds(args.rank_thresholds)
  /\ config' =
       [initialized |-> TRUE, admin |-> admin, verifier |-> args.verifier,
        metadata_update_authority |-> args.metadata_update_authority,
        treasury_authority |-> args.treasury_authority,
        sbt_mint_authority |-> args.sbt_mint_authority,
        allow_third_party_sponsors |-> args.allow_third_party_sponsors,
        reward_policy |-> args.reward_policy,
        rank_thresholds |-> args.rank_thresholds]
  /\ UNCHANGED <<treasury, vault, profile, history, commitments, wallet, now>>

\* Option::unwrap_or
Given(option, current) == IF option = NotGiven THEN current ELSE option

UpdateProtocolConfig(admin, args) ==
  /\ config.initialized
  /\ admin = config.admin
  /\ args.reward_policy # NotGiven => ValidPolicy(args.reward_policy)
  /\ args.rank_thresholds # NotGiven => ValidThresholds(args.rank_thresholds)
  /\ config' =
       [config EXCEPT
         !.verifier = Given(args.verifier, @),
         !.metadata_update_authority = Given(args.metadata_update_authority, @),
         !.treasury_authority = Given(args.treasury_authority, @),
         !.sbt_mint_authority = Given(args.sbt_mint_authority, @),
         !.allow_third_party_sponsors =
             Given(args.allow_third_party_sponsors, @),
         !.reward_policy = Given(args.reward_policy, @),
         !.rank_thresholds = Given(args.rank_thresholds, @)]
  /\ UNCHANGED <<treasury, vault, profile, history, commitments, wallet, now>>

-----------------------------------------------------------------------------
\* User profiles

RegisterUser(user, sponsor, publicProfile) ==
  /\ config.initialized
  /\ ~profile[user].registered
  /\ config.allow_third_party_sponsors \/ sponsor = user
  /\ profile' = [profile EXCEPT ![user] =
        NewProfile(TRUE, sponsor, RankFromReduction(0, config.rank_thresholds),
                   1, publicProfile)]
  /\ UNCHANGED <<config, treasury, vault, history, commitments, wallet, now>>

\* u32::saturating_add(1)
NextVersion(version) == IF version < MaxU32 THEN version + 1 ELSE MaxU32

UpdatePublicProfile(user, publicProfile) ==
  /\ profile[user].registered
  /\ profile' = [profile EXCEPT ![user] =
        [@ EXCEPT !.public_profile = publicProfile,
                  !.metadata_version = NextVersion(profile[user].metadata_version)]]
  /\ UNCHANGED <<config, treasury, vault, history, commitments, wallet, now>>

AdminSeedEmissionHistory(admin, user, args) ==
  /\ config.initialized
  /\ admin = config.admin
  /\ profile[user].registered
  /\ ValidSeed(args.emission_history, args.last_verified_at)
  /\ history' = [history EXCEPT ![user] = args.emission_history]
  /\ profile' = [profile EXCEPT ![user] =
        [@ EXCEPT !.last_verified_at = args.last_verified_at,
                  !.total_emissions_grams = args.total_emissions_grams,
                  !.commitment_count = args.commitment_count]]
  /\ UNCHANGED <<config, treasury, vault, commitments, wallet, now>>

\* The checks of mint_user_sbt and assign_sbt on the profile.
CanMint(p, sponsor) ==
  /\ sponsor = p.sponsor
  /\ ~p.has_sbt

\* The mint, its token account and the revoked mint authority are one bit: the
\* soul-bound token exists.
MintUserSbt(user, sponsor, mintAuthority) ==
  /\ config.initialized
  /\ profile[user].registered
  /\ mintAuthority = config.sbt_mint_authority
  /\ CanMint(profile[user], sponsor)
  /\ profile' = [profile EXCEPT ![user] =
        [@ EXCEPT !.has_sbt = TRUE,
                  !.sbt_minted_at = now,
                  !.metadata_version = NextVersion(profile[user].metadata_version)]]
  /\ UNCHANGED <<config, treasury, vault, history, commitments, wallet, now>>

CanSyncMetadata(authority) ==
  authority \in {config.admin, config.verifier, config.metadata_update_authority}

\* Mutant: the same version may be synced again.
CanSyncSameVersion(p, version) == p.has_sbt /\ version >= p.metadata_version

\* The checks of UserProfile::sync_sbt_metadata.
CanSync(p, version) ==
  /\ p.has_sbt
  /\ version > p.metadata_version

SyncSbtState(authority, user, args) ==
  /\ config.initialized
  /\ CanSyncMetadata(authority)
  /\ profile[user].registered
  /\ CanSync(profile[user], args.metadata_version)
  /\ profile' = [profile EXCEPT ![user] =
        [@ EXCEPT !.metadata_version = args.metadata_version,
                  !.metadata_uri_hash = args.metadata_uri_hash,
                  !.last_metadata_sync_at = now]]
  /\ UNCHANGED <<config, treasury, vault, history, commitments, wallet, now>>

-----------------------------------------------------------------------------
\* Treasury

InitializeRewardTreasury(admin) ==
  /\ config.initialized
  /\ admin = config.admin
  /\ ~treasury.initialized
  /\ vault' = VaultRent
  /\ treasury' =
       [NoTreasury EXCEPT !.initialized = TRUE,
                          !.authority = config.treasury_authority,
                          !.last_funded_at = now]
  /\ UNCHANGED <<config, profile, history, commitments, wallet, now>>

\* Mutant: what was paid out still counts as available.
AvailableIgnoresDisbursed(t) == t.total_funded_lamports

AvailableLamports(t) ==
  SatSub(t.total_funded_lamports, t.total_disbursed_lamports)

FundTreasury(admin, amount) ==
  /\ config.initialized
  /\ admin = config.admin
  /\ treasury.initialized
  /\ vault + amount <= LamportSupply      \* the admin has the lamports
  /\ vault' = vault + amount
  /\ treasury' = [treasury EXCEPT !.total_funded_lamports = SatAdd(@, amount),
                                  !.last_funded_at = now]
  /\ UNCHANGED <<config, profile, history, commitments, wallet, now>>

\* RewardTreasury::reserve_pending_rewards, and the check that follows it.
ReservePendingRewards(t, amount) ==
  [t EXCEPT !.total_pending_lamports = SatAdd(@, amount)]

\* UserProfile::apply_verified_footprint without record_daily_emission.
ApplyVerifiedFootprint(p, args, verifiedAt, thresholds) ==
  LET reduced == SatAdd(p.total_reduced_grams, args.reduction_delta_grams)
  IN  [p EXCEPT
        !.total_emissions_grams = SatAdd(@, args.emission_delta_grams),
        !.total_reduced_grams = reduced,
        !.pending_reward_lamports = SatAdd(@, args.reward_delta_lamports),
        !.commitment_count = SatAdd(@, 1),
        !.last_verified_at = verifiedAt,
        !.latest_period_key = args.period_key,
        !.latest_commitment_hash = args.commitment_hash,
        !.rank = RankFromReduction(reduced, thresholds)]

\* Mutant: the commitment account is not created with `init'.
NeverCommitted(user, args) == FALSE

\* The FootprintCommitment PDA of (user, period, hash) exists.
Committed(user, args) ==
  \E c \in commitments : /\ c.user = user
                         /\ c.period_key = args.period_key
                         /\ c.commitment_hash = args.commitment_hash

Commitment(user, verifier, args, verifiedAt) ==
  [user |-> user, verifier |-> verifier, period_key |-> args.period_key,
   commitment_hash |-> args.commitment_hash,
   emission_delta_grams |-> args.emission_delta_grams,
   reduction_delta_grams |-> args.reduction_delta_grams,
   reward_delta_lamports |-> args.reward_delta_lamports,
   verified_at |-> verifiedAt]

SubmitVerifiedFootprint(verifier, user, args) ==
  LET policy   == config.reward_policy
      reserved == ReservePendingRewards(treasury, args.reward_delta_lamports)
  IN
  /\ config.initialized /\ treasury.initialized /\ profile[user].registered
  /\ ~Committed(user, args)
  /\ verifier = config.verifier
  /\ args.reward_delta_lamports
       <= QuoteRewardLamports(policy, args.reduction_delta_grams)
  \* a checked addition: it aborts on overflow
  /\ profile[user].pending_reward_lamports + args.reward_delta_lamports
       <= policy.max_pending_lamports
  /\ reserved.total_pending_lamports <= AvailableLamports(reserved)
  /\ treasury' = reserved
  /\ profile' = [profile EXCEPT ![user] =
                   ApplyVerifiedFootprint(@, args, now, config.rank_thresholds)]
  /\ history' = [history EXCEPT ![user] =
                   RecordDailyEmission(@, args.emission_delta_grams, now)]
  /\ commitments' = commitments \cup {Commitment(user, verifier, args, now)}
  /\ UNCHANGED <<config, vault, wallet, now>>

\* Mutant: a claim leaves the treasury's pending total as it was.
DisburseKeepsPending(t, amount) ==
  [t EXCEPT !.total_disbursed_lamports = SatAdd(@, amount)]

\* RewardTreasury::disburse
Disburse(t, amount) ==
  [t EXCEPT !.total_pending_lamports = SatSub(@, amount),
            !.total_disbursed_lamports = SatAdd(@, amount)]

\* Mutant: claiming does not clear the pending reward.
ClaimKeepsPending(p) ==
  [p EXCEPT !.total_claimed_lamports = SatAdd(@, p.pending_reward_lamports)]

\* UserProfile::claim_reward
ClaimPending(p) ==
  [p EXCEPT !.pending_reward_lamports = 0,
            !.total_claimed_lamports = SatAdd(@, p.pending_reward_lamports)]

\* The system transfer at the end needs the lamports to be in the vault and
\* may not leave it below its rent.
ClaimReward(user) ==
  LET amount == profile[user].pending_reward_lamports
  IN
  /\ profile[user].registered /\ treasury.initialized
  /\ amount > 0
  /\ amount <= treasury.total_pending_lamports
  /\ amount <= AvailableLamports(treasury)
  /\ vault - amount >= VaultRent \/ vault = amount
  /\ profile' = [profile EXCEPT ![user] = ClaimPending(@)]
  /\ treasury' = Disburse(treasury, amount)
  /\ vault' = vault - amount
  /\ wallet' = [wallet EXCEPT ![user] = @ + amount]
  /\ UNCHANGED <<config, history, commitments, now>>

\* The cluster clock advances; MaxTime bounds the model.
Tick ==
  /\ now < MaxTime
  /\ now' = now + 1
  /\ UNCHANGED <<config, treasury, vault, profile, history, commitments, wallet>>

Next ==
  \/ \E k \in Keys, a \in ProtocolArgs : InitializeProtocol(k, a)
  \/ \E k \in Keys, a \in ConfigUpdates : UpdateProtocolConfig(k, a)
  \/ \E u \in Users, k \in Keys, p \in PublicProfiles : RegisterUser(u, k, p)
  \/ \E u \in Users, p \in PublicProfiles : UpdatePublicProfile(u, p)
  \/ \E k \in Keys, u \in Users, a \in SeedArgs :
       AdminSeedEmissionHistory(k, u, a)
  \/ \E u \in Users, s, m \in Keys : MintUserSbt(u, s, m)
  \/ \E k \in Keys, u \in Users, a \in SyncArgs : SyncSbtState(k, u, a)
  \/ \E k \in Keys : InitializeRewardTreasury(k)
  \/ \E k \in Keys, n \in FundAmounts : FundTreasury(k, n)
  \/ \E k \in Keys, u \in Users, f \in Footprints :
       SubmitVerifiedFootprint(k, u, f)
  \/ \E u \in Users : ClaimReward(u)
  \/ Tick

Spec == Init /\ [][Next]_vars
-----------------------------------------------------------------------------
\* Type invariant: every account field has the width the program gives it, and
\* the history fits the 480 bytes its account reserves for it.
AccountsTypeOK ==
  /\ config \in Configs
  /\ treasury \in Treasuries
  /\ vault \in 0 .. LamportSupply + VaultRent
  /\ profile \in [Users -> Profiles]
  /\ commitments \subseteq FootprintCommitments
  /\ wallet \in [Users -> Nat]
  /\ now \in 1 .. MaxTime

HistoryTypeOK ==
  /\ history \in [Users -> Seq(DailyEntries)]
  /\ \A u \in Users : Len(history[u]) <= HistoryDays

\* Every account has the shape the program declares (state/mod.rs); a history
\* longer than HistoryDays would make encode_emission_history fail and block
\* every later footprint of the user.
TypeOK == AccountsTypeOK /\ HistoryTypeOK

-----------------------------------------------------------------------------
\* Safety: rewards

Pending == [u \in Users |-> profile[u].pending_reward_lamports]
Claimed == [u \in Users |-> profile[u].total_claimed_lamports]

CommitmentsOf(u) == {c \in commitments : c.user = u}
RewardsOf(u) ==
  Total(CommitmentsOf(u),
        [c \in CommitmentsOf(u) |-> c.reward_delta_lamports])

\* What users are owed together is what the treasury believes it owes, is
\* covered by the recorded funds, and is really in the vault above its rent:
\* reserve_pending_rewards, disburse and record_funding keep three counters of
\* two accounts and the vault's lamports consistent.
TreasurySolvent ==
  /\ Total(Users, Pending) = treasury.total_pending_lamports
  /\ treasury.total_pending_lamports <= AvailableLamports(treasury)
  /\ treasury.initialized => AvailableLamports(treasury) + VaultRent <= vault

\* Nobody's claim_reward can fail for lack of funds: whoever has a pending
\* reward passes both checks of disburse and the vault can pay it and stay
\* rent-exempt, whatever the other users claim first.
ClaimsAlwaysPayable ==
  \A u \in Users :
    LET amount == profile[u].pending_reward_lamports
    IN  amount > 0 => /\ amount <= treasury.total_pending_lamports
                      /\ amount <= AvailableLamports(treasury)
                      /\ vault - amount >= VaultRent

\* Every lamport a recorded footprint was rewarded with is either still pending
\* or was claimed, once, and claims are exactly what reached the wallet; the
\* treasury's total_disbursed_lamports is the sum of the users' claims.
RewardsAccountedOnce ==
  /\ \A u \in Users :
       /\ RewardsOf(u) = profile[u].pending_reward_lamports
                          + profile[u].total_claimed_lamports
       /\ wallet[u] = profile[u].total_claimed_lamports
  /\ Total(Users, Claimed) = treasury.total_disbursed_lamports

\* Refinement: the program implements the reward ledger, with the lamports that
\* are really in the vault above its rent as the pot.
Ledger == INSTANCE RewardLedger
            WITH owed <- Pending, paid <- wallet,
                 pot <- IF treasury.initialized THEN vault - VaultRent ELSE 0

\* submit_verified_footprint, claim_reward and fund_treasury are steps of the
\* reward ledger and every other instruction leaves it alone.
LedgerSpec == Ledger!Spec

-----------------------------------------------------------------------------
\* Safety: what a profile says about the footprints (no history was seeded)

Capped(n) == IF n > MaxU64 THEN MaxU64 ELSE n
EmissionsOf(cs) == Capped(Total(cs, [c \in cs |-> c.emission_delta_grams]))
ReductionsOf(cs) == Capped(Total(cs, [c \in cs |-> c.reduction_delta_grams]))

\* The totals and the commitment count of a profile are those of the
\* FootprintCommitment accounts of the user, and the rank is that of the total
\* reduction, though each is maintained incrementally and saturates; the latest
\* period and hash are those of one account, of the last verification.  For
\* configurations whose thresholds do not change.
ProfileSummarisesCommitments ==
  \A u \in Users : profile[u].registered =>
    LET p  == profile[u]
        cs == CommitmentsOf(u)
    IN  /\ p.commitment_count = Capped(Cardinality(cs))
        /\ p.total_emissions_grams = EmissionsOf(cs)
        /\ p.total_reduced_grams = ReductionsOf(cs)
        /\ p.rank = RankFromReduction(p.total_reduced_grams,
                                      config.rank_thresholds)
        /\ \A c \in cs : c.verified_at <= p.last_verified_at
        /\ cs # {} => \E c \in cs :
                         /\ c.verified_at = p.last_verified_at
                         /\ c.period_key = p.latest_period_key
                         /\ c.commitment_hash = p.latest_commitment_hash

\* Days of the window ending on the day of `asOf' on which u had a footprint
\* recorded, and the grams of one such day.
ActiveDays(u, asOf) ==
  {d \in {DayBucketStart(c.verified_at) : c \in CommitmentsOf(u)} :
     d >= RollingWindowStart(asOf)}
GramsOn(u, day) ==
  EmissionsOf({c \in CommitmentsOf(u) : DayBucketStart(c.verified_at) = day})

\* The rolling history holds, in order and once, every day of the window that
\* ended at the last footprint on which the user had footprints, with the sum
\* of their emissions.
HistoryMatchesCommitments ==
  \A u \in Users :
    LET h    == history[u]
        days == {h[i].day_start_timestamp : i \in DOMAIN h}
    IN  /\ \A i \in 1 .. Len(h) - 1 :
             h[i].day_start_timestamp < h[i + 1].day_start_timestamp
        /\ days = ActiveDays(u, profile[u].last_verified_at)
        /\ \A i \in DOMAIN h :
             h[i].emission_grams = GramsOn(u, h[i].day_start_timestamp)

Window(asOf) ==
  {RollingWindowStart(asOf) + k * SecondsPerDay : k \in 0 .. HistoryDays - 1}

\* A month's total is reported exactly when every day of the window has a
\* recorded footprint, and then it is the sum over those footprints.
PastMonthComplete ==
  \A u \in Users :
    PastMonthEmissionsGrams(history[u], now)
      = IF Window(now) \subseteq ActiveDays(u, now)
        THEN EmissionsOf({c \in CommitmentsOf(u) :
                            DayBucketStart(c.verified_at) \in Window(now)})
        ELSE NoMonth

-----------------------------------------------------------------------------
\* Safety: metadata

\* metadata_version orders the documents of a token: it never goes back, a new
\* URI takes a greater version, however far ahead, and so none once the u32 is
\* exhausted; a new public profile and the minting take the next version, and
\* still happen when there is none.
MetadataVersionLaw ==
  [][\A u \in Users :
       LET p == profile[u]
           q == profile'[u]
       IN  /\ q.metadata_version >= p.metadata_version
           /\ q.metadata_uri_hash # p.metadata_uri_hash
              => q.metadata_version > p.metadata_version
           /\ q.public_profile # p.public_profile \/ q.has_sbt # p.has_sbt
              => q.metadata_version = NextVersion(p.metadata_version)]_vars

=============================================================================
