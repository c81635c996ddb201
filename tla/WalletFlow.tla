----------------------------- MODULE WalletFlow -----------------------------
(***************************************************************************)
(* The wallet flow of the browser against the profile of its wallet on the   *)
(* chain: wallet-flow-provider.tsx, wallet-onboarding-panel.tsx and          *)
(* local-e2e-wallet-profile-adapter.ts in frontend/src/features/wallet.      *)
(*                                                                         *)
(* The program itself is GreenReputation; here its instructions act on what   *)
(* a tab uses of a snapshot of the profile.  A footprint is worth a reward of 1.*)
(***************************************************************************)
EXTENDS Naturals

CONSTANTS
  Tabs,
  Aliases,         \* public profiles
  NoAlias,         \* the profile of an unregistered wallet
  NoSnapshot,      \* profileSnapshot is undefined
  MaxFootprints    \* bound on the submissions

ASSUME WalletAssumption ==
  /\ NoAlias \notin Aliases
  /\ MaxFootprints \in Nat

VARIABLES
  profile,    \* the account of the wallet, as a snapshot of it
  counted,    \* the footprints that the account counts
  accepted,   \* the submissions that the backend accepted
  tab,        \* the provider of each tab
  announced,  \* the tabs' "Reward claimed."
  paid        \* the claims that the chain paid

walletVars == <<profile, counted, accepted, tab, announced, paid>>

\* loadSnapshot and mapUserProfileSnapshot of an account; one that does not exist
\* has the snapshot of an unregistered wallet.
Snapshots ==
  [isRegistered : BOOLEAN, hasMintedSbt : BOOLEAN,
   publicProfile : Aliases \cup {NoAlias},
   pendingRewardLamports : 0 .. MaxFootprints]

ASSUME SnapshotAssumption == NoSnapshot \notin Snapshots

Unregistered ==
  [isRegistered |-> FALSE, hasMintedSbt |-> FALSE, publicProfile |-> NoAlias,
   pendingRewardLamports |-> 0]

Actions == {"register", "update", "mint", "claim"}
\* none      no pending action
\* read      claimReward loads the snapshot it compares with
\* send      the transaction is sent
\* wait      it is confirmed, waitForSnapshot polls
\* missed    a poll has not found what is waited for
\* answered  a poll has, and its answer is on its way
Pcs == {"none", "read", "send", "wait", "missed", "answered"}

\* input: what is saved; before: the reward when the claim was asked for;
\* earned: the footprints counted then; seen: the answer of the poll.
\* overtaken, which only NeverForgets reads: the load on connecting has been shown
\* since the answer left the node.
NoAction == [name |-> "none", pc |-> "none", input |-> NoAlias, before |-> 0,
             earned |-> 0, seen |-> Unregistered, overtaken |-> FALSE]

\* load: the load on connecting is asked for, has left the node with what it has
\* seen, or is over.
Loads == {"none", "asked", "answered", "over"}

Opened == [connected |-> FALSE, load |-> "none", seen |-> Unregistered,
           shown |-> NoSnapshot, action |-> NoAction]

WalletInit ==
  /\ profile = Unregistered
  /\ counted = 0
  /\ accepted = 0
  /\ tab = [t \in Tabs |-> Opened]
  /\ announced = 0
  /\ paid = 0

-----------------------------------------------------------------------------
\* connectWallet: the effect on the connection asks for the snapshot.
ConnectWallet(t) ==
  /\ ~tab[t].connected
  /\ tab' = [tab EXCEPT ![t].connected = TRUE, ![t].load = "asked"]
  /\ UNCHANGED <<profile, counted, accepted, announced, paid>>

LoadSnapshot(t) ==
  /\ tab[t].load = "asked"
  /\ tab' = [tab EXCEPT ![t].load = "answered", ![t].seen = profile]
  /\ UNCHANGED <<profile, counted, accepted, announced, paid>>

\* The answer is shown, whatever actions have shown since.
ShowLoaded(t) ==
  /\ tab[t].load = "answered"
  /\ tab' = [tab EXCEPT ![t].load = "over", ![t].seen = Unregistered,
                        ![t].shown = tab[t].seen,
                        ![t].action.overtaken = tab[t].action.pc = "answered"]
  /\ UNCHANGED <<profile, counted, accepted, announced, paid>>

LoadFails(t) ==
  /\ tab[t].load \in {"asked", "answered"}
  /\ tab' = [tab EXCEPT ![t].load = "over", ![t].seen = Unregistered,
                        ![t].shown = NoSnapshot]
  /\ UNCHANGED <<profile, counted, accepted, announced, paid>>

-----------------------------------------------------------------------------
\* The buttons

IsRegistered(t) == tab[t].shown # NoSnapshot /\ tab[t].shown.isRegistered
CanMintSbt(t) == IsRegistered(t) /\ ~tab[t].shown.hasMintedSbt
CanClaimRewards(t) ==
  IsRegistered(t) /\ tab[t].shown.hasMintedSbt /\ tab[t].shown.pendingRewardLamports > 0

StartAction(t, name, pc, input) ==
  /\ tab[t].connected
  /\ tab[t].action = NoAction
  /\ tab' = [tab EXCEPT
       ![t].action = [NoAction EXCEPT !.name = name, !.pc = pc, !.input = input]]
  /\ UNCHANGED <<profile, counted, accepted, announced, paid>>

\* Which instruction is sent depends on what is shown: a profile that has not
\* been loaded is registered.
SavePublicProfile(t, input) ==
  StartAction(t, IF IsRegistered(t) THEN "update" ELSE "register", "send", input)

MintUserSbt(t) == CanMintSbt(t) /\ StartAction(t, "mint", "send", NoAlias)

ClaimReward(t) == CanClaimRewards(t) /\ StartAction(t, "claim", "read", NoAlias)

ReadBeforeClaim(t) ==
  /\ tab[t].action.pc = "read"
  /\ tab' = [tab EXCEPT
       ![t].action.pc = "send",
       ![t].action.before = profile.pendingRewardLamports,
       ![t].action.earned = counted]
  /\ UNCHANGED <<profile, counted, accepted, announced, paid>>

-----------------------------------------------------------------------------
\* The program (GreenReputation)

Accepts(name) ==
  CASE name = "register" -> ~profile.isRegistered
    [] name = "update"   -> profile.isRegistered
    [] name = "mint"     -> profile.isRegistered /\ ~profile.hasMintedSbt
    [] name = "claim"    -> profile.pendingRewardLamports > 0

Executed(a) ==
  CASE a.name = "mint"  -> [profile EXCEPT !.hasMintedSbt = TRUE]
    [] a.name = "claim" -> [profile EXCEPT !.pendingRewardLamports = 0]
    [] OTHER            -> [profile EXCEPT !.isRegistered = TRUE,
                                           !.publicProfile = a.input]

Lands(t) ==
  /\ Accepts(tab[t].action.name)
  /\ profile' = Executed(tab[t].action)
  /\ paid' = IF tab[t].action.name = "claim" THEN paid + 1 ELSE paid

\* Mutant: a footprint that was counted is counted again.
AnotherToLand == counted <= accepted
\* Of the footprints accepted, one is not counted yet.
FootprintToLand == counted < accepted

FootprintLands ==
  /\ profile.isRegistered
  /\ FootprintToLand
  /\ profile' = [profile EXCEPT !.pendingRewardLamports = @ + 1]
  /\ counted' = counted + 1
  /\ UNCHANGED <<accepted, tab, announced, paid>>

\* The backend accepts a submission.
SubmissionAccepted ==
  /\ accepted < MaxFootprints
  /\ accepted' = accepted + 1
  /\ UNCHANGED <<profile, counted, tab, announced, paid>>

-----------------------------------------------------------------------------
\* Mutant: an error clears what is shown.
EndsCleared(t) == [tab EXCEPT ![t].action = NoAction, ![t].shown = NoSnapshot]
\* The catch of runAction: the error is shown, the snapshot stays.
EndsInError(t) == [tab EXCEPT ![t].action = NoAction]

\* Mutant: a claim that the program refuses, as nothing is left, counts as sent.
RefusedAsSent(t) ==
  IF tab[t].action.name = "claim" THEN [tab EXCEPT ![t].action.pc = "wait"]
  ELSE EndsInError(t)
RefusedByProgram(t) == EndsInError(t)

\* rpc(): the transaction is confirmed, or the program refuses it.
SendTransaction(t) ==
  /\ tab[t].action.pc = "send"
  /\ \/ Lands(t) /\ tab' = [tab EXCEPT ![t].action.pc = "wait"]
     \/ /\ ~Accepts(tab[t].action.name)
        /\ tab' = RefusedByProgram(t)
        /\ UNCHANGED <<profile, paid>>
  /\ UNCHANGED <<counted, accepted, announced>>

\* Mutant: the comparison with the reward before the claim is turned round.
ClaimUnchanged(s, a) == s.pendingRewardLamports = 0 /\ s.pendingRewardLamports = a.before
ClaimSettled(s, a) == s.pendingRewardLamports = 0 /\ s.pendingRewardLamports # a.before

\* What waitForSnapshot waits for
Awaited(s, a) ==
  CASE a.name = "mint"  -> s.hasMintedSbt
    [] a.name = "claim" -> ClaimSettled(s, a)
    [] OTHER            -> s.isRegistered /\ s.publicProfile = a.input

\* One read of waitForSnapshot, the only one or one of many
PollSnapshot(t) ==
  /\ tab[t].action.pc \in {"wait", "missed"}
  /\ \/ /\ Awaited(profile, tab[t].action)
        /\ tab' = [tab EXCEPT ![t].action.pc = "answered", ![t].action.seen = profile]
     \/ /\ ~Awaited(profile, tab[t].action)
        /\ tab' = [tab EXCEPT ![t].action.pc = "missed"]
  /\ UNCHANGED <<profile, counted, accepted, announced, paid>>

\* runAction shows the answer, whatever has been shown since it left the node.
ShowResult(t) ==
  /\ tab[t].action.pc = "answered"
  /\ tab' = [tab EXCEPT ![t].action = NoAction, ![t].shown = tab[t].action.seen]
  /\ announced' = IF tab[t].action.name = "claim" THEN announced + 1 ELSE announced
  /\ UNCHANGED <<profile, counted, accepted, paid>>

\* 15 s of polling have not found what is waited for.
WaitTimesOut(t) ==
  /\ tab[t].action.pc = "missed"
  /\ tab' = EndsInError(t)
  /\ UNCHANGED <<profile, counted, accepted, announced, paid>>

\* The node does not answer; a transaction that was sent may have landed.
CallFails(t) ==
  /\ tab[t].action.pc # "none"
  /\ tab' = EndsInError(t)
  /\ \/ UNCHANGED <<profile, paid>>
     \/ tab[t].action.pc = "send" /\ Lands(t)
  /\ UNCHANGED <<counted, accepted, announced>>

\* The tab forgets everything; a transaction on its way may land.
Reload(t) ==
  /\ tab' = [tab EXCEPT ![t] = Opened]
  /\ \/ UNCHANGED <<profile, paid>>
     \/ tab[t].action.pc = "send" /\ Lands(t)
  /\ UNCHANGED <<counted, accepted, announced>>

\* What goes on in a tab without the user
Proceed(t) ==
  \/ ReadBeforeClaim(t)
  \/ SendTransaction(t)
  \/ PollSnapshot(t)
  \/ ShowResult(t)
  \/ WaitTimesOut(t)

WalletNext ==
  \/ \E t \in Tabs :
       \/ ConnectWallet(t) \/ LoadSnapshot(t) \/ ShowLoaded(t) \/ LoadFails(t)
       \/ MintUserSbt(t) \/ ClaimReward(t)
       \/ \E input \in Aliases : SavePublicProfile(t, input)
       \/ Proceed(t) \/ CallFails(t) \/ Reload(t)
  \/ FootprintLands
  \/ SubmissionAccepted

WalletSpec == WalletInit /\ [][WalletNext]_walletVars

-----------------------------------------------------------------------------
\* Type invariant
WalletTypeOK ==
  /\ profile \in Snapshots
  /\ counted \in 0 .. MaxFootprints
  /\ accepted \in 0 .. MaxFootprints
  /\ tab \in [Tabs ->
       [connected : BOOLEAN, load : Loads, seen : Snapshots,
        shown : Snapshots \cup {NoSnapshot},
        action : [name : Actions \cup {"none"}, pc : Pcs,
                  input : Aliases \cup {NoAlias}, before : 0 .. MaxFootprints,
                  earned : 0 .. MaxFootprints, seen : Snapshots,
                  overtaken : BOOLEAN]]]
  /\ announced \in Nat
  /\ paid \in Nat

\* Whatever two tabs claim and however late, no more claims are announced than
\* the chain has paid.
AnnouncedClaimsWerePaid == announced <= paid

Shows(t, field) == tab[t].shown # NoSnapshot /\ tab[t].shown[field]

\* A page that shows the registration or the token goes on showing it, whatever
\* fails, until it is reloaded.  Two answers take it back: that of the load on
\* connecting, which an action may have overtaken, and, for a token minted in
\* another tab, that of a registration or an update that the load has overtaken.
NeverForgets ==
  [][\A t \in Tabs, field \in {"isRegistered", "hasMintedSbt"} :
       Shows(t, field) /\ tab'[t].connected /\ ~Shows(t, field)' =>
         \/ tab[t].load \in {"asked", "answered"}
         \/ /\ field = "hasMintedSbt"
            /\ tab[t].action.name \in {"register", "update"}
            /\ tab[t].action.overtaken]_walletVars

\* A confirmed mint or claim can be announced: the first poll finds what it waits
\* for, unless a reward was earned after the claim was asked for.
ConfirmedIsAnnounced ==
  \A t \in Tabs :
    LET a == tab[t].action
    IN  a.pc \in {"wait", "missed"} /\ a.name \in {"mint", "claim"} =>
          \/ a.pc = "wait" /\ Awaited(profile, a)
          \/ a.name = "claim" /\ counted > a.earned

=============================================================================
