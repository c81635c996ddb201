---------------------------- MODULE MCWalletFlow ----------------------------
(***************************************************************************)
(* Instances of WalletFlow for TLC.                                         *)
(***************************************************************************)
EXTENDS WalletFlow, TLC

\* Tabs are alike, and so are public profiles.
TabSymmetry == Permutations(Tabs) \cup Permutations(Aliases)
=============================================================================
