---------------------------- MODULE RewardLedger ----------------------------
(***************************************************************************)
(* What the reward program promises, without accounts, policies or          *)
(* saturating counters: an amount owed to every user, the amount each has   *)
(* been paid, and the lamports in the pot.  What is owed never exceeds the  *)
(* pot, and a payment moves exactly what is owed.                          *)
(***************************************************************************)
EXTENDS Lamports

CONSTANT Users

VARIABLES owed, paid, pot

ledgerVars == <<owed, paid, pot>>

Init ==
  /\ owed = [u \in Users |-> 0]
  /\ paid = [u \in Users |-> 0]
  /\ pot = 0

Fund ==
  /\ pot' > pot
  /\ UNCHANGED <<owed, paid>>

Accrue(u) ==
  /\ \E a \in U64 : owed' = [owed EXCEPT ![u] = @ + a]
  /\ Total(Users, owed') <= pot
  /\ UNCHANGED <<paid, pot>>

Pay(u) ==
  /\ owed[u] > 0
  /\ pot' = pot - owed[u]
  /\ paid' = [paid EXCEPT ![u] = @ + owed[u]]
  /\ owed' = [owed EXCEPT ![u] = 0]

Next == Fund \/ \E u \in Users : Accrue(u) \/ Pay(u)

Spec == Init /\ [][Next]_ledgerVars

=============================================================================
