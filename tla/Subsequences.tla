---------------------------- MODULE Subsequences ----------------------------
(***************************************************************************)
(* What a filter keeps of a sequence: the elements at some of its indices,   *)
(* in their order.                                                         *)
(***************************************************************************)
EXTENDS Integers, Sequences, FiniteSets

UpTo(indices, i) == {j \in indices : j <= i}

\* The n-th smallest index
Nth(indices, n) == CHOOSE i \in indices : Cardinality(UpTo(indices, i)) = n

Subsequence(s, indices) ==
  [n \in 1 .. Cardinality(indices) |-> s[Nth(indices, n)]]
=============================================================================
