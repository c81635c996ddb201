-------------------------------- MODULE Sums --------------------------------
(***************************************************************************)
(* The sum of the amounts f[x], natural numbers, over x in a finite set S:   *)
(* each amount is so many units, and the units are counted.                 *)
(***************************************************************************)
EXTENDS Integers, FiniteSets

Units(S, f) == UNION {{x} \X (1 .. f[x]) : x \in S}

Total(S, f) == Cardinality(Units(S, f))
=============================================================================
