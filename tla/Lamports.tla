------------------------------ MODULE Lamports ------------------------------
(***************************************************************************)
(* u64 arithmetic of the on-chain program.                                 *)
(*                                                                         *)
(* The program stores every amount as a u64 and, except for one checked     *)
(* addition, uses Rust's saturating operators.  MaxU64 is the largest u64;  *)
(* the runs use a small one so that saturation really happens.             *)
(***************************************************************************)
EXTENDS Sums

CONSTANT MaxU64

ASSUME MaxU64Assumption == MaxU64 \in Nat

U64 == 0 .. MaxU64

\* Mutant: addition that wraps.
WrappingAdd(a, b) == (a + b) % (MaxU64 + 1)

\* u64::saturating_add
SatAdd(a, b) == IF a + b > MaxU64 THEN MaxU64 ELSE a + b

\* u64::saturating_sub
SatSub(a, b) == IF a < b THEN 0 ELSE a - b

\* u64::saturating_mul
SatMul(a, b) == IF a * b > MaxU64 THEN MaxU64 ELSE a * b
=============================================================================
