-------------------------- MODULE MCOracleDelivery --------------------------
(***************************************************************************)
(* Instances of OracleDelivery for TLC.                                     *)
(***************************************************************************)
EXTENDS OracleDelivery

Fund(amount)  == [kind |-> "fund", version |-> 0, amount |-> amount]
Submit        == [kind |-> "submit", version |-> 0, amount |-> 0]
Sync(v)       == [kind |-> "sync", version |-> v, amount |-> 0]

\* A funding and a footprint that needs it.
FundedFootprint == <<Fund(2), Submit>>

\* The metadata of two submissions.
TwoSyncs == <<Sync(2), Sync(3)>>
=============================================================================
