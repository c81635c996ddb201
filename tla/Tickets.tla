------------------------------ MODULE Tickets -------------------------------
(***************************************************************************)
(* What sign-in and ingestion promise together: a ticket is good for one     *)
(* admission, and an admission for one footprint at most, for ever.         *)
(***************************************************************************)
EXTENDS Naturals

VARIABLES
  granted,   \* number of tickets handed out
  spent,     \* the tickets that were shown at the door
  honoured   \* the number of footprints of every ticket that has any

vars == <<granted, spent, honoured>>

Init == granted = 0 /\ spent = {} /\ honoured = [t \in {} |-> 0]

Grant ==
  /\ granted' = granted + 1
  /\ UNCHANGED <<spent, honoured>>

Spend(t) ==
  /\ t \in 1 .. granted /\ t \notin spent
  /\ spent' = spent \cup {t}
  /\ UNCHANGED <<granted, honoured>>

Honour(t) ==
  /\ t \in spent /\ t \notin DOMAIN honoured
  /\ honoured' = [u \in DOMAIN honoured \cup {t} |->
                    IF u = t THEN 1 ELSE honoured[u]]
  /\ UNCHANGED <<granted, spent>>

Next == Grant \/ \E t \in 1 .. granted : Spend(t) \/ Honour(t)

Spec == Init /\ [][Next]_vars
=============================================================================
