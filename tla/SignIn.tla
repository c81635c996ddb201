------------------------------- MODULE SignIn -------------------------------
(***************************************************************************)
(* Wallet challenges and the single-use tokens they are exchanged for:       *)
(* backend/src/modules/ingestion/wallet-auth-service.ts and auth-service.ts. *)
(* Challenges and tokens are numbered in the order of their creation, as    *)
(* every one of them carries a fresh random id.                             *)
(***************************************************************************)
EXTENDS Naturals, Sequences

CONSTANT LastRequest    \* bound on the submissions

ASSUME RequestsAssumption == LastRequest \in Nat \ {0}

\* The submissions in the order of the clicks; each signs in and posts for itself.
Requests == 1 .. LastRequest

VARIABLES
  issued,      \* number of challenges issued
  challenges,  \* #challenges: the challenges in the server's memory
  overdue,     \* the challenges past their expiry
  verifying,   \* signature verifications in flight
  tokens       \* the age of every token issued

signInVars == <<issued, challenges, overdue, verifying, tokens>>

\* fresh    more than 5 s to live, the browser takes it from its cache
\* closing  valid, but not for another use by the browser
Ages == {"fresh", "closing", "expired"}

NoChallenge == 0
NoToken     == 0
Challenges  == 1 .. issued
Tokens      == DOMAIN tokens

SignInInit ==
  /\ issued = 0
  /\ challenges = {}
  /\ overdue = {}
  /\ verifying = {}
  /\ tokens = << >>

SignInTypeOK ==
  /\ issued \in Nat
  /\ challenges \subseteq Challenges
  /\ overdue \subseteq Challenges
  /\ verifying \subseteq Requests \X Challenges
  /\ tokens \in Seq(Ages)

\* issueChallenge: expired challenges are pruned.
IssueChallenge ==
  /\ issued' = issued + 1
  /\ challenges' = (challenges \ overdue) \cup {issued'}
  /\ UNCHANGED <<overdue, verifying, tokens>>

\* verifyChallenge up to its await
BeginVerification(r, c) ==
  /\ c \in challenges \ overdue
  /\ verifying' = verifying \cup {<<r, c>>}
  /\ UNCHANGED <<issued, challenges, overdue, tokens>>

\* It knows no such challenge (404), or an expired one, which it forgets (401).
RefuseChallenge(c) ==
  /\ c \notin challenges \ overdue
  /\ challenges' = challenges \ {c}
  /\ UNCHANGED <<issued, overdue, verifying, tokens>>

\* verifyChallenge after its await, and issueToken.  The challenge is not looked
\* up again: it may have expired, or been exchanged by another verification.
FinishVerification(r, c) ==
  /\ <<r, c>> \in verifying
  /\ verifying' = verifying \ {<<r, c>>}
  /\ challenges' = challenges \ {c}
  /\ tokens' = Append(tokens, "fresh")
  /\ UNCHANGED <<issued, overdue>>

\* Challenges live in memory only, tokens are signed and outlive the process.
ForgetChallenges ==
  /\ challenges' = {}
  /\ verifying' = {}
  /\ UNCHANGED <<issued, overdue, tokens>>

ChallengeExpires(c) ==
  /\ c \in challenges \ overdue
  /\ overdue' = overdue \cup {c}
  /\ UNCHANGED <<issued, challenges, verifying, tokens>>

TokenAges(k) ==
  /\ tokens[k] # "expired"
  /\ tokens' = [tokens EXCEPT
       ![k] = IF tokens[k] = "fresh" THEN "closing" ELSE "expired"]
  /\ UNCHANGED <<issued, challenges, overdue, verifying>>
=============================================================================
