--------------------------- MODULE OracleDelivery ---------------------------
(***************************************************************************)
(* The calls that the runners of OracleJobs make, and what becomes of them   *)
(* on the chain: the oracle client (backend/src/modules/oracle/client.ts),   *)
(* the transactions it sends, and the part of the program that accepts or    *)
(* rejects them.                                                           *)
(*                                                                         *)
(* A transaction and the call that waits for it part ways: it may land after *)
(* the call gave up or its process died, or be dropped, and its answer may   *)
(* be lost.  The queue records what the call saw, the chain what happened.   *)
(*   tx         the transaction of each attempt of each job                *)
(*   lost       the jobs that a call gave up on without knowing the answer   *)
(*   reward     the reward quoted when a footprint's job was enqueued        *)
(*   quote      what the program's policy now grants for that footprint      *)
(*   committed  the jobs whose footprint commitment exists                  *)
(*   available  unreserved lamports of the treasury                         *)
(*   version    metadata_version of the profile                            *)
(***************************************************************************)
EXTENDS OracleJobs

CONSTANTS
  Work,         \* what each job is to do
  Quotes,       \* what policies grant for a footprint's reduction
  MaxPending,   \* max_pending_lamports of the policy
  MaxVersion    \* bound on the metadata version

Kinds == {"submit", "sync", "fund"}

ASSUME WorkAssumption ==
  /\ Work \in [Jobs -> [kind : Kinds, version : Nat, amount : Nat]]
  /\ Quotes \subseteq Nat /\ Quotes # {}
  /\ MaxPending \in Nat /\ \A q \in Quotes : q <= MaxPending
  /\ MaxVersion \in Nat

VARIABLES tx, lost, reward, quote, committed, available, version

chainVars    == <<quote, committed, available, version>>
callVars     == <<tx, lost, reward, chainVars>>
deliveryVars == <<jobsVars, callVars>>

\* unsent    the call has not got to its transaction
\* checked   the call has passed the client's own checks
\* flying    sent, outcome open
\* landed    executed
\* rejected  executed with an error
\* dropped   its block hash expired first
Attempts == 1 .. MaxAttempts
TxStates == {"unsent", "checked", "flying", "landed", "rejected", "dropped"}

DeliveryInit ==
  /\ Init
  /\ tx = [j \in Jobs |-> [a \in Attempts |-> "unsent"]]
  /\ lost = {}
  /\ reward = [j \in Jobs |-> 0]
  /\ quote \in Quotes
  /\ committed = {}
  /\ available = 0
  /\ version = 1

-----------------------------------------------------------------------------
\* The program

\* The user's pending rewards: nothing is claimed here.
Reserved == UNION {{j} \X (1 .. reward[j]) : j \in committed}
PendingLamports == Cardinality(Reserved)

RewardAllowed(j) ==
  /\ reward[j] <= quote
  /\ PendingLamports + reward[j] <= MaxPending

\* Mutant: a footprint whose commitment exists is accepted again.
ProgramAcceptsAgain(j) ==
  \/ /\ Work[j].kind = "submit"
     /\ RewardAllowed(j)
     /\ reward[j] <= available
  \/ Work[j].kind = "sync" /\ Work[j].version > version
  \/ Work[j].kind = "fund"

\* Mutant: rewards are reserved without looking at the treasury.
ProgramAcceptsUnfunded(j) ==
  \/ Work[j].kind = "submit" /\ j \notin committed /\ RewardAllowed(j)
  \/ Work[j].kind = "sync" /\ Work[j].version > version
  \/ Work[j].kind = "fund"

\* Whether the job's transaction would be executed now: submit_verified_footprint
\* creates the commitment and reserves the reward, sync_sbt_state moves to a
\* newer version, fund_treasury always pays in.
ProgramAccepts(j) ==
  \/ /\ Work[j].kind = "submit"
     /\ j \notin committed
     /\ RewardAllowed(j)
     /\ reward[j] <= available
  \/ Work[j].kind = "sync" /\ Work[j].version > version
  \/ Work[j].kind = "fund"

\* Mutant: the reward of a footprint is not reserved.
ExecuteWithoutReserving(j) ==
  CASE Work[j].kind = "submit" ->
         /\ committed' = committed \cup {j}
         /\ UNCHANGED <<quote, available, version>>
    [] Work[j].kind = "sync" ->
         /\ version' = Work[j].version
         /\ UNCHANGED <<quote, committed, available>>
    [] Work[j].kind = "fund" ->
         /\ available' = available + Work[j].amount
         /\ UNCHANGED <<quote, committed, version>>

\* What the accepted transaction does.
Execute(j) ==
  CASE Work[j].kind = "submit" ->
         /\ committed' = committed \cup {j}
         /\ available' = available - reward[j]
         /\ UNCHANGED <<quote, version>>
    [] Work[j].kind = "sync" ->
         /\ version' = Work[j].version
         /\ UNCHANGED <<quote, committed, available>>
    [] Work[j].kind = "fund" ->
         /\ available' = available + Work[j].amount
         /\ UNCHANGED <<quote, committed, version>>

TransactionLands(j, a) ==
  /\ tx[j][a] = "flying"
  /\ ProgramAccepts(j)
  /\ Execute(j)
  /\ tx' = [tx EXCEPT ![j][a] = "landed"]
  /\ UNCHANGED <<jobsVars, lost, reward>>

TransactionRejected(j, a) ==
  /\ tx[j][a] = "flying"
  /\ ~ProgramAccepts(j)
  /\ tx' = [tx EXCEPT ![j][a] = "rejected"]
  /\ UNCHANGED <<jobsVars, lost, reward, chainVars>>

TransactionDropped(j, a) ==
  /\ tx[j][a] = "flying"
  /\ tx' = [tx EXCEPT ![j][a] = "dropped"]
  /\ UNCHANGED <<jobsVars, lost, reward, chainVars>>

\* update_protocol_config by the admin
UpdatePolicy(q) ==
  /\ quote # q
  /\ quote' = q
  /\ UNCHANGED <<jobsVars, tx, lost, reward, committed, available, version>>

\* update_public_profile by the user
UpdatePublicProfile ==
  /\ version < MaxVersion
  /\ version' = version + 1
  /\ UNCHANGED <<jobsVars, tx, lost, reward, quote, committed, available>>

-----------------------------------------------------------------------------
\* The call of runner r

Job(r)     == runner[r].job
Attempt(r) == runner[r].attempt
TxOf(r)    == tx[Job(r)][Attempt(r)]

Calling(r) == runner[r].pc = "calling"

\* The quote of the payload against the policy just loaded.
AboveCap(r) == Work[Job(r)].kind = "submit" /\ reward[Job(r)] > quote

\* loadProtocolConfig answers and the client's own checks pass.
PassClientChecks(r) ==
  /\ Calling(r) /\ TxOf(r) = "unsent"
  /\ ~AboveCap(r)
  /\ tx' = [tx EXCEPT ![Job(r)][Attempt(r)] = "checked"]
  /\ UNCHANGED <<jobsVars, lost, reward, chainVars>>

\* rpc() simulates the transaction and sends it.
SendTransaction(r) ==
  /\ Calling(r) /\ TxOf(r) = "checked"
  /\ ProgramAccepts(Job(r))
  /\ tx' = [tx EXCEPT ![Job(r)][Attempt(r)] = "flying"]
  /\ UNCHANGED <<jobsVars, lost, reward, chainVars>>

\* Mutant: a transaction that has no status yet is taken for a refused one.
RefusedUnlessLanded(r) ==
  \/ TxOf(r) = "unsent" /\ AboveCap(r)
  \/ TxOf(r) = "checked" /\ ~ProgramAccepts(Job(r))
  \/ TxOf(r) \in {"flying", "rejected"}

\* The client's check, the simulation or the execution refuses.
Refused(r) ==
  \/ TxOf(r) = "unsent" /\ AboveCap(r)
  \/ TxOf(r) = "checked" /\ ~ProgramAccepts(Job(r))
  \/ TxOf(r) = "rejected"

\* None of the messages is a retryable one.
CallRefused(r) ==
  /\ Calling(r)
  /\ Refused(r)
  /\ CallReturns(r, "failed")
  /\ UNCHANGED callVars

\* The node does not answer before the transaction is sent.  The message decides
\* whether this is retryable.
NodeUnavailable(r) ==
  /\ Calling(r) /\ TxOf(r) \in {"unsent", "checked"}
  /\ \E o \in {"retryable", "failed"} : CallReturns(r, o)
  /\ UNCHANGED callVars

\* Mutant: a signature is enough.
ConfirmedWhenSent(r) == TxOf(r) \in {"flying", "landed"}
\* rpc() returns once the transaction is confirmed.
Confirmed(r) == TxOf(r) = "landed"

CallConfirmed(r) ==
  /\ Calling(r) /\ Confirmed(r)
  /\ CallReturns(r, "ok")
  /\ UNCHANGED callVars

\* From here on nobody knows what became of the transaction.
RememberLost(r) == lost \cup {Job(r)}

\* Mutant: the confirmation of a dropped transaction is awaited for ever.
LostOnlyIfExecuted(r) ==
  /\ Calling(r) /\ TxOf(r) \in {"landed", "rejected"}
  /\ \E o \in {"retryable", "failed"} : CallReturns(r, o)
  /\ lost' = RememberLost(r)
  /\ UNCHANGED <<tx, reward, chainVars>>

\* The connection breaks or the confirmation times out, whatever became of the
\* transaction.
ConfirmationLost(r) ==
  /\ Calling(r) /\ TxOf(r) \notin {"unsent", "checked"}
  /\ \E o \in {"retryable", "failed"} : CallReturns(r, o)
  /\ lost' = RememberLost(r)
  /\ UNCHANGED <<tx, reward, chainVars>>

CallStep(r) ==
  \/ PassClientChecks(r)
  \/ SendTransaction(r)
  \/ CallRefused(r)
  \/ NodeUnavailable(r)
  \/ CallConfirmed(r)
  \/ ConfirmationLost(r)

-----------------------------------------------------------------------------
\* A footprint's reward is the quote of the moment of ingestion.
EnqueueQuoted(j) ==
  /\ Enqueue(j)
  /\ reward' = [reward EXCEPT
       ![j] = IF Work[j].kind = "submit" THEN quote ELSE 0]
  /\ UNCHANGED <<tx, lost, chainVars>>

\* The steps of the queue other than the call and the insertion.
RecordStep(r) ==
  \/ ClaimPendingJob(r)
  \/ LeaveLoop(r)
  \/ ReleaseRunnerLock(r)
  \/ ListJobAttempts(r)
  \/ StartJobAttempt(r)
  \/ CompleteOracleJob(r)
  \/ FailOracleJob(r)

QueueStep ==
  /\ \/ \E j \in Jobs : BackoffEnds(j) \/ JobLockExpires(j)
     \/ RunnerLockExpires
     \/ \E r \in Runners : RecordStep(r)
     \/ \E r \in Runners : RunDueJobs(r)
     \/ \E r \in Runners, j \in Jobs : ExecuteJob(r, j)
  /\ UNCHANGED callVars

\* A process that dies, or a statement that throws, between the send and the
\* record of the outcome loses the answer; if completeOracleJob throws, the job
\* is recorded as failed.
Fault(r) ==
  /\ Crash(r) \/ StatementThrows(r)
  /\ lost' = IF runner[r].pc \in {"calling", "returned"}
             THEN RememberLost(r) ELSE lost
  /\ UNCHANGED <<tx, reward, chainVars>>

ChainStep ==
  \/ \E j \in Jobs, a \in Attempts :
       \/ TransactionLands(j, a)
       \/ TransactionRejected(j, a)
       \/ TransactionDropped(j, a)
  \/ \E q \in Quotes : UpdatePolicy(q)
  \/ UpdatePublicProfile

DeliveryNext ==
  \/ \E j \in Jobs : EnqueueQuoted(j)
  \/ QueueStep
  \/ \E r \in Runners : CallStep(r) \/ Fault(r)
  \/ ChainStep

DeliverySpec == DeliveryInit /\ [][DeliveryNext]_deliveryVars

\* As in OracleJobs, with the call's steps in place of its end: an RPC answers
\* or times out.  Nothing is assumed of what becomes of a transaction.
DeliveryFairness ==
  /\ \A r \in Runners :
       /\ WF_deliveryVars(CallStep(r))
       /\ WF_deliveryVars(RecordStep(r) /\ UNCHANGED callVars)
       /\ WF_deliveryVars(RunDueJobs(r) /\ UNCHANGED callVars)
  /\ \A j \in Jobs :
       WF_deliveryVars(BackoffEnds(j) /\ UNCHANGED callVars)
  /\ WF_deliveryVars(RunnerLockExpires /\ UNCHANGED callVars)

DeliveryFairSpec == DeliverySpec /\ DeliveryFairness

-----------------------------------------------------------------------------
Landed(j) == {a \in Attempts : tx[j][a] = "landed"}
Flying(j) == {a \in Attempts : tx[j][a] = "flying"}

\* Type invariant
DeliveryTypeOK ==
  /\ tx \in [Jobs -> [Attempts -> TxStates]]
  /\ lost \subseteq Jobs
  /\ reward \in [Jobs -> Nat]
  /\ quote \in Quotes
  /\ committed \subseteq Jobs
  /\ available \in Nat
  /\ version \in Nat

\* A completed job's last attempt is on the chain: a signature is recorded only
\* for a transaction that landed, whichever runner records it.
CompletedIsOnChain ==
  \A j \in Jobs :
    job[j].status = "completed" =>
      /\ attempts[j] # << >>
      /\ tx[j][Len(attempts[j])] = "landed"

\* However often a job is retried and however late its transactions land, a
\* footprint is counted once and a document lands once; a funding lands again
\* only if a call lost the answer of an earlier attempt.
LandsOnceUnlessLost ==
  \A j \in Jobs :
    /\ Work[j].kind = "submit" => (j \in committed <=> Landed(j) # {})
    /\ Cardinality(Landed(j)) > 1 => Work[j].kind = "fund" /\ j \in lost

\* The queue tells the truth about a failed job unless an answer was lost: it is
\* not on the chain and never will be.
FailedIsNotOnChain ==
  \A j \in Jobs \ lost :
    job[j].status = "failed" => Landed(j) \cup Flying(j) = {}

\* The treasury holds what was paid in less what is reserved: retries neither
\* reserve twice nor overdraw it.
TreasuryBalances ==
  LET unitsOf(j) == {j} \X (1 .. Work[j].amount) \X Landed(j)
      paidIn == {u \in UNION {unitsOf(j) : j \in Jobs} :
                   Work[u[1]].kind = "fund"}
  IN  available = Cardinality(paidIn) - PendingLamports

\* The calls do what OracleJobs assumes of them, that they come to an end
\* included, so what is shown there of the queue holds with the real calls.
QueueSpec == FairSpec
=============================================================================
