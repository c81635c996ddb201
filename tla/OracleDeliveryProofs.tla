------------------------ MODULE OracleDeliveryProofs ------------------------
(***************************************************************************)
(* For any jobs, runners, policies and faults: the calls are steps of        *)
(* OracleJobs, a completed job is on the chain and a failed one is not       *)
(* unless an answer was lost, nothing but a funding lands twice, and the     *)
(* treasury balances.                                                      *)
(***************************************************************************)
EXTENDS OracleDelivery, OracleJobsProofs, FiniteSetTheorems

Called  == {"calling", "returned"}
OnChain == {"flying", "landed"}

\* A runner's attempt is the last of its job, and one more is left to every job
\* that may be claimed or is not started.
Counted(r) == Len(attempts[runner[r].job])
AttemptsCounted ==
  /\ \A j \in Jobs : job[j].status \in Claimable => Len(attempts[j]) < MaxAttempts
  /\ \A r \in Runners :
       /\ runner[r].pc \in {"claimed", "counted"} => Counted(r) < MaxAttempts
       /\ runner[r].pc \in Called =>
            runner[r].attempt = Counted(r) /\ Counted(r) \in Attempts
       /\ runner[r].pc = "returned" /\ runner[r].outcome = "retryable" =>
            Counted(r) < MaxAttempts

\* A signature is returned for a transaction that landed.
OkIsOnChain ==
  \A r \in Runners : runner[r].pc = "returned" /\ runner[r].outcome = "ok" =>
    tx[runner[r].job][runner[r].attempt] = "landed"

\* The outcome of j is known to be good, or still open.
Expects(r) ==
  \/ runner[r].pc = "calling"
  \/ runner[r].pc = "returned" /\ runner[r].outcome = "ok"
Awaited(j) ==
  \/ job[j].status = "completed"
  \/ \E r \in Runners : runner[r].job = j /\ Expects(r)

\* Unless an answer was lost, only the last attempt can be on the chain or on its
\* way there, and only while its outcome is awaited or recorded as a success.
OthersAreQuiet ==
  \A j \in Jobs \ lost, a \in Attempts :
    tx[j][a] \in OnChain => a = Len(attempts[j]) /\ Awaited(j)

AbsentUnsent ==
  \A j \in Jobs : job[j].status = "absent" => \A a \in Attempts : tx[j][a] = "unsent"

CallInv ==
  /\ AttemptsCounted
  /\ OkIsOnChain
  /\ CompletedIsOnChain
  /\ OthersAreQuiet
  /\ AbsentUnsent

\* What the chain has and what it has of it
CommittedLanded ==
  \A j \in Jobs : j \in committed <=> Work[j].kind = "submit" /\ Landed(j) # {}
OnceOnChain ==
  \A j \in Jobs : Work[j].kind # "fund" => \A a, b \in Landed(j) : a = b
SyncedVersion ==
  \A j \in Jobs : Work[j].kind = "sync" /\ Landed(j) # {} => version >= Work[j].version

\* The lamports that were paid in, one by one
UnitsOf(j) == {j} \X (1 .. Work[j].amount) \X Landed(j)
PaidIn == {u \in UNION {UnitsOf(j) : j \in Jobs} : Work[u[1]].kind = "fund"}
Balanced ==
  /\ IsFiniteSet(PaidIn) /\ IsFiniteSet(Reserved)
  /\ available = Cardinality(PaidIn) - Cardinality(Reserved)

ChainInv ==
  /\ CommittedLanded
  /\ OnceOnChain
  /\ SyncedVersion
  /\ Balanced

\* The inductive invariant, on top of those of OracleJobs.
DeliveryInv ==
  /\ QueueInv /\ StoryInv
  /\ DeliveryTypeOK
  /\ CallInv
  /\ ChainInv

-----------------------------------------------------------------------------
\* Every step of a call is a step of OracleJobs or leaves the queue alone.
LEMMA CallsAreQueueSteps == [DeliveryNext]_deliveryVars => [Next]_jobsVars
<1> SUFFICES ASSUME [DeliveryNext]_deliveryVars PROVE [Next]_jobsVars
  OBVIOUS
<1>1. ASSUME NEW j \in Jobs, EnqueueQuoted(j) PROVE Next
  BY <1>1 DEF EnqueueQuoted, Next
<1>2. ASSUME QueueStep PROVE Next
  BY <1>2 DEF QueueStep, RecordStep, Next, RunnerStep
<1>3. ASSUME NEW r \in Runners, CallStep(r) PROVE Next \/ UNCHANGED jobsVars
  <2>1. ASSUME NEW o, o \in {"ok", "failed", "retryable"}, CallReturns(r, o) PROVE Next
    BY <2>1 DEF Next, RunnerStep, Outcomes
  <2>2. QED
    BY <1>3, <2>1
    DEF CallStep, PassClientChecks, SendTransaction, CallRefused, NodeUnavailable,
        CallConfirmed, ConfirmationLost
<1>4. ASSUME NEW r \in Runners, Fault(r) PROVE Next
  BY <1>4 DEF Fault, Next
<1>5. ASSUME ChainStep PROVE UNCHANGED jobsVars
  BY <1>5 DEF ChainStep, TransactionLands, TransactionRejected, TransactionDropped,
              UpdatePolicy, UpdatePublicProfile
<1>6. QED
  BY <1>1, <1>2, <1>3, <1>4, <1>5 DEF DeliveryNext, deliveryVars

\* What an accepted transaction does, by kind.
LEMMA ExecuteByKind ==
  ASSUME NEW j \in Jobs, Execute(j)
  PROVE  /\ quote' = quote
         /\ \/ /\ Work[j].kind = "submit"
               /\ committed' = committed \cup {j}
               /\ available' = available - reward[j] /\ version' = version
            \/ /\ Work[j].kind = "sync"
               /\ version' = Work[j].version
               /\ UNCHANGED <<committed, available>>
            \/ /\ Work[j].kind = "fund"
               /\ available' = available + Work[j].amount
               /\ UNCHANGED <<committed, version>>
<1>1. Work[j].kind \in {"submit", "sync", "fund"} /\ Work[j].kind \in Kinds
  BY WorkAssumption DEF Kinds
<1>2. CASE Work[j].kind = "submit"
  BY <1>2 DEF Execute
<1>3. CASE Work[j].kind = "sync"
  BY <1>3 DEF Execute
<1>4. CASE Work[j].kind = "fund"
  BY <1>4 DEF Execute
<1>5. QED
  BY <1>1, <1>2, <1>3, <1>4

\* The job and the attempt of a runner in a call.
LEMMA CallOf ==
  ASSUME QueueInv, AttemptsCounted, NEW r \in Runners, runner[r].pc \in Called
  PROVE  /\ Job(r) \in Jobs /\ Attempt(r) \in Attempts
         /\ Attempt(r) = Len(attempts[Job(r)])
         /\ job[Job(r)].status = "running"
         /\ Job(r) = runner[r].job /\ Attempt(r) = runner[r].attempt
BY DEF QueueInv, Exclusive, Busy, Called, AttemptsCounted, Counted, Job, Attempt

LEMMA DeliveryTypesKept ==
  ASSUME QueueInv, DeliveryTypeOK, AttemptsCounted, [DeliveryNext]_deliveryVars
  PROVE  DeliveryTypeOK'
<1>1. ASSUME UNCHANGED <<tx, lost, reward, quote, committed, available, version>>
      PROVE  DeliveryTypeOK'
  BY <1>1 DEF DeliveryTypeOK
<1>2. ASSUME NEW j \in Jobs, EnqueueQuoted(j) PROVE DeliveryTypeOK'
  <2>1. quote \in Nat
    BY WorkAssumption DEF DeliveryTypeOK
  <2>2. reward' \in [Jobs -> Nat]
    BY <1>2, <2>1 DEF EnqueueQuoted, DeliveryTypeOK
  <2>3. QED
    BY <1>2, <2>2 DEF EnqueueQuoted, chainVars, DeliveryTypeOK
<1>3. ASSUME NEW j \in Jobs, NEW a \in Attempts, NEW x \in TxStates,
             tx' = [tx EXCEPT ![j][a] = x]
      PROVE  tx' \in [Jobs -> [Attempts -> TxStates]]
  BY <1>3 DEF DeliveryTypeOK
<1>4. ASSUME NEW r \in Runners, PassClientChecks(r) \/ SendTransaction(r)
      PROVE  DeliveryTypeOK'
  <2>1. Job(r) \in Jobs /\ Attempt(r) \in Attempts
    BY <1>4, CallOf DEF PassClientChecks, SendTransaction, Calling, Called
  <2>2. tx' \in [Jobs -> [Attempts -> TxStates]]
    BY <1>3, <1>4, <2>1 DEF PassClientChecks, SendTransaction, TxStates
  <2>3. QED
    BY <1>4, <2>2 DEF PassClientChecks, SendTransaction, chainVars, DeliveryTypeOK
<1>5. ASSUME NEW r \in Runners, ConfirmationLost(r) \/ Fault(r) PROVE DeliveryTypeOK'
  <2>1. runner[r].pc \in Called => RememberLost(r) \subseteq Jobs
    BY CallOf DEF RememberLost, DeliveryTypeOK
  <2>2. lost' \subseteq Jobs
    BY <1>5, <2>1 DEF ConfirmationLost, Calling, Fault, Called, DeliveryTypeOK
  <2>3. QED
    BY <1>5, <2>2 DEF ConfirmationLost, Fault, chainVars, DeliveryTypeOK
<1>6. ASSUME NEW r \in Runners, CallStep(r) PROVE DeliveryTypeOK'
  BY <1>1, <1>4, <1>5, <1>6
  DEF CallStep, CallRefused, NodeUnavailable, CallConfirmed, callVars, chainVars
<1>7. ASSUME NEW j \in Jobs, NEW a \in Attempts, TransactionLands(j, a)
      PROVE  DeliveryTypeOK'
  <2>1. tx' \in [Jobs -> [Attempts -> TxStates]]
    BY <1>3, <1>7 DEF TransactionLands, TxStates
  <2>2. reward[j] \in Nat /\ Work[j].version \in Nat /\ Work[j].amount \in Nat
    BY WorkAssumption DEF DeliveryTypeOK
  <2>3. Work[j].kind = "submit" => reward[j] <= available
    BY <1>7 DEF TransactionLands, ProgramAccepts
  <2>4. /\ committed' \subseteq Jobs /\ available' \in Nat /\ version' \in Nat
        /\ quote' = quote
    BY <1>7, <2>2, <2>3, ExecuteByKind DEF TransactionLands, DeliveryTypeOK
  <2>5. QED
    BY <1>7, <2>1, <2>4 DEF TransactionLands, DeliveryTypeOK
<1>8. ASSUME NEW j \in Jobs, NEW a \in Attempts,
             TransactionRejected(j, a) \/ TransactionDropped(j, a)
      PROVE  DeliveryTypeOK'
  <2>1. tx' \in [Jobs -> [Attempts -> TxStates]]
    BY <1>3, <1>8 DEF TransactionRejected, TransactionDropped, TxStates
  <2>2. QED
    BY <1>8, <2>1 DEF TransactionRejected, TransactionDropped, chainVars, DeliveryTypeOK
<1>9. ASSUME UpdatePublicProfile \/ \E q \in Quotes : UpdatePolicy(q)
      PROVE  DeliveryTypeOK'
  BY <1>9 DEF UpdatePublicProfile, UpdatePolicy, DeliveryTypeOK
<1>10. ASSUME QueueStep \/ UNCHANGED deliveryVars PROVE DeliveryTypeOK'
  BY <1>1, <1>10 DEF QueueStep, deliveryVars, callVars, chainVars
<1>11. QED
  BY <1>2, <1>5, <1>6, <1>7, <1>8, <1>9, <1>10 DEF DeliveryNext, ChainStep

-----------------------------------------------------------------------------
\* The calls and what the queue records of them

\* A step of the queue outside a call: statuses move outside the calls, no
\* runner enters or leaves one.
LEMMA OutsideCalls ==
  ASSUME QueueInv, StoryInv, CallInv, UNCHANGED <<attempts, tx, lost>>,
         \A j \in Jobs :
           /\ job'[j].status = "completed" <=> job[j].status = "completed"
           /\ job'[j].status = "absent" => job[j].status = "absent"
           /\ job'[j].status \in Claimable => job[j].status \in Claimable \cup {"absent"},
         \A s \in Runners :
           /\ runner[s].pc \in Called \/ runner'[s].pc \in Called =>
                runner'[s] = runner[s]
           /\ runner'[s].pc \in {"claimed", "counted"} =>
                Len(attempts[runner'[s].job]) < MaxAttempts
  PROVE  CallInv'
<1>1. ASSUME NEW j \in Jobs, job'[j].status \in Claimable
      PROVE  Len(attempts'[j]) < MaxAttempts
  <2>1. CASE job[j].status \in Claimable
    BY <2>1 DEF CallInv, AttemptsCounted
  <2>2. CASE job[j].status = "absent"
    BY <2>2, JobsAssumption DEF StoryInv, AttemptsAgree, Fits
  <2>3. QED
    BY <1>1, <2>1, <2>2
<1>2. ASSUME NEW s \in Runners, runner'[s].pc \in Called
      PROVE  runner'[s] = runner[s] /\ Counted(s)' = Counted(s)
  BY <1>2 DEF Counted
<1>3. AttemptsCounted'
  <2>1. ASSUME NEW s \in Runners, runner'[s].pc \in {"claimed", "counted"}
        PROVE  Counted(s)' < MaxAttempts
    BY <2>1 DEF Counted
  <2>2. ASSUME NEW s \in Runners, runner'[s].pc \in Called
        PROVE  /\ runner'[s].attempt = Counted(s)' /\ Counted(s)' \in Attempts
               /\ runner'[s].pc = "returned" /\ runner'[s].outcome = "retryable" =>
                    Counted(s)' < MaxAttempts
    BY <1>2, <2>2 DEF CallInv, AttemptsCounted
  <2>3. QED
    BY <1>1, <2>1, <2>2 DEF AttemptsCounted, Called
<1>4. OkIsOnChain'
  BY <1>2 DEF CallInv, OkIsOnChain, Called
<1>5. CompletedIsOnChain'
  BY DEF CallInv, CompletedIsOnChain
<1>6. \A s \in Runners : Expects(s) => Expects(s)' /\ runner'[s] = runner[s]
  BY DEF Expects, Called
<1>7. OthersAreQuiet'
  BY <1>6 DEF CallInv, OthersAreQuiet, Awaited
<1>8. AbsentUnsent'
  BY DEF CallInv, AbsentUnsent
<1>9. QED
  BY <1>3, <1>4, <1>5, <1>7, <1>8 DEF CallInv

\* One runner moves outside the calls.
LEMMA RunnerOutsideCalls ==
  ASSUME QueueInv, StoryInv, CallInv, UNCHANGED <<attempts, tx, lost>>,
         \A j \in Jobs :
           /\ job'[j].status = "completed" <=> job[j].status = "completed"
           /\ job'[j].status = "absent" => job[j].status = "absent"
           /\ job'[j].status \in Claimable => job[j].status \in Claimable \cup {"absent"},
         NEW r \in Runners, NEW q, runner' = [runner EXCEPT ![r] = q],
         runner[r].pc \notin Called, q.pc \notin Called,
         q.pc \in {"claimed", "counted"} => Len(attempts[q.job]) < MaxAttempts
  PROVE  CallInv'
<1>1. runner'[r] = q /\ \A s \in Runners \ {r} : runner'[s] = runner[s]
  BY DEF QueueInv, TypeOK
<1>2. \A s \in Runners :
        /\ runner[s].pc \in Called \/ runner'[s].pc \in Called =>
             runner'[s] = runner[s]
        /\ runner'[s].pc \in {"claimed", "counted"} =>
             Len(attempts[runner'[s].job]) < MaxAttempts
  BY <1>1 DEF CallInv, AttemptsCounted, Counted
<1>3. QED
  BY <1>2, OutsideCalls

\* The rows of the other jobs stay.
LEMMA ClaimedRow ==
  ASSUME TypeOK, NEW j \in ClaimableJobs, ClaimRow(j)
  PROVE  /\ j \in Jobs /\ job[j].status \in Claimable /\ job'[j].status = "running"
         /\ \A i \in Jobs \ {j} : job'[i] = job[i]
         /\ \A i \in Jobs :
              /\ job'[i].status = "completed" <=> job[i].status = "completed"
              /\ job'[i].status = "absent" => job[i].status = "absent"
              /\ job'[i].status \in Claimable =>
                   job[i].status \in Claimable \cup {"absent"}
<1>1. j \in Jobs /\ job[j].status \in Claimable
  BY DEF ClaimableJobs
<1>2. /\ job'[j].status = "running" /\ \A i \in Jobs \ {j} : job'[i] = job[i]
  BY <1>1 DEF TypeOK, ClaimRow, JobRows
<1>3. QED
  BY <1>1, <1>2 DEF Claimable

\* The steps of the queue that are neither the start nor the record of a call.
LEMMA QuietQueueSteps ==
  ASSUME QueueInv, StoryInv, CallInv, UNCHANGED <<tx, lost>>,
         \/ \E j \in Jobs : Enqueue(j) \/ BackoffEnds(j) \/ JobLockExpires(j)
         \/ RunnerLockExpires
         \/ UNCHANGED jobsVars
         \/ \E r \in Runners :
              \/ RunDueJobs(r) \/ ClaimPendingJob(r) \/ LeaveLoop(r)
              \/ ReleaseRunnerLock(r) \/ ListJobAttempts(r)
              \/ \E j \in Jobs : ExecuteJob(r, j)
  PROVE  CallInv'
<1>0. /\ TypeOK /\ \A r \in Runners : runner[r] \in RunnerRecords
      /\ \A j \in Jobs : job[j] \in JobRows
  BY DEF QueueInv, TypeOK
<1>1. ASSUME UNCHANGED <<attempts, runner>>,
             \A j \in Jobs :
               \/ job'[j].status = job[j].status
               \/ job[j].status = "absent" /\ job'[j].status = "pending"
      PROVE  CallInv'
  <2>1. \A j \in Jobs :
          /\ job'[j].status = "completed" <=> job[j].status = "completed"
          /\ job'[j].status = "absent" => job[j].status = "absent"
          /\ job'[j].status \in Claimable => job[j].status \in Claimable \cup {"absent"}
    BY <1>1 DEF Claimable
  <2>2. \A s \in Runners : runner'[s].pc \in {"claimed", "counted"} =>
                             Len(attempts[runner'[s].job]) < MaxAttempts
    BY <1>1 DEF CallInv, AttemptsCounted, Counted
  <2>3. QED
    BY <1>1, <2>1, <2>2, OutsideCalls
<1>2. ASSUME NEW j \in Jobs, Enqueue(j) \/ BackoffEnds(j) PROVE CallInv'
  <2>1. /\ UNCHANGED <<attempts, runner>>
        /\ \A i \in Jobs \ {j} : job'[i] = job[i]
        /\ \/ job'[j].status = job[j].status
           \/ job[j].status = "absent" /\ job'[j].status = "pending"
    BY <1>0, <1>2 DEF Enqueue, BackoffEnds, TypeOK, JobRows
  <2>2. QED
    BY <1>1, <2>1
<1>3. ASSUME \/ \E j \in Jobs : JobLockExpires(j)
             \/ RunnerLockExpires \/ UNCHANGED jobsVars
      PROVE  CallInv'
  BY <1>1, <1>3 DEF JobLockExpires, RunnerLockExpires, jobsVars
<1>4. ASSUME NEW r \in Runners, NEW q, UNCHANGED <<job, attempts>>,
             runner' = [runner EXCEPT ![r] = q],
             runner[r].pc \notin Called, q.pc \notin Called,
             q.pc \in {"claimed", "counted"} => Len(attempts[q.job]) < MaxAttempts
      PROVE  CallInv'
  BY <1>4, RunnerOutsideCalls
<1>5. ASSUME NEW r \in Runners, RunDueJobs(r) PROVE CallInv'
  <2> DEFINE q == [Idle EXCEPT !.pc = "loop", !.inLoop = TRUE]
  <2>1. q.pc = "loop" /\ runner[r].pc = "idle"
    BY <1>5 DEF Idle, RunDueJobs
  <2>2. runner' = [runner EXCEPT ![r] = q] /\ UNCHANGED <<job, attempts>>
    BY <1>5 DEF RunDueJobs
  <2>3. QED
    BY <1>4, <2>1, <2>2 DEF Called
<1>6. ASSUME NEW r \in Runners, ClaimPendingJob(r) PROVE CallInv'
  <2>1. PICK j \in ClaimableJobs :
          /\ ClaimRow(j)
          /\ runner' = [runner EXCEPT ![r] =
               [@ EXCEPT !.pc = "claimed", !.job = j,
                         !.processed = runner[r].processed + 1]]
    BY <1>6 DEF ClaimPendingJob
  <2> DEFINE q == [runner[r] EXCEPT !.pc = "claimed", !.job = j,
                                    !.processed = runner[r].processed + 1]
  <2>2. runner' = [runner EXCEPT ![r] = q] /\ runner[r].pc = "loop"
        /\ UNCHANGED attempts
    BY <1>6, <2>1 DEF ClaimPendingJob
  <2>3. q.pc = "claimed" /\ q.job = j
    BY <1>0 DEF RunnerRecords
  <2> HIDE DEF q
  <2>4. /\ j \in Jobs /\ job[j].status \in Claimable
        /\ \A i \in Jobs :
             /\ job'[i].status = "completed" <=> job[i].status = "completed"
             /\ job'[i].status = "absent" => job[i].status = "absent"
             /\ job'[i].status \in Claimable =>
                  job[i].status \in Claimable \cup {"absent"}
    BY <1>0, <2>1, ClaimedRow
  <2>5. Len(attempts[j]) < MaxAttempts
    BY <2>4 DEF CallInv, AttemptsCounted
  <2>6. runner[r].pc \notin Called /\ q.pc \notin Called
    BY <2>2, <2>3 DEF Called
  <2>7. QED
    BY <2>2, <2>3, <2>4, <2>5, <2>6, RunnerOutsideCalls
<1>7. ASSUME NEW r \in Runners, NEW j \in Jobs, ExecuteJob(r, j) PROVE CallInv'
  <2> DEFINE q == [Idle EXCEPT !.pc = "claimed", !.job = j]
  <2>1. /\ j \in ClaimableJobs /\ ClaimRow(j) /\ runner[r].pc = "idle"
        /\ runner' = [runner EXCEPT ![r] = q] /\ UNCHANGED attempts
    BY <1>7 DEF ExecuteJob
  <2>2. q.pc = "claimed" /\ q.job = j
    BY DEF Idle
  <2> HIDE DEF q
  <2>3. Len(attempts[j]) < MaxAttempts
    BY <1>0, <2>1, ClaimedRow DEF CallInv, AttemptsCounted
  <2>4. QED
    BY <1>0, <2>1, <2>2, <2>3, ClaimedRow, RunnerOutsideCalls DEF Called
<1>8. ASSUME NEW r \in Runners, LeaveLoop(r) PROVE CallInv'
  <2> DEFINE q == [runner[r] EXCEPT !.pc = "closing"]
  <2>1. q.pc = "closing" /\ runner[r].pc = "loop"
    BY <1>0, <1>8 DEF LeaveLoop, RunnerRecords
  <2>2. runner' = [runner EXCEPT ![r] = q] /\ UNCHANGED <<job, attempts>>
    BY <1>8 DEF LeaveLoop
  <2> HIDE DEF q
  <2>3. QED
    BY <1>4, <2>1, <2>2 DEF Called
<1>9. ASSUME NEW r \in Runners, ReleaseRunnerLock(r) PROVE CallInv'
  <2>1. Idle.pc = "idle"
    BY DEF Idle
  <2>2. QED
    BY <1>4, <1>9, <2>1 DEF ReleaseRunnerLock, Called
<1>10. ASSUME NEW r \in Runners, ListJobAttempts(r) PROVE CallInv'
  <2> DEFINE q == [runner[r] EXCEPT !.pc = "counted",
                                    !.attempt = Len(attempts[runner[r].job]) + 1]
  <2>1. q.pc = "counted" /\ q.job = runner[r].job /\ runner[r].pc = "claimed"
    BY <1>0, <1>10 DEF ListJobAttempts, RunnerRecords
  <2>2. runner' = [runner EXCEPT ![r] = q] /\ UNCHANGED <<job, attempts>>
    BY <1>10 DEF ListJobAttempts
  <2> HIDE DEF q
  <2>3. Len(attempts[q.job]) < MaxAttempts
    BY <2>1 DEF CallInv, AttemptsCounted, Counted
  <2>4. QED
    BY <1>4, <2>1, <2>2, <2>3 DEF Called
<1>11. QED
  BY <1>2, <1>3, <1>5, <1>6, <1>7, <1>8, <1>9, <1>10

\* The executor of a job has it alone.
LEMMA AloneWithJob ==
  ASSUME QueueInv, NEW r \in Runners, runner[r].pc \in Busy
  PROVE  /\ runner[r].job \in Jobs /\ job[runner[r].job].status = "running"
         /\ attempts[runner[r].job] \in Seq(AttemptStates)
         /\ Len(attempts[runner[r].job]) \in Nat
         /\ \A s \in Runners \ {r} :
              runner[s].pc \in Busy => runner[s].job # runner[r].job
<1>1. runner[r].job \in Jobs /\ job[runner[r].job].status = "running"
  BY DEF QueueInv, Exclusive
<1>2. attempts[runner[r].job] \in Seq(AttemptStates)
  BY <1>1 DEF QueueInv, TypeOK
<1>3. Len(attempts[runner[r].job]) \in Nat
  BY <1>2, LenProperties
<1>4. QED
  BY <1>1, <1>2, <1>3 DEF QueueInv, Exclusive

\* Nothing of the job is on its way when its next attempt starts.
LEMMA StartKeepsCalls ==
  ASSUME QueueInv, StoryInv, CallInv, UNCHANGED <<tx, lost>>,
         NEW r \in Runners, StartJobAttempt(r)
  PROVE  CallInv'
<1> DEFINE j == runner[r].job
           n == Len(attempts[j])
<1>1. /\ runner[r].pc = "counted" /\ runner[r].attempt = n + 1
      /\ attempts' = [attempts EXCEPT ![j] = Append(@, "running")]
      /\ runner' = [runner EXCEPT ![r].pc = "calling"] /\ job' = job
  BY DEF StartJobAttempt
<1>2. /\ j \in Jobs /\ job[j].status = "running" /\ n \in Nat
      /\ attempts[j] \in Seq(AttemptStates)
      /\ \A s \in Runners \ {r} : runner[s].pc \in Busy => runner[s].job # j
  BY <1>1, AloneWithJob DEF Busy
<1>3. /\ Len(attempts'[j]) = n + 1
      /\ \A i \in Jobs \ {j} : attempts'[i] = attempts[i]
  <2>1. attempts'[j] = Append(attempts[j], "running")
    BY <1>1, <1>2 DEF QueueInv, TypeOK
  <2>2. Len(Append(attempts[j], "running")) = n + 1
    BY <1>2, AppendProperties DEF AttemptStates
  <2>3. QED
    BY <1>1, <2>1, <2>2 DEF QueueInv, TypeOK
<1>4. /\ runner'[r].pc = "calling" /\ runner'[r].job = j /\ runner'[r].attempt = n + 1
      /\ \A s \in Runners \ {r} : runner'[s] = runner[s]
  BY <1>1 DEF QueueInv, TypeOK, RunnerRecords
<1>5. n + 1 \in Attempts
  BY <1>1, <1>2, JobsAssumption DEF CallInv, AttemptsCounted, Counted, Attempts
<1> HIDE DEF n, j
<1>6. ASSUME NEW s \in Runners \ {r}, runner[s].pc \in Busy
      PROVE  runner'[s] = runner[s] /\ Counted(s)' = Counted(s)
  <2>1. runner[s].job \in Jobs \ {j}
    BY <1>2, <1>6, AloneWithJob
  <2>2. QED
    BY <1>3, <1>4, <2>1 DEF Counted
<1>7. AttemptsCounted'
  <2>1. ASSUME NEW i \in Jobs, job'[i].status \in Claimable
        PROVE  Len(attempts'[i]) < MaxAttempts
    BY <1>1, <1>2, <1>3, <2>1 DEF CallInv, AttemptsCounted, Claimable
  <2>2. ASSUME NEW s \in Runners
        PROVE  /\ runner'[s].pc \in {"claimed", "counted"} => Counted(s)' < MaxAttempts
               /\ runner'[s].pc \in Called =>
                    runner'[s].attempt = Counted(s)' /\ Counted(s)' \in Attempts
               /\ runner'[s].pc = "returned" /\ runner'[s].outcome = "retryable" =>
                    Counted(s)' < MaxAttempts
    <3>1. CASE s = r
      BY <1>3, <1>4, <1>5, <3>1 DEF Counted
    <3>2. CASE s # r
      <4>1. runner[s].pc \notin Busy => runner'[s].pc \notin Busy
        BY <1>4, <3>2
      <4>2. QED
        BY <1>6, <3>2, <4>1 DEF CallInv, AttemptsCounted, Busy, Called
    <3>3. QED
      BY <3>1, <3>2
  <2>3. QED
    BY <2>1, <2>2 DEF AttemptsCounted
<1>8. OkIsOnChain'
  BY <1>4 DEF CallInv, OkIsOnChain
<1>9. CompletedIsOnChain'
  BY <1>1, <1>2, <1>3 DEF CallInv, CompletedIsOnChain
<1>10. OthersAreQuiet'
  <2>1. SUFFICES ASSUME NEW i \in Jobs \ lost, NEW a \in Attempts, tx[i][a] \in OnChain
                 PROVE  a = Len(attempts'[i]) /\ Awaited(i)'
    BY DEF OthersAreQuiet
  <2>2. a = Len(attempts[i]) /\ Awaited(i)
    BY <2>1 DEF CallInv, OthersAreQuiet
  <2>3. i # j
    BY <1>1, <1>2, <2>2 DEF Awaited, Expects, Busy
  <2>4. \A s \in Runners : runner[s].job = i /\ Expects(s) =>
                             runner'[s].job = i /\ Expects(s)'
    BY <1>1, <1>4 DEF Expects
  <2>5. QED
    BY <1>1, <1>3, <2>1, <2>2, <2>3, <2>4 DEF Awaited
<1>11. AbsentUnsent'
  BY <1>1 DEF CallInv, AbsentUnsent
<1>12. QED
  BY <1>7, <1>8, <1>9, <1>10, <1>11 DEF CallInv

\* A call returns a signature only for a transaction that landed, and an error,
\* unless its answer is lost, only if nothing is or will be on the chain.
LEMMA ReturnKeepsCalls ==
  ASSUME QueueInv, StoryInv, CallInv, UNCHANGED tx, lost \subseteq lost',
         NEW r \in Runners, NEW o \in Outcomes, CallReturns(r, o),
         o = "ok" => TxOf(r) = "landed",
         o # "ok" => Job(r) \in lost' \/ TxOf(r) \notin OnChain
  PROVE  CallInv'
<1> DEFINE q == [runner[r] EXCEPT !.pc = "returned", !.outcome = o]
<1>1. /\ runner[r].pc = "calling" /\ UNCHANGED <<job, attempts>>
      /\ o = "retryable" => runner[r].attempt < MaxAttempts
      /\ runner' = [runner EXCEPT ![r] = q]
  BY DEF CallReturns
<1>2. /\ q.pc = "returned" /\ q.outcome = o /\ q.job = runner[r].job
      /\ q.attempt = runner[r].attempt
  BY DEF QueueInv, TypeOK, RunnerRecords
<1>3. runner'[r] = q /\ \A s \in Runners \ {r} : runner'[s] = runner[s]
  BY <1>1 DEF QueueInv, TypeOK
<1> HIDE DEF q
<1>4. /\ Job(r) = runner[r].job /\ Attempt(r) = runner[r].attempt
      /\ Attempt(r) = Len(attempts[Job(r)])
  BY <1>1, CallOf DEF CallInv, Called
<1>5. AttemptsCounted'
  <2>1. \A s \in Runners : Counted(s)' = Counted(s)
    BY <1>1, <1>2, <1>3 DEF Counted
  <2>2. QED
    BY <1>1, <1>2, <1>3, <2>1 DEF CallInv, AttemptsCounted, Called
<1>6. OkIsOnChain'
  BY <1>2, <1>3, <1>4 DEF CallInv, OkIsOnChain, TxOf
<1>7. CompletedIsOnChain' /\ AbsentUnsent'
  BY <1>1 DEF CallInv, CompletedIsOnChain, AbsentUnsent
<1>8. OthersAreQuiet'
  <2>1. SUFFICES ASSUME NEW i \in Jobs \ lost', NEW a \in Attempts, tx[i][a] \in OnChain
                 PROVE  a = Len(attempts[i]) /\ Awaited(i)'
    BY <1>1 DEF OthersAreQuiet
  <2>2. a = Len(attempts[i]) /\ Awaited(i)
    BY <2>1 DEF CallInv, OthersAreQuiet
  <2>3. runner[r].job = i => o = "ok"
    BY <1>4, <2>1, <2>2 DEF TxOf
  <2>4. \A s \in Runners : runner[s].job = i /\ Expects(s) =>
                             runner'[s].job = i /\ Expects(s)'
    BY <1>2, <1>3, <2>3 DEF Expects
  <2>5. QED
    BY <1>1, <2>2, <2>4 DEF Awaited
<1>9. QED
  BY <1>5, <1>6, <1>7, <1>8 DEF CallInv

\* Recording: a success is completed, anything else is not.
LEMMA RecordKeepsCalls ==
  ASSUME QueueInv, StoryInv, CallInv, UNCHANGED <<tx, lost>>,
         NEW r \in Runners, runner[r].pc = "returned",
         NEW a \in AttemptStates, attempts' = LastAttempt(runner[r].job, a),
         NEW row, job' = [job EXCEPT ![runner[r].job] = row],
         row.status = IF runner[r].outcome = "ok" THEN "completed"
                      ELSE runner[r].outcome,
         runner' = [runner EXCEPT ![r] = Finished(r)]
  PROVE  CallInv'
<1> DEFINE j == runner[r].job
           n == Len(attempts[j])
<1>1. /\ j \in Jobs /\ job[j].status = "running" /\ n \in Nat
      /\ attempts[j] \in Seq(AttemptStates)
      /\ \A s \in Runners \ {r} : runner[s].pc \in Busy => runner[s].job # j
  BY AloneWithJob DEF Busy
<1>2. /\ n \in Attempts /\ runner[r].attempt = n
      /\ runner[r].outcome = "retryable" => n < MaxAttempts
  BY DEF CallInv, AttemptsCounted, Counted, Called
<1>3. n > 0
  BY <1>2 DEF Attempts
<1>4. /\ Len(attempts'[j]) = n /\ attempts'[j] # << >>
      /\ \A i \in Jobs \ {j} : attempts'[i] = attempts[i]
  <2>1. attempts[j] # << >> /\ n \in 1 .. n
    BY <1>1, <1>3, EmptySeq
  <2>2. attempts'[j] = [attempts[j] EXCEPT ![n] = a]
    BY <1>1, <2>1 DEF QueueInv, TypeOK, LastAttempt
  <2>3. /\ [attempts[j] EXCEPT ![n] = a] \in Seq(AttemptStates)
        /\ Len([attempts[j] EXCEPT ![n] = a]) = n
    BY <1>1, <2>1, ExceptSeq
  <2>4. attempts'[j] # << >>
    BY <1>3, <2>2, <2>3, EmptySeq
  <2>5. QED
    BY <2>2, <2>3, <2>4 DEF QueueInv, TypeOK, LastAttempt
<1>5. /\ runner'[r] = Finished(r) /\ runner'[r].pc \notin Busy
      /\ \A s \in Runners \ {r} : runner'[s] = runner[s]
  BY FreedRunners DEF QueueInv, TypeOK
<1>6. /\ job'[j] = row /\ \A i \in Jobs \ {j} : job'[i] = job[i]
  BY <1>1 DEF QueueInv, TypeOK
<1>7. /\ runner[r].outcome \in Outcomes
      /\ runner[r].outcome = "ok" => tx[j][n] = "landed"
  BY <1>2 DEF QueueInv, TypeOK, RunnerRecords, CallInv, OkIsOnChain
<1> HIDE DEF n, j
<1>8. AttemptsCounted'
  <2>1. ASSUME NEW i \in Jobs, job'[i].status \in Claimable
        PROVE  Len(attempts'[i]) < MaxAttempts
    <3>1. CASE i = j
      <4>1. runner[r].outcome = "retryable"
        BY <1>6, <1>7, <2>1, <3>1 DEF Claimable, Outcomes
      <4>2. QED
        BY <1>2, <1>4, <3>1, <4>1
    <3>2. CASE i # j
      BY <1>4, <1>6, <2>1, <3>2 DEF CallInv, AttemptsCounted
    <3>3. QED
      BY <3>1, <3>2
  <2>2. ASSUME NEW s \in Runners, runner'[s].pc \in Busy
        PROVE  runner'[s] = runner[s] /\ Counted(s)' = Counted(s)
    <3>1. runner'[s] = runner[s] /\ s # r
      BY <1>5, <2>2
    <3>2. runner[s].job \in Jobs \ {j}
      BY <1>1, <2>2, <3>1, AloneWithJob
    <3>3. QED
      BY <1>4, <3>1, <3>2 DEF Counted
  <2>3. ASSUME NEW s \in Runners
        PROVE  /\ runner'[s].pc \in {"claimed", "counted"} => Counted(s)' < MaxAttempts
               /\ runner'[s].pc \in Called =>
                    runner'[s].attempt = Counted(s)' /\ Counted(s)' \in Attempts
               /\ runner'[s].pc = "returned" /\ runner'[s].outcome = "retryable" =>
                    Counted(s)' < MaxAttempts
    BY <2>2 DEF CallInv, AttemptsCounted, Busy, Called
  <2>4. QED
    BY <2>1, <2>3 DEF AttemptsCounted
<1>9. OkIsOnChain'
  BY <1>5 DEF CallInv, OkIsOnChain, Busy
<1>10. CompletedIsOnChain'
  <2>1. ASSUME NEW i \in Jobs, job'[i].status = "completed"
        PROVE  attempts'[i] # << >> /\ tx[i][Len(attempts'[i])] = "landed"
    <3>1. CASE i = j
      BY <1>4, <1>6, <1>7, <2>1, <3>1 DEF Outcomes
    <3>2. CASE i # j
      BY <1>4, <1>6, <2>1, <3>2 DEF CallInv, CompletedIsOnChain
    <3>3. QED
      BY <3>1, <3>2
  <2>2. QED
    BY <2>1 DEF CompletedIsOnChain
<1>11. OthersAreQuiet'
  <2>1. SUFFICES ASSUME NEW i \in Jobs \ lost, NEW b \in Attempts, tx[i][b] \in OnChain
                 PROVE  b = Len(attempts'[i]) /\ Awaited(i)'
    BY DEF OthersAreQuiet
  <2>2. b = Len(attempts[i]) /\ Awaited(i)
    BY <2>1 DEF CallInv, OthersAreQuiet
  <2>3. CASE i = j
    <3>1. PICK s \in Runners : runner[s].job = j /\ Expects(s)
      BY <1>1, <2>2, <2>3 DEF Awaited
    <3>2. s = r
      BY <1>1, <3>1 DEF Expects, Busy
    <3>3. runner[r].outcome = "ok"
      BY <3>1, <3>2 DEF Expects
    <3>4. QED
      BY <1>4, <1>6, <2>2, <2>3, <3>3 DEF Awaited, n
  <2>4. CASE i # j
    <3>1. \A s \in Runners : runner[s].job = i /\ Expects(s) =>
                               runner'[s].job = i /\ Expects(s)'
      BY <1>5, <2>4 DEF Expects, j
    <3>2. QED
      BY <1>4, <1>6, <2>2, <2>4, <3>1 DEF Awaited
  <2>5. QED
    BY <2>3, <2>4
<1>12. AbsentUnsent'
  <2>1. row.status # "absent"
    BY <1>7 DEF Outcomes
  <2>2. QED
    BY <1>6, <2>1 DEF CallInv, AbsentUnsent
<1>13. QED
  BY <1>8, <1>9, <1>10, <1>11, <1>12 DEF CallInv

\* A fault in a call, or between its end and its record, loses the answer.
LEMMA FaultKeepsCalls ==
  ASSUME QueueInv, StoryInv, CallInv, UNCHANGED <<job, attempts, tx>>,
         NEW r \in Runners, NEW q, runner' = [runner EXCEPT ![r] = q],
         lost \subseteq lost', runner[r].pc \in Called => runner[r].job \in lost',
         q.pc \notin {"claimed", "counted", "calling"},
         q.pc = "returned" =>
           /\ runner[r].pc = "returned" /\ q.outcome = "failed"
           /\ q.job = runner[r].job /\ q.attempt = runner[r].attempt
  PROVE  CallInv'
<1>1. runner'[r] = q /\ \A s \in Runners \ {r} : runner'[s] = runner[s]
  BY DEF QueueInv, TypeOK
<1>2. AttemptsCounted'
  <2>1. \A s \in Runners : runner'[s].pc \in Called => Counted(s)' = Counted(s)
    BY <1>1 DEF Counted, Called
  <2>2. \A s \in Runners \ {r} : Counted(s)' = Counted(s)
    BY <1>1 DEF Counted
  <2>3. QED
    BY <1>1, <2>1, <2>2 DEF CallInv, AttemptsCounted, Called
<1>3. OkIsOnChain'
  BY <1>1 DEF CallInv, OkIsOnChain
<1>4. CompletedIsOnChain' /\ AbsentUnsent'
  BY DEF CallInv, CompletedIsOnChain, AbsentUnsent
<1>5. OthersAreQuiet'
  <2>1. SUFFICES ASSUME NEW i \in Jobs \ lost', NEW a \in Attempts, tx[i][a] \in OnChain
                 PROVE  a = Len(attempts[i]) /\ Awaited(i)'
    BY DEF OthersAreQuiet
  <2>2. a = Len(attempts[i]) /\ Awaited(i)
    BY <2>1 DEF CallInv, OthersAreQuiet
  <2>3. \A s \in Runners : runner[s].job = i /\ Expects(s) =>
                             runner'[s].job = i /\ Expects(s)'
    BY <1>1, <2>1 DEF Expects, Called
  <2>4. QED
    BY <2>2, <2>3 DEF Awaited
<1>6. QED
  BY <1>2, <1>3, <1>4, <1>5 DEF CallInv

LEMMA FaultsKeepCalls ==
  ASSUME QueueInv, StoryInv, CallInv, NEW r \in Runners, Fault(r)
  PROVE  CallInv'
<1>1. /\ UNCHANGED <<job, attempts, tx>> /\ runner[r] \in RunnerRecords
      /\ lost \subseteq lost'
      /\ runner[r].pc \in Called => runner[r].job \in lost'
  BY DEF Fault, Crash, StatementThrows, RememberLost, Job, Called, QueueInv, TypeOK
<1>2. Idle.pc = "idle"
  BY DEF Idle
<1>3. CASE Crash(r)
  <2>1. runner' = [runner EXCEPT ![r] = Idle]
    BY <1>3 DEF Crash
  <2>2. QED
    BY <1>1, <1>2, <2>1, FaultKeepsCalls
<1>4. CASE CompleteThrows(r)
  <2> DEFINE q == [runner[r] EXCEPT !.outcome = "failed"]
  <2>1. runner' = [runner EXCEPT ![r] = q] /\ runner[r].pc = "returned"
    BY <1>4 DEF CompleteThrows
  <2>2. /\ q.pc = "returned" /\ q.outcome = "failed" /\ q.job = runner[r].job
        /\ q.attempt = runner[r].attempt
    BY <1>1, <2>1 DEF RunnerRecords
  <2> HIDE DEF q
  <2>3. QED
    BY <1>1, <2>1, <2>2, FaultKeepsCalls
<1>5. CASE ExecuteThrows(r)
  <2>1. runner' = [runner EXCEPT ![r] = Thrown(r)]
    BY <1>5 DEF ExecuteThrows
  <2>2. Thrown(r).pc \notin Busy
    BY FreedRunners DEF QueueInv
  <2>3. QED
    BY <1>1, <2>1, <2>2, FaultKeepsCalls DEF Busy
<1>6. CASE LoopThrows(r)
  <2> DEFINE q == IF runner[r].pc = "loop"
                  THEN [runner[r] EXCEPT !.pc = "closing"] ELSE Idle
  <2>1. runner' = [runner EXCEPT ![r] = q]
    BY <1>6 DEF LoopThrows
  <2>2. q.pc \in {"closing", "idle"}
    BY <1>1, <1>2 DEF RunnerRecords
  <2> HIDE DEF q
  <2>3. QED
    BY <1>1, <2>1, <2>2, FaultKeepsCalls
<1>7. QED
  BY <1>3, <1>4, <1>5, <1>6 DEF Fault, StatementThrows

\* A transaction changes its state: it is not taken back once it landed, and it
\* gets on its way only while its call waits for it.
LEMMA TransactionKeepsCalls ==
  ASSUME QueueInv, StoryInv, CallInv, DeliveryTypeOK,
         UNCHANGED <<job, attempts, runner, lost>>,
         NEW j \in Jobs, NEW a \in Attempts, NEW x, tx' = [tx EXCEPT ![j][a] = x],
         tx[j][a] # "landed", job[j].status # "absent",
         x \in OnChain =>
           \/ tx[j][a] \in OnChain
           \/ a = Len(attempts[j]) /\ Awaited(j)
  PROVE  CallInv'
<1>1. /\ tx'[j][a] = x /\ \A b \in Attempts \ {a} : tx'[j][b] = tx[j][b]
      /\ \A i \in Jobs \ {j} : tx'[i] = tx[i]
  BY DEF DeliveryTypeOK
<1>2. AttemptsCounted'
  BY DEF CallInv, AttemptsCounted, Counted
<1>3. \A i \in Jobs, b \in Attempts : tx[i][b] = "landed" => tx'[i][b] = "landed"
  BY <1>1
<1>4. OkIsOnChain'
  <2>1. SUFFICES ASSUME NEW r \in Runners, runner[r].pc = "returned",
                        runner[r].outcome = "ok"
                 PROVE  tx'[runner[r].job][runner[r].attempt] = "landed"
    BY DEF OkIsOnChain
  <2>2. tx[Job(r)][Attempt(r)] = "landed" /\ Job(r) \in Jobs /\ Attempt(r) \in Attempts
    BY <2>1, CallOf DEF CallInv, OkIsOnChain, Called
  <2>3. QED
    BY <1>3, <2>2 DEF Job, Attempt
<1>5. CompletedIsOnChain'
  <2>1. SUFFICES ASSUME NEW i \in Jobs, job[i].status = "completed"
                 PROVE  attempts[i] # << >> /\ tx'[i][Len(attempts[i])] = "landed"
    BY DEF CompletedIsOnChain
  <2>2. attempts[i] # << >> /\ tx[i][Len(attempts[i])] = "landed"
    BY <2>1 DEF CallInv, CompletedIsOnChain
  <2>3. QED
    BY <1>1, <2>2
<1>6. OthersAreQuiet'
  BY <1>1 DEF CallInv, OthersAreQuiet, Awaited, Expects
<1>7. AbsentUnsent'
  BY <1>1 DEF CallInv, AbsentUnsent
<1>8. QED
  BY <1>2, <1>4, <1>5, <1>6, <1>7 DEF CallInv

\* Every step keeps what the queue records of the calls.
LEMMA CallsKept ==
  ASSUME QueueInv, StoryInv, CallInv, DeliveryTypeOK, [DeliveryNext]_deliveryVars
  PROVE  CallInv'
<1>1. ASSUME NEW j \in Jobs, EnqueueQuoted(j) PROVE CallInv'
  BY <1>1, QuietQueueSteps DEF EnqueueQuoted
<1>2. ASSUME NEW r \in Runners, RecordStep(r), UNCHANGED callVars PROVE CallInv'
  <2>1. UNCHANGED <<tx, lost>>
    BY <1>2 DEF callVars
  <2>2. CASE StartJobAttempt(r)
    BY <2>1, <2>2, StartKeepsCalls
  <2>3. CASE CompleteOracleJob(r)
    <3> DEFINE row == [job[runner[r].job] EXCEPT !.status = "completed"]
    <3>1. /\ runner[r].pc = "returned" /\ runner[r].outcome = "ok"
          /\ job' = [job EXCEPT ![runner[r].job] = row]
          /\ attempts' = LastAttempt(runner[r].job, "completed")
          /\ runner' = [runner EXCEPT ![r] = Finished(r)]
          /\ "completed" \in AttemptStates
      BY <2>3 DEF CompleteOracleJob, AttemptStates
    <3>2. row.status = "completed"
      BY <3>1, AloneWithJob DEF QueueInv, TypeOK, JobRows, Busy
    <3> HIDE DEF row
    <3>3. QED
      BY <2>1, <3>1, <3>2, RecordKeepsCalls
  <2>4. CASE FailOracleJob(r)
    <3> DEFINE row == [status |-> runner[r].outcome,
                       due |-> runner[r].outcome = "failed"]
    <3>1. /\ runner[r].pc = "returned" /\ runner[r].outcome # "ok"
          /\ job' = [job EXCEPT ![runner[r].job] = row]
          /\ attempts' = LastAttempt(runner[r].job, runner[r].outcome)
          /\ runner' = [runner EXCEPT ![r] = Finished(r)]
      BY <2>4 DEF FailOracleJob
    <3>2. runner[r].outcome \in AttemptStates
      BY <3>1 DEF QueueInv, TypeOK, RunnerRecords, Outcomes, AttemptStates
    <3>3. row.status = runner[r].outcome
      OBVIOUS
    <3> HIDE DEF row
    <3>4. QED
      BY <2>1, <3>1, <3>2, <3>3, RecordKeepsCalls
  <2>5. CASE \/ ClaimPendingJob(r) \/ LeaveLoop(r) \/ ReleaseRunnerLock(r)
             \/ ListJobAttempts(r)
    BY <2>1, <2>5, QuietQueueSteps
  <2>6. QED
    BY <1>2, <2>2, <2>3, <2>4, <2>5 DEF RecordStep
<1>3. ASSUME QueueStep PROVE CallInv'
  <2>1. UNCHANGED callVars /\ UNCHANGED <<tx, lost>>
    BY <1>3 DEF QueueStep, callVars
  <2>2. QED
    BY <1>2, <1>3, <2>1, QuietQueueSteps DEF QueueStep
<1>4. ASSUME NEW r \in Runners, CallStep(r) PROVE CallInv'
  <2>1. Calling(r)
    BY <1>4 DEF CallStep, PassClientChecks, SendTransaction, CallRefused,
                NodeUnavailable, CallConfirmed, ConfirmationLost
  <2>2. /\ Job(r) \in Jobs /\ Attempt(r) \in Attempts
        /\ Attempt(r) = Len(attempts[Job(r)]) /\ job[Job(r)].status = "running"
        /\ Awaited(Job(r))
    BY <2>1, CallOf DEF CallInv, Calling, Called, Awaited, Expects
  <2>3. CASE PassClientChecks(r) \/ SendTransaction(r)
    <3>1. PICK x \in {"checked", "flying"} : tx' = [tx EXCEPT ![Job(r)][Attempt(r)] = x]
      BY <2>3 DEF PassClientChecks, SendTransaction
    <3>2. /\ tx[Job(r)][Attempt(r)] # "landed"
          /\ UNCHANGED <<job, attempts, runner, lost>>
      BY <2>3 DEF PassClientChecks, SendTransaction, TxOf, jobsVars
    <3>3. QED
      BY <2>2, <3>1, <3>2, TransactionKeepsCalls
  <2>4. CASE CallRefused(r) \/ NodeUnavailable(r)
    <3>1. PICK o \in Outcomes : CallReturns(r, o) /\ o # "ok"
      BY <2>4 DEF CallRefused, NodeUnavailable, Outcomes
    <3>2. TxOf(r) \notin OnChain /\ UNCHANGED <<tx, lost>>
      BY <2>4 DEF CallRefused, Refused, NodeUnavailable, OnChain, callVars
    <3>3. QED
      BY <3>1, <3>2, ReturnKeepsCalls
  <2>5. CASE CallConfirmed(r)
    BY <2>5, ReturnKeepsCalls DEF CallConfirmed, Confirmed, Outcomes, callVars
  <2>6. CASE ConfirmationLost(r)
    <3>1. PICK o \in Outcomes : CallReturns(r, o) /\ o # "ok"
      BY <2>6 DEF ConfirmationLost, Outcomes
    <3>2. Job(r) \in lost' /\ lost \subseteq lost' /\ UNCHANGED tx
      BY <2>6 DEF ConfirmationLost, RememberLost
    <3>3. QED
      BY <3>1, <3>2, ReturnKeepsCalls
  <2>7. QED
    BY <1>4, <2>3, <2>4, <2>5, <2>6 DEF CallStep
<1>5. ASSUME NEW j \in Jobs, NEW a \in Attempts,
             \/ TransactionLands(j, a) \/ TransactionRejected(j, a)
             \/ TransactionDropped(j, a)
      PROVE  CallInv'
  <2>1. PICK x \in {"landed", "rejected", "dropped"} : tx' = [tx EXCEPT ![j][a] = x]
    BY <1>5 DEF TransactionLands, TransactionRejected, TransactionDropped
  <2>2. tx[j][a] = "flying" /\ UNCHANGED <<job, attempts, runner, lost>>
    BY <1>5 DEF TransactionLands, TransactionRejected, TransactionDropped, jobsVars
  <2>3. job[j].status # "absent"
    BY <2>2 DEF CallInv, AbsentUnsent
  <2>4. tx[j][a] # "landed" /\ tx[j][a] \in OnChain
    BY <2>2 DEF OnChain
  <2>5. QED
    BY <2>1, <2>2, <2>3, <2>4, TransactionKeepsCalls
<1>6. ASSUME \/ UpdatePublicProfile \/ \E q \in Quotes : UpdatePolicy(q)
             \/ UNCHANGED deliveryVars
      PROVE  CallInv'
  <2>1. UNCHANGED jobsVars /\ UNCHANGED <<tx, lost>>
    BY <1>6 DEF UpdatePublicProfile, UpdatePolicy, deliveryVars, callVars
  <2>2. QED
    BY <2>1, QuietQueueSteps
<1>7. QED
  BY <1>1, <1>3, <1>4, <1>5, <1>6, FaultsKeepCalls DEF DeliveryNext, ChainStep

-----------------------------------------------------------------------------
\* What is on the chain

LEMMA DisjointUnion ==
  ASSUME NEW S, IsFiniteSet(S), NEW T, IsFiniteSet(T), S \cap T = {}
  PROVE  /\ IsFiniteSet(S \cup T)
         /\ Cardinality(S \cup T) = Cardinality(S) + Cardinality(T)
<1>1. Cardinality(S) \in Nat /\ Cardinality(T) \in Nat
  BY FS_CardinalityType
<1>2. Cardinality(S \cap T) = 0
  BY FS_EmptySet
<1>3. /\ IsFiniteSet(S \cup T)
      /\ Cardinality(S \cup T) = Cardinality(S) + Cardinality(T) - Cardinality(S \cap T)
  BY FS_Union
<1>4. QED
  BY <1>1, <1>2, <1>3

\* The units of one reward, or of one funding, are as many as its lamports.
LEMMA Units ==
  ASSUME NEW n \in Nat, NEW j
  PROVE  /\ IsFiniteSet({j} \X (1 .. n)) /\ Cardinality({j} \X (1 .. n)) = n
         /\ \A a : /\ IsFiniteSet({j} \X (1 .. n) \X {a})
                   /\ Cardinality({j} \X (1 .. n) \X {a}) = n
<1>1. IsFiniteSet(1 .. n) /\ Cardinality(1 .. n) = n
  BY FS_Interval
<1>2. ExistsBijection(1 .. n, {j} \X (1 .. n))
  <2> DEFINE f == [i \in 1 .. n |-> <<j, i>>]
  <2>1. f \in Bijection(1 .. n, {j} \X (1 .. n))
    BY DEF Bijection, Injection, Surjection, IsInjective
  <2>2. QED
    BY <2>1 DEF ExistsBijection
<1>3. ASSUME NEW a PROVE ExistsBijection(1 .. n, {j} \X (1 .. n) \X {a})
  <2> DEFINE T == {j} \X (1 .. n) \X {a}
             f == [i \in 1 .. n |-> <<j, i, a>>]
  <2>1. \A i \in 1 .. n : f[i] = <<j, i, a>> /\ f[i] \in T
    OBVIOUS
  <2>2. \A t \in T : \E i \in 1 .. n : t = <<j, i, a>>
    OBVIOUS
  <2>3. f \in [1 .. n -> T]
    BY <2>1
  <2>4. \A i, k \in 1 .. n : <<j, i, a>> = <<j, k, a>> => i = k
    OBVIOUS
  <2> HIDE DEF f, T
  <2>5. f \in Injection(1 .. n, T)
    BY <2>1, <2>3, <2>4 DEF Injection, IsInjective
  <2>6. f \in Surjection(1 .. n, T)
    BY <2>1, <2>2, <2>3 DEF Surjection
  <2>7. QED
    BY <2>5, <2>6 DEF ExistsBijection, Bijection, T
<1>4. QED
  BY <1>1, <1>2, <1>3, FS_Bijection

LEMMA ReservedUnits ==
  \A u : u \in Reserved <=> \E j \in committed : \E k \in 1 .. reward[j] : u = <<j, k>>
BY DEF Reserved

LEMMA PaidUnits ==
  \A u : u \in PaidIn <=>
           \E j \in Jobs : /\ Work[j].kind = "fund"
                           /\ \E k \in 1 .. Work[j].amount :
                                \E a \in Landed(j) : u = <<j, k, a>>
BY DEF PaidIn, UnitsOf

\* Nothing lands.
LEMMA ChainRests ==
  ASSUME ChainInv, DeliveryTypeOK, DeliveryTypeOK',
         UNCHANGED <<committed, available>>, version' >= version,
         \A j \in Jobs : Landed(j)' = Landed(j),
         \A j \in committed : reward'[j] = reward[j]
  PROVE  ChainInv'
<1>1. CommittedLanded' /\ OnceOnChain'
  BY DEF ChainInv, CommittedLanded, OnceOnChain
<1>2. SyncedVersion'
  <2>1. SUFFICES ASSUME NEW j \in Jobs, Work[j].kind = "sync", Landed(j) # {}
                 PROVE  version' >= Work[j].version
    BY DEF SyncedVersion
  <2>2. version >= Work[j].version
    BY <2>1 DEF ChainInv, SyncedVersion
  <2>3. version \in Nat /\ version' \in Nat /\ Work[j].version \in Nat
    BY <2>1, WorkAssumption DEF DeliveryTypeOK
  <2>4. QED
    BY <2>2, <2>3
<1>3. Reserved' = Reserved
  BY DEF Reserved
<1>4. PaidIn' = PaidIn
  BY DEF PaidIn, UnitsOf
<1>5. Balanced'
  BY <1>3, <1>4 DEF ChainInv, Balanced
<1>6. QED
  BY <1>1, <1>2, <1>5 DEF ChainInv

\* A transaction lands that the program accepts.
LEMMA LandingCounts ==
  ASSUME ChainInv, DeliveryTypeOK, NEW j \in Jobs, NEW a \in Attempts,
         TransactionLands(j, a)
  PROVE  ChainInv'
<1>1. /\ tx[j][a] = "flying" /\ ProgramAccepts(j) /\ Execute(j)
      /\ tx' = [tx EXCEPT ![j][a] = "landed"] /\ reward' = reward
  BY DEF TransactionLands
<1>2. /\ Landed(j)' = Landed(j) \cup {a} /\ a \notin Landed(j)
      /\ \A i \in Jobs \ {j} : Landed(i)' = Landed(i)
  BY <1>1 DEF Landed, DeliveryTypeOK
<1>3. /\ reward[j] \in Nat /\ Work[j].version \in Nat /\ Work[j].amount \in Nat
      /\ available \in Nat /\ version \in Nat /\ committed \subseteq Jobs
  BY WorkAssumption DEF DeliveryTypeOK
<1>4. IsFiniteSet(PaidIn) /\ IsFiniteSet(Reserved)
  BY DEF ChainInv, Balanced
<1>5. Cardinality(PaidIn) \in Nat /\ Cardinality(Reserved) \in Nat
  BY <1>4, FS_CardinalityType
<1>6. CASE Work[j].kind = "submit"
  <2>1. j \notin committed /\ Landed(j) = {}
    BY <1>1, <1>6 DEF ProgramAccepts, ChainInv, CommittedLanded
  <2>2. /\ committed' = committed \cup {j} /\ available' = available - reward[j]
        /\ version' = version
    BY <1>1, <1>6, ExecuteByKind
  <2>3. CommittedLanded' /\ OnceOnChain' /\ SyncedVersion'
    BY <1>2, <1>6, <2>1, <2>2
    DEF ChainInv, CommittedLanded, OnceOnChain, SyncedVersion
  <2>4. PaidIn' = PaidIn
    <3>1. \A i \in Jobs : Work[i].kind = "fund" => Landed(i)' = Landed(i)
      BY <1>2, <1>6
    <3>2. \A u : u \in PaidIn' <=> u \in PaidIn
      BY <3>1 DEF PaidIn, UnitsOf
    <3>3. QED
      BY <3>2
  <2>5. Reserved' = Reserved \cup ({j} \X (1 .. reward[j]))
    <3>1. \A u : u \in Reserved' <=>
                   \E i \in committed' : \E k \in 1 .. reward'[i] : u = <<i, k>>
      BY DEF Reserved
    <3>2. \A u : u \in Reserved' <=> u \in Reserved \/ u \in {j} \X (1 .. reward[j])
      BY <1>1, <2>2, <3>1, ReservedUnits
    <3>3. QED
      BY <3>2
  <2>6. Reserved \cap ({j} \X (1 .. reward[j])) = {}
    BY <2>1, ReservedUnits
  <2>7. /\ IsFiniteSet(Reserved')
        /\ Cardinality(Reserved') = Cardinality(Reserved) + reward[j]
    <3> DEFINE new == {j} \X (1 .. reward[j])
    <3>1. IsFiniteSet(new) /\ Cardinality(new) = reward[j]
      BY <1>3, Units
    <3> HIDE DEF new
    <3>2. Reserved' = Reserved \cup new /\ Reserved \cap new = {}
      BY <2>5, <2>6 DEF new
    <3>3. QED
      BY <1>4, <3>1, <3>2, DisjointUnion
  <2>8. Balanced'
    BY <1>3, <1>4, <1>5, <2>2, <2>4, <2>7 DEF ChainInv, Balanced
  <2>9. QED
    BY <2>3, <2>8 DEF ChainInv
<1>7. CASE Work[j].kind = "sync"
  <2>1. Work[j].version > version
    BY <1>1, <1>7 DEF ProgramAccepts
  <2>2. Landed(j) = {}
    BY <1>3, <1>7, <2>1 DEF ChainInv, SyncedVersion
  <2>3. version' = Work[j].version /\ UNCHANGED <<committed, available>>
    BY <1>1, <1>7, ExecuteByKind
  <2>4. CommittedLanded' /\ OnceOnChain'
    BY <1>2, <1>7, <2>2, <2>3 DEF ChainInv, CommittedLanded, OnceOnChain
  <2>5. SyncedVersion'
    <3> SUFFICES ASSUME NEW i \in Jobs, Work[i].kind = "sync", Landed(i)' # {}
                 PROVE  version' >= Work[i].version
      BY DEF SyncedVersion
    <3>1. CASE i = j
      BY <1>3, <2>3, <3>1
    <3>2. CASE i # j
      <4>1. version >= Work[i].version /\ Work[i].version \in Nat
        BY <1>2, <3>2, WorkAssumption DEF ChainInv, SyncedVersion
      <4>2. QED
        BY <1>3, <2>1, <2>3, <4>1
    <3>3. QED
      BY <3>1, <3>2
  <2>6. Reserved' = Reserved
    BY <1>1, <2>3 DEF Reserved
  <2>7. PaidIn' = PaidIn
    <3>1. \A i \in Jobs : Work[i].kind = "fund" => Landed(i)' = Landed(i)
      BY <1>2, <1>7
    <3>2. \A u : u \in PaidIn' <=> u \in PaidIn
      BY <3>1 DEF PaidIn, UnitsOf
    <3>3. QED
      BY <3>2
  <2>8. Balanced'
    BY <2>3, <2>6, <2>7 DEF ChainInv, Balanced
  <2>9. QED
    BY <2>4, <2>5, <2>8 DEF ChainInv
<1>8. CASE Work[j].kind = "fund"
  <2> DEFINE new == {j} \X (1 .. Work[j].amount) \X {a}
  <2>1. /\ available' = available + Work[j].amount
        /\ UNCHANGED <<committed, version>>
    BY <1>1, <1>8, ExecuteByKind
  <2>2. CommittedLanded' /\ OnceOnChain' /\ SyncedVersion'
    BY <1>2, <1>8, <2>1 DEF ChainInv, CommittedLanded, OnceOnChain, SyncedVersion
  <2>3. Reserved' = Reserved
    BY <1>1, <2>1 DEF Reserved
  <2>4. PaidIn' = PaidIn \cup new
    <3>1. \A u : u \in PaidIn' <=>
                   \E i \in Jobs : /\ Work[i].kind = "fund"
                                   /\ \E k \in 1 .. Work[i].amount :
                                        \E b \in Landed(i)' : u = <<i, k, b>>
      BY DEF PaidIn, UnitsOf
    <3>2. \A u : u \in new <=> \E k \in 1 .. Work[j].amount : u = <<j, k, a>>
      OBVIOUS
    <3> HIDE DEF new
    <3>3. \A u : u \in PaidIn' <=> u \in PaidIn \/ u \in new
      BY <1>2, <1>8, <3>1, <3>2, PaidUnits
    <3>4. QED
      BY <3>3
  <2>5. PaidIn \cap new = {}
    BY <1>2, PaidUnits
  <2>6. IsFiniteSet(new) /\ Cardinality(new) = Work[j].amount
    BY <1>3, Units
  <2> HIDE DEF new
  <2>7. /\ IsFiniteSet(PaidIn')
        /\ Cardinality(PaidIn') = Cardinality(PaidIn) + Work[j].amount
    BY <1>4, <2>4, <2>5, <2>6, DisjointUnion
  <2>8. Balanced'
    BY <1>3, <1>4, <1>5, <2>1, <2>3, <2>7 DEF ChainInv, Balanced
  <2>9. QED
    BY <2>2, <2>8 DEF ChainInv
<1>9. QED
  BY <1>6, <1>7, <1>8, WorkAssumption DEF Kinds

LEMMA ChainKept ==
  ASSUME QueueInv, StoryInv, DeliveryTypeOK, DeliveryTypeOK', CallInv, ChainInv,
         [DeliveryNext]_deliveryVars
  PROVE  ChainInv'
<1>1. version \in Nat /\ committed \subseteq Jobs
  BY DEF DeliveryTypeOK
<1>2. ASSUME UNCHANGED <<tx, reward, committed, available>>,
             version' = version \/ version' = version + 1
      PROVE  ChainInv'
  <2>1. version' >= version
    BY <1>1, <1>2
  <2>2. \A j \in Jobs : Landed(j)' = Landed(j)
    BY <1>2 DEF Landed
  <2>3. QED
    BY <1>2, <2>1, <2>2, ChainRests
<1>3. ASSUME NEW j \in Jobs, EnqueueQuoted(j) PROVE ChainInv'
  <2>1. /\ job[j].status = "absent" /\ UNCHANGED <<tx, committed, available, version>>
        /\ \A i \in Jobs \ {j} : reward'[i] = reward[i]
    BY <1>3 DEF EnqueueQuoted, Enqueue, chainVars, DeliveryTypeOK
  <2>2. Landed(j) = {}
    BY <2>1 DEF CallInv, AbsentUnsent, Landed
  <2>3. j \notin committed
    BY <2>2 DEF ChainInv, CommittedLanded
  <2>4. \A i \in committed : reward'[i] = reward[i]
    BY <1>1, <2>1, <2>3
  <2>5. \A i \in Jobs : Landed(i)' = Landed(i)
    BY <2>1 DEF Landed
  <2>6. version' >= version
    BY <1>1, <2>1
  <2>7. QED
    BY <2>1, <2>4, <2>5, <2>6, ChainRests
<1>4. ASSUME UNCHANGED <<reward, committed, available, version>>,
             NEW j \in Jobs, NEW a \in Attempts, NEW x,
             tx' = [tx EXCEPT ![j][a] = x], tx[j][a] # "landed", x # "landed"
      PROVE  ChainInv'
  <2>1. \A i \in Jobs : Landed(i)' = Landed(i)
    BY <1>4 DEF Landed, DeliveryTypeOK
  <2>2. version' >= version
    BY <1>1, <1>4
  <2>3. QED
    BY <1>4, <2>1, <2>2, ChainRests
<1>5. ASSUME NEW r \in Runners, PassClientChecks(r) \/ SendTransaction(r)
      PROVE  ChainInv'
  <2>1. Job(r) \in Jobs /\ Attempt(r) \in Attempts
    BY <1>5, CallOf DEF PassClientChecks, SendTransaction, Calling, Called, CallInv
  <2>2. PICK x \in {"checked", "flying"} : tx' = [tx EXCEPT ![Job(r)][Attempt(r)] = x]
    BY <1>5 DEF PassClientChecks, SendTransaction
  <2>3. /\ UNCHANGED <<reward, committed, available, version>>
        /\ tx[Job(r)][Attempt(r)] # "landed"
    BY <1>5 DEF PassClientChecks, SendTransaction, TxOf, chainVars
  <2>4. QED
    BY <1>4, <2>1, <2>2, <2>3
<1>6. ASSUME NEW r \in Runners, CallStep(r) PROVE ChainInv'
  BY <1>1, <1>2, <1>5, <1>6
  DEF CallStep, CallRefused, NodeUnavailable, CallConfirmed, ConfirmationLost,
      callVars, chainVars
<1>7. ASSUME NEW r \in Runners, Fault(r) PROVE ChainInv'
  BY <1>1, <1>2, <1>7 DEF Fault, chainVars
<1>8. ASSUME NEW j \in Jobs, NEW a \in Attempts,
             TransactionRejected(j, a) \/ TransactionDropped(j, a)
      PROVE  ChainInv'
  <2>1. PICK x \in {"rejected", "dropped"} : tx' = [tx EXCEPT ![j][a] = x]
    BY <1>8 DEF TransactionRejected, TransactionDropped
  <2>2. /\ UNCHANGED <<reward, committed, available, version>>
        /\ tx[j][a] # "landed"
    BY <1>8 DEF TransactionRejected, TransactionDropped, chainVars
  <2>3. QED
    BY <1>4, <2>1, <2>2
<1>9. ASSUME UpdatePublicProfile \/ \E q \in Quotes : UpdatePolicy(q)
      PROVE  ChainInv'
  BY <1>2, <1>9 DEF UpdatePublicProfile, UpdatePolicy
<1>10. ASSUME QueueStep \/ UNCHANGED deliveryVars PROVE ChainInv'
  BY <1>2, <1>10 DEF QueueStep, deliveryVars, callVars, chainVars
<1>11. QED
  BY <1>3, <1>6, <1>7, <1>8, <1>9, <1>10, LandingCounts DEF DeliveryNext, ChainStep

-----------------------------------------------------------------------------
LEMMA InitDelivery == DeliveryInit => DeliveryInv
<1> SUFFICES ASSUME DeliveryInit PROVE DeliveryInv
  OBVIOUS
<1>1. QueueInv /\ StoryInv
  BY InitQueue, InitStory DEF DeliveryInit
<1>2. DeliveryTypeOK
  BY DEF DeliveryInit, DeliveryTypeOK, TxStates
<1>3. /\ \A j \in Jobs : job[j].status = "absent" /\ attempts[j] = << >>
      /\ \A r \in Runners : runner[r].pc = "idle"
      /\ \A j \in Jobs, a \in Attempts : tx[j][a] = "unsent"
  BY DEF DeliveryInit, Init, Idle
<1>4. CallInv
  BY <1>3
  DEF CallInv, AttemptsCounted, OkIsOnChain, CompletedIsOnChain, OthersAreQuiet,
      AbsentUnsent, Claimable, OnChain, Called
<1>5. \A j \in Jobs : Landed(j) = {}
  BY <1>3 DEF Landed
<1>6. Reserved = {} /\ PaidIn = {}
  BY <1>5 DEF DeliveryInit, Reserved, PaidIn, UnitsOf
<1>7. IsFiniteSet({}) /\ Cardinality({}) = 0
  BY FS_EmptySet
<1>8. Balanced
  BY <1>6, <1>7 DEF DeliveryInit, Balanced
<1>9. ChainInv
  BY <1>5, <1>8 DEF DeliveryInit, ChainInv, CommittedLanded, OnceOnChain, SyncedVersion
<1>10. QED
  BY <1>1, <1>2, <1>4, <1>9 DEF DeliveryInv

LEMMA DeliveryPreserved == DeliveryInv /\ [DeliveryNext]_deliveryVars => DeliveryInv'
<1> SUFFICES ASSUME DeliveryInv, [DeliveryNext]_deliveryVars PROVE DeliveryInv'
  OBVIOUS
<1>1. [Next]_jobsVars
  BY CallsAreQueueSteps
<1>2. QueueInv' /\ StoryInv'
  BY <1>1, QueuePreserved, StoryPreserved DEF DeliveryInv
<1>3. DeliveryTypeOK'
  BY DeliveryTypesKept DEF DeliveryInv, CallInv
<1>4. CallInv'
  BY CallsKept DEF DeliveryInv
<1>5. ChainInv'
  BY <1>3, ChainKept DEF DeliveryInv
<1>6. QED
  BY <1>2, <1>3, <1>4, <1>5 DEF DeliveryInv

\* The inductive invariant holds of every reachable state.
THEOREM DeliveryInvariant == DeliverySpec => []DeliveryInv
<1>1. QED
  BY InitDelivery, DeliveryPreserved, PTL DEF DeliverySpec

\* The variables keep their types: the treasury is never overdrawn.
THEOREM DeliveryTyped == DeliverySpec => []DeliveryTypeOK
<1>1. DeliveryInv => DeliveryTypeOK
  BY DEF DeliveryInv
<1>2. QED
  BY <1>1, DeliveryInvariant, PTL

\* What OracleJobs says of the safety of the queue holds with the real calls:
\* each step of the client, of its transactions and of the chain is a step of
\* the queue or leaves it alone.
THEOREM CallsImplementQueue == DeliverySpec => Spec
<1>1. DeliveryInit => Init
  BY DEF DeliveryInit
<1>2. QED
  BY <1>1, CallsAreQueueSteps, PTL DEF DeliverySpec, Spec

\* A signature is recorded only for a transaction that landed, whichever runner
\* records it: a completed job's last attempt is on the chain.
THEOREM CompletedLanded == DeliverySpec => []CompletedIsOnChain
<1>1. DeliveryInv => CompletedIsOnChain
  BY DEF DeliveryInv, CallInv
<1>2. QED
  BY <1>1, DeliveryInvariant, PTL

\* A failed job is not on the chain and never will be, unless an answer was lost.
THEOREM FailedIsFinal == DeliverySpec => []FailedIsNotOnChain
<1>1. DeliveryInv => FailedIsNotOnChain
  <2> SUFFICES ASSUME DeliveryInv, NEW j \in Jobs \ lost, job[j].status = "failed"
               PROVE  Landed(j) \cup Flying(j) = {}
    BY DEF FailedIsNotOnChain
  <2>1. ~Awaited(j)
    BY DEF DeliveryInv, QueueInv, Exclusive, Busy, Awaited, Expects
  <2>2. \A a \in Attempts : tx[j][a] \notin OnChain
    BY <2>1 DEF DeliveryInv, CallInv, OthersAreQuiet
  <2>3. QED
    BY <2>2 DEF Landed, Flying, OnChain
<1>2. QED
  BY <1>1, DeliveryInvariant, PTL

LEMMA OneLanded ==
  ASSUME NEW S, S \subseteq Attempts, \A a, b \in S : a = b
  PROVE  IsFiniteSet(S) /\ Cardinality(S) <= 1
<1>1. CASE S = {}
  BY <1>1, FS_EmptySet
<1>2. CASE S # {}
  <2>1. PICK a \in S : TRUE
    BY <1>2
  <2>2. S = {a}
    BY <2>1
  <2>3. IsFiniteSet({a}) /\ Cardinality({a}) = 1
    BY FS_Singleton
  <2>4. QED
    BY <2>2, <2>3
<1>3. QED
  BY <1>1, <1>2

\* However often a job is retried and however late its transactions land, a
\* footprint is counted once and a document lands once; a funding lands again
\* only if a call lost the answer of an earlier attempt.
THEOREM NothingLandsTwice == DeliverySpec => []LandsOnceUnlessLost
<1>1. DeliveryInv => LandsOnceUnlessLost
  <2> SUFFICES ASSUME DeliveryInv, NEW j \in Jobs
               PROVE  /\ Work[j].kind = "submit" =>
                           (j \in committed <=> Landed(j) # {})
                      /\ Cardinality(Landed(j)) > 1 =>
                           Work[j].kind = "fund" /\ j \in lost
    BY DEF LandsOnceUnlessLost
  <2>1. Work[j].kind = "submit" => (j \in committed <=> Landed(j) # {})
    BY DEF DeliveryInv, ChainInv, CommittedLanded
  <2>2. ASSUME Work[j].kind # "fund" \/ j \notin lost
        PROVE  \A a, b \in Landed(j) : a = b
    <3>1. CASE Work[j].kind # "fund"
      BY <3>1 DEF DeliveryInv, ChainInv, OnceOnChain
    <3>2. CASE j \notin lost
      BY <3>2 DEF DeliveryInv, CallInv, OthersAreQuiet, Landed, OnChain
    <3>3. QED
      BY <2>2, <3>1, <3>2
  <2>3. ASSUME Work[j].kind # "fund" \/ j \notin lost
        PROVE  ~(Cardinality(Landed(j)) > 1)
    <3>1. Landed(j) \subseteq Attempts
      BY DEF Landed
    <3>2. IsFiniteSet(Landed(j)) /\ Cardinality(Landed(j)) <= 1
      BY <2>2, <2>3, <3>1, OneLanded
    <3>3. Cardinality(Landed(j)) \in Nat
      BY <3>2, FS_CardinalityType
    <3>4. QED
      BY <3>2, <3>3
  <2>4. QED
    BY <2>1, <2>3
<1>2. QED
  BY <1>1, DeliveryInvariant, PTL

\* The treasury holds what was paid in less what is reserved, whatever is
\* retried, lands late or is paid in twice.
THEOREM TreasuryAlwaysBalances == DeliverySpec => []TreasuryBalances
<1>1. DeliveryInv => TreasuryBalances
  BY DEF DeliveryInv, ChainInv, Balanced, TreasuryBalances, PaidIn, UnitsOf,
         PendingLamports
<1>2. QED
  BY <1>1, DeliveryInvariant, PTL
=============================================================================
