----------------------------- MODULE OracleJobs -----------------------------
(***************************************************************************)
(* The oracle job queue: the SQLite state store (backend/src/db/index.ts)   *)
(* and the OracleRetryRunners of the worker processes that drain it         *)
(* (backend/src/modules/jobs/runner.ts).                                   *)
(*                                                                         *)
(* A step is one SQL statement or transaction, or one awaited call that     *)
(* returns: everything else of a runner happens between two of them.        *)
(*   job         the rows of oracle_jobs                                   *)
(*   attempts    the outcomes of a job's rows in job_attempts              *)
(*   jobLock     the row oracle-job:<id> of service_locks                  *)
(*   runnerLock  the row oracle-job-runner of service_locks                *)
(*   runner      what a runner is doing, lost when its process dies         *)
(*   faults      crashes and failed statements so far                      *)
(*                                                                         *)
(* Time is abstracted: a row is or is not due (run_after_ms <= now), a lock *)
(* is live or expired (expires_at_ms <= now), and time passing makes rows   *)
(* due and locks expire.  Every runner has the same owner id and the code   *)
(* reads no owner, so locks have none.                                     *)
(***************************************************************************)
EXTENDS Integers, Sequences, FiniteSets

CONSTANTS
  LastJob,      \* jobs have the ids 1 .. LastJob, in order of insertion
  Runners,      \* runners, each in a process of its own
  MaxJobs,      \* maxJobs of runDueJobs
  MaxAttempts,  \* bound: a job's last attempt does not fail retryably
  MaxFaults     \* bound on crashes and failed statements

ASSUME JobsAssumption ==
  /\ LastJob \in Nat
  /\ MaxJobs \in Nat \ {0}
  /\ MaxAttempts \in Nat \ {0}
  /\ MaxFaults \in Nat

VARIABLES job, attempts, jobLock, runnerLock, runner, faults

jobsVars == <<job, attempts, jobLock, runnerLock, runner, faults>>

-----------------------------------------------------------------------------
Jobs == 1 .. LastJob
NoJob == 0

Claimable == {"pending", "retryable"}
Settled   == {"completed", "failed"}
Statuses  == Claimable \cup Settled \cup {"absent", "running"}
Locks     == {"none", "live", "expired"}
Outcomes  == {"ok", "retryable", "failed"}

\* idle      no call in progress
\* loop      in the while loop of runDueJobs, holding what it believes is the
\*           runner lock
\* claimed   has claimed a job
\* counted   has read the job's attempts and derived the next number
\* calling   awaits the dispatched call
\* returned  the call ended with `outcome', nothing is recorded yet
\* closing   about to release the runner lock
Busy == {"claimed", "counted", "calling", "returned"}
Pcs  == Busy \cup {"idle", "loop", "closing"}

JobRows == [status : Statuses, due : BOOLEAN]
AttemptStates == {"running", "completed", "retryable", "failed"}
RunnerRecords == [pc : Pcs, job : Jobs \cup {NoJob}, inLoop : BOOLEAN,
                  processed : 0 .. MaxJobs, attempt : Nat, outcome : Outcomes]

Idle == [pc |-> "idle", job |-> NoJob, inLoop |-> FALSE, processed |-> 0,
         attempt |-> 0, outcome |-> "ok"]

Init ==
  /\ job = [j \in Jobs |-> [status |-> "absent", due |-> FALSE]]
  /\ attempts = [j \in Jobs |-> << >>]
  /\ jobLock = [j \in Jobs |-> "none"]
  /\ runnerLock = "none"
  /\ runner = [r \in Runners |-> Idle]
  /\ faults = 0

-----------------------------------------------------------------------------
\* The world: enqueued work and time

\* INSERT with a fresh id; run_after_ms is the time of the insertion.
Enqueue(j) ==
  /\ job[j].status = "absent"
  /\ \A i \in 1 .. j - 1 : job[i].status # "absent"
  /\ job' = [job EXCEPT ![j] = [status |-> "pending", due |-> TRUE]]
  /\ UNCHANGED <<attempts, jobLock, runnerLock, runner, faults>>

BackoffEnds(j) ==
  /\ job[j].status = "retryable" /\ ~job[j].due
  /\ job' = [job EXCEPT ![j].due = TRUE]
  /\ UNCHANGED <<attempts, jobLock, runnerLock, runner, faults>>

JobLockExpires(j) ==
  /\ jobLock[j] = "live"
  /\ jobLock' = [jobLock EXCEPT ![j] = "expired"]
  /\ UNCHANGED <<job, attempts, runnerLock, runner, faults>>

RunnerLockExpires ==
  /\ runnerLock = "live"
  /\ runnerLock' = "expired"
  /\ UNCHANGED <<job, attempts, jobLock, runner, faults>>

-----------------------------------------------------------------------------
\* Claiming

\* Mutant: a row is claimed without looking at its status.
ClaimableInAnyStatus == {j \in Jobs : job[j].status # "absent" /\ job[j].due}
ClaimableJobs == {j \in Jobs : job[j].status \in Claimable /\ job[j].due}

\* Mutant: an expired lock is not deleted first.
AcquirableIfAbsent(lock) == lock = "none"
\* deleteExpiredLock and insertLock succeed together.
Acquirable(lock) == lock # "live"

\* Mutant: one job too many.
BelowOrAtMaxJobs(r) == runner[r].processed <= MaxJobs
BelowMaxJobs(r) == runner[r].processed < MaxJobs

\* deleteExpiredLock, insertLock and updateClaimedJob for a claimable row; the
\* lock's INSERT fails if a live one is there.
ClaimRow(j) ==
  /\ Acquirable(jobLock[j])
  /\ jobLock' = [jobLock EXCEPT ![j] = "live"]
  /\ job' = [job EXCEPT ![j].status = "running"]

\* runDueJobs up to the loop: acquireServiceLock deletes an expired lock.
RunDueJobs(r) ==
  /\ runner[r].pc = "idle"
  /\ Acquirable(runnerLock)
  /\ runnerLock' = "live"
  /\ runner' = [runner EXCEPT ![r] = [Idle EXCEPT !.pc = "loop",
                                                  !.inLoop = TRUE]]
  /\ UNCHANGED <<job, attempts, jobLock, faults>>

\* claimPendingJob takes the oldest due row.
ClaimPendingJob(r) ==
  /\ runner[r].pc = "loop"
  /\ BelowMaxJobs(r)
  /\ \E j \in ClaimableJobs :
       /\ \A i \in ClaimableJobs : j <= i
       /\ ClaimRow(j)
       /\ runner' = [runner EXCEPT ![r] =
            [@ EXCEPT !.pc = "claimed", !.job = j,
                      !.processed = runner[r].processed + 1]]
  /\ UNCHANGED <<attempts, runnerLock, faults>>

\* The loop ends: maxJobs are processed, no row is due, or the oldest due row
\* has a live lock.
LeaveLoop(r) ==
  /\ runner[r].pc = "loop"
  /\ \/ ~BelowMaxJobs(r)
     \/ ClaimableJobs = {}
     \/ \E j \in ClaimableJobs : /\ \A i \in ClaimableJobs : j <= i
                                 /\ ~Acquirable(jobLock[j])
  /\ runner' = [runner EXCEPT ![r].pc = "closing"]
  /\ UNCHANGED <<job, attempts, jobLock, runnerLock, faults>>

\* The finally of runDueJobs: releaseLock deletes the row whoever inserted it.
ReleaseRunnerLock(r) ==
  /\ runner[r].pc = "closing"
  /\ runnerLock' = "none"
  /\ runner' = [runner EXCEPT ![r] = Idle]
  /\ UNCHANGED <<job, attempts, jobLock, faults>>

\* executeJob claims a given row without the runner lock.
ExecuteJob(r, j) ==
  /\ runner[r].pc = "idle"
  /\ j \in ClaimableJobs
  /\ ClaimRow(j)
  /\ runner' = [runner EXCEPT ![r] = [Idle EXCEPT !.pc = "claimed", !.job = j]]
  /\ UNCHANGED <<attempts, runnerLock, faults>>

-----------------------------------------------------------------------------
\* Executing a claimed job

\* Where #executeClaimedJob goes when it returns (to the loop) or throws (out
\* of the loop); executeJob is over either way.
Finished(r) ==
  IF runner[r].inLoop
  THEN [runner[r] EXCEPT !.pc = "loop", !.job = NoJob, !.attempt = 0,
                         !.outcome = "ok"]
  ELSE Idle
Thrown(r) ==
  IF runner[r].inLoop
  THEN [runner[r] EXCEPT !.pc = "closing", !.job = NoJob, !.attempt = 0,
                         !.outcome = "ok"]
  ELSE Idle

\* listJobAttempts(id).length + 1
ListJobAttempts(r) ==
  /\ runner[r].pc = "claimed"
  /\ runner' = [runner EXCEPT ![r] =
       [@ EXCEPT !.pc = "counted",
                 !.attempt = Len(attempts[runner[r].job]) + 1]]
  /\ UNCHANGED <<job, attempts, jobLock, runnerLock, faults>>

\* The INSERT of startJobAttempt; the attempt's number is new.
StartJobAttempt(r) ==
  LET j == runner[r].job
  IN
  /\ runner[r].pc = "counted"
  /\ runner[r].attempt = Len(attempts[j]) + 1
  /\ attempts' = [attempts EXCEPT ![j] = Append(@, "running")]
  /\ runner' = [runner EXCEPT ![r].pc = "calling"]
  /\ UNCHANGED <<job, jobLock, runnerLock, faults>>

\* The dispatched call returns a signature or throws, and the error is
\* classified.  Nothing in the code bounds the retries; MaxAttempts does here.
CallReturns(r, outcome) ==
  /\ runner[r].pc = "calling"
  /\ outcome = "retryable" => runner[r].attempt < MaxAttempts
  /\ runner' = [runner EXCEPT ![r] =
       [@ EXCEPT !.pc = "returned", !.outcome = outcome]]
  /\ UNCHANGED <<job, attempts, jobLock, runnerLock, faults>>

\* Mutant: the first attempt is overwritten instead of the last.
FirstAttempt(j, outcome) ==
  [attempts EXCEPT ![j] = IF @ = << >> THEN @ ELSE [@ EXCEPT ![1] = outcome]]

\* updateAttempt writes the row with the highest attempt number.
LastAttempt(j, outcome) ==
  [attempts EXCEPT ![j] =
     IF @ = << >> THEN @ ELSE [@ EXCEPT ![Len(@)] = outcome]]

\* completeOracleJob
CompleteOracleJob(r) ==
  LET j == runner[r].job
  IN
  /\ runner[r].pc = "returned" /\ runner[r].outcome = "ok"
  /\ jobLock[j] # "none"
  /\ job' = [job EXCEPT ![j].status = "completed"]
  /\ attempts' = LastAttempt(j, "completed")
  /\ jobLock' = [jobLock EXCEPT ![j] = "none"]
  /\ runner' = [runner EXCEPT ![r] = Finished(r)]
  /\ UNCHANGED <<runnerLock, faults>>

\* Mutant: a failed job keeps its lock.
FailKeepsLock(j) == jobLock
\* deleteLock of failOracleJob
DropLock(j) == [jobLock EXCEPT ![j] = "none"]

\* failOracleJob: retryable after a backoff, or failed.
FailOracleJob(r) ==
  LET j == runner[r].job
  IN
  /\ runner[r].pc = "returned" /\ runner[r].outcome # "ok"
  /\ jobLock[j] # "none"
  /\ job' = [job EXCEPT ![j] = [status |-> runner[r].outcome,
                                due |-> runner[r].outcome = "failed"]]
  /\ attempts' = LastAttempt(j, runner[r].outcome)
  /\ jobLock' = DropLock(j)
  /\ runner' = [runner EXCEPT ![r] = Finished(r)]
  /\ UNCHANGED <<runnerLock, faults>>

-----------------------------------------------------------------------------
\* Faults

\* The code itself throws: the lock is missing, or the attempt number taken.
Inconsistent(r) ==
  \/ runner[r].pc = "returned" /\ jobLock[runner[r].job] = "none"
  \/ /\ runner[r].pc = "counted"
     /\ runner[r].attempt # Len(attempts[runner[r].job]) + 1

\* completeOracleJob throws in the try block: the catch block classifies the
\* error as not retryable.
CompleteThrows(r) ==
  /\ runner[r].pc = "returned" /\ runner[r].outcome = "ok"
  /\ runner' = [runner EXCEPT ![r].outcome = "failed"]

\* startJobAttempt throws outside the try block, failOracleJob in the catch
\* block: the job stays running.
ExecuteThrows(r) ==
  /\ \/ runner[r].pc \in {"claimed", "counted"}
     \/ runner[r].pc = "returned" /\ runner[r].outcome # "ok"
  /\ runner' = [runner EXCEPT ![r] = Thrown(r)]

\* claimPendingJob throws out of the loop, releaseLock at its end.
LoopThrows(r) ==
  /\ runner[r].pc \in {"loop", "closing"}
  /\ runner' = [runner EXCEPT ![r] =
        IF @.pc = "loop" THEN [@ EXCEPT !.pc = "closing"] ELSE Idle]

\* A statement throws, because of the data or because the database stays locked
\* beyond busy_timeout.
StatementThrows(r) ==
  /\ Inconsistent(r) \/ faults < MaxFaults
  /\ faults' = IF Inconsistent(r) THEN faults ELSE faults + 1
  /\ CompleteThrows(r) \/ ExecuteThrows(r) \/ LoopThrows(r)
  /\ UNCHANGED <<job, attempts, jobLock, runnerLock>>

\* The process of r dies and is started again.
Crash(r) ==
  /\ faults < MaxFaults
  /\ faults' = faults + 1
  /\ runner[r].pc # "idle"
  /\ runner' = [runner EXCEPT ![r] = Idle]
  /\ UNCHANGED <<job, attempts, jobLock, runnerLock>>

-----------------------------------------------------------------------------
RunnerStep(r) ==
  \/ ClaimPendingJob(r)
  \/ LeaveLoop(r)
  \/ ReleaseRunnerLock(r)
  \/ ListJobAttempts(r)
  \/ StartJobAttempt(r)
  \/ \E o \in Outcomes : CallReturns(r, o)
  \/ CompleteOracleJob(r)
  \/ FailOracleJob(r)

Next ==
  \/ \E j \in Jobs : Enqueue(j) \/ BackoffEnds(j) \/ JobLockExpires(j)
  \/ RunnerLockExpires
  \/ \E r \in Runners : RunnerStep(r)
  \/ \E r \in Runners : RunDueJobs(r)
  \/ \E r \in Runners, j \in Jobs : ExecuteJob(r, j)
  \/ \E r \in Runners : StatementThrows(r) \/ Crash(r)

Spec == Init /\ [][Next]_jobsVars

\* A runner in a call goes on (every RPC call times out), every worker polls
\* (setInterval), and time passes.  Nothing makes anyone call executeJob, and
\* nothing makes faults happen.
Fairness ==
  /\ \A r \in Runners : WF_jobsVars(RunnerStep(r)) /\ WF_jobsVars(RunDueJobs(r))
  /\ \A j \in Jobs : WF_jobsVars(BackoffEnds(j))
  /\ WF_jobsVars(RunnerLockExpires)

FairSpec == Spec /\ Fairness

-----------------------------------------------------------------------------
\* Type invariant
TypeOK ==
  /\ job \in [Jobs -> JobRows]
  /\ attempts \in [Jobs -> Seq(AttemptStates)]
  /\ jobLock \in [Jobs -> Locks]
  /\ runnerLock \in Locks
  /\ runner \in [Runners -> RunnerRecords]
  /\ faults \in 0 .. MaxFaults

\* The runners that are executing job j.
Executing(j) == {r \in Runners : runner[r].pc \in Busy /\ runner[r].job = j}

\* A job is executed by at most one runner at a time, though runner locks
\* expire, are deleted by others and are bypassed by executeJob, and while it
\* is the row is running and locked, so complete and fail find their lock.
OneExecutor ==
  \A r \in Runners : runner[r].pc \in Busy =>
    /\ Executing(runner[r].job) = {r}
    /\ job[runner[r].job].status = "running"
    /\ jobLock[runner[r].job] # "none"

\* A job has a lock row exactly while it is running, so a due row is never
\* skipped for its lock (which would end the loop before younger rows).
LockedWhileRunning ==
  \A j \in Jobs : jobLock[j] # "none" <=> job[j].status = "running"

\* A story s of attempts fits a status: every attempt before the last failed
\* retryably, and the last agrees with the status.
Fits(s, status) ==
  LET n == Len(s)
  IN  /\ \A i \in 1 .. n - 1 : s[i] = "retryable"
      /\ status \in {"absent", "pending"} => n = 0
      /\ status \in Settled \cup {"retryable"} => n > 0 /\ s[n] = status
      /\ n > 0 /\ status = "running" => s[n] \in {"running", "retryable"}

\* The attempts of every job fit its status.
AttemptsAgree == \A j \in Jobs : Fits(attempts[j], job[j].status)

\* A settled job stays as it is: no late runner overwrites it.
SettledForGood ==
  [][\A j \in Jobs : job[j].status \in Settled =>
       job'[j].status = job[j].status /\ attempts'[j] = attempts[j]]_jobsVars

\* Whatever happens to the runners, a job that waits is claimed: a crash holds
\* up the queue only until the runner lock expires.
WaitingJobsClaimed ==
  \A j \in Jobs : job[j].status \in Claimable ~> job[j].status = "running"

\* Every job is completed or failed in the end.
EveryJobSettles ==
  \A j \in Jobs : job[j].status = "pending" ~> job[j].status \in Settled
=============================================================================
