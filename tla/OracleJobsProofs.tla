-------------------------- MODULE OracleJobsProofs --------------------------
(***************************************************************************)
(* For any number of jobs and runners, and any crashes and failed           *)
(* statements: a job has one executor, is locked exactly while running, and *)
(* stays settled.                                                          *)
(***************************************************************************)
EXTENDS OracleJobs, SequenceTheorems, TLAPS

\* What a step does to these variables does not depend on the others.
SharedTypeOK ==
  /\ attempts \in [Jobs -> Seq(AttemptStates)]
  /\ runnerLock \in Locks
  /\ faults \in 0 .. MaxFaults

\* A runner that executes works on a running job that no other runner has.
Exclusive ==
  /\ \A r \in Runners : runner[r].pc \in Busy =>
       runner[r].job \in Jobs /\ job[runner[r].job].status = "running"
  /\ \A r, s \in Runners :
       /\ runner[r].pc \in Busy /\ runner[s].pc \in Busy
       /\ runner[r].job = runner[s].job
       => r = s

\* The inductive invariant.
QueueInv == TypeOK /\ Exclusive /\ LockedWhileRunning

LEMMA InitQueue == Init => QueueInv
<1> SUFFICES ASSUME Init PROVE QueueInv
  OBVIOUS
<1>1. Idle \in RunnerRecords /\ Idle.pc \notin Busy
  BY JobsAssumption DEF Idle, RunnerRecords, Pcs, Busy, Outcomes
<1>2. << >> \in Seq(AttemptStates)
  BY EmptySeq
<1>3. TypeOK
  BY <1>1, <1>2, JobsAssumption DEF Init, TypeOK, JobRows, Statuses, Locks
<1>4. Exclusive /\ LockedWhileRunning
  BY <1>1 DEF Init, Exclusive, LockedWhileRunning
<1>5. QED
  BY <1>3, <1>4 DEF QueueInv

\* Finished, Thrown and Idle are runners without a job.
LEMMA FreedRunners ==
  ASSUME TypeOK, NEW r \in Runners
  PROVE  /\ Finished(r) \in RunnerRecords /\ Finished(r).pc \notin Busy
         /\ Thrown(r) \in RunnerRecords /\ Thrown(r).pc \notin Busy
         /\ Idle \in RunnerRecords /\ Idle.pc \notin Busy
<1>1. runner[r] \in RunnerRecords
  BY DEF TypeOK
<1>2. Idle \in RunnerRecords /\ Idle.pc \notin Busy
  BY JobsAssumption DEF Idle, RunnerRecords, Pcs, Busy, Outcomes
<1>3. /\ {"loop", "closing"} \subseteq Pcs \ Busy
      /\ 0 \in Nat /\ "ok" \in Outcomes
  BY DEF Pcs, Busy, Outcomes
<1>4. Finished(r) \in RunnerRecords /\ Finished(r).pc \notin Busy
  BY <1>1, <1>2, <1>3 DEF Finished, RunnerRecords
<1>5. Thrown(r) \in RunnerRecords /\ Thrown(r).pc \notin Busy
  BY <1>1, <1>2, <1>3 DEF Thrown, RunnerRecords
<1>6. QED
  BY <1>2, <1>4, <1>5

\* A claimed row was not running, so it had no lock and no executor.
LEMMA ClaimKeeps ==
  ASSUME QueueInv, SharedTypeOK', NEW r \in Runners,
         NEW j \in ClaimableJobs, ClaimRow(j),
         runner[r].pc \notin Busy,
         NEW q \in RunnerRecords,
         q.pc = "claimed", q.job = j, runner' = [runner EXCEPT ![r] = q]
  PROVE  QueueInv'
<1>1. j \in Jobs /\ job[j].status \in Claimable
  BY DEF ClaimableJobs
<1>2. job[j].status # "running"
  BY <1>1 DEF Claimable
<1>3. TypeOK'
  <2>1. job' \in [Jobs -> JobRows]
    BY <1>1 DEF QueueInv, TypeOK, ClaimRow, JobRows, Statuses
  <2>2. jobLock' \in [Jobs -> Locks]
    BY <1>1 DEF QueueInv, TypeOK, ClaimRow, Locks
  <2>3. QED
    BY <2>1, <2>2 DEF QueueInv, TypeOK, SharedTypeOK
<1>4. /\ job'[j].status = "running" /\ jobLock'[j] = "live"
      /\ \A i \in Jobs \ {j} : job'[i] = job[i] /\ jobLock'[i] = jobLock[i]
  BY <1>1 DEF QueueInv, TypeOK, ClaimRow
<1>5. runner'[r] = q /\ \A s \in Runners \ {r} : runner'[s] = runner[s]
  BY DEF QueueInv, TypeOK
<1>6. Exclusive'
  BY <1>1, <1>2, <1>4, <1>5 DEF QueueInv, Exclusive, Busy
<1>7. LockedWhileRunning'
  BY <1>1, <1>4 DEF QueueInv, LockedWhileRunning
<1>8. QED
  BY <1>3, <1>6, <1>7 DEF QueueInv

\* A step of one runner that touches no row keeps its job or gives it up.
LEMMA RunnerKeeps ==
  ASSUME QueueInv, SharedTypeOK', UNCHANGED <<job, jobLock>>,
         NEW r \in Runners,
         NEW q \in RunnerRecords,
         q.pc \in Busy => runner[r].pc \in Busy /\ q.job = runner[r].job,
         runner' = [runner EXCEPT ![r] = q]
  PROVE  QueueInv'
<1>1. runner'[r] = q /\ \A s \in Runners \ {r} : runner'[s] = runner[s]
  BY DEF QueueInv, TypeOK
<1>2. TypeOK'
  BY DEF QueueInv, TypeOK, SharedTypeOK
<1>3. Exclusive'
  BY <1>1 DEF QueueInv, Exclusive
<1>4. LockedWhileRunning'
  BY DEF QueueInv, LockedWhileRunning
<1>5. QED
  BY <1>2, <1>3, <1>4 DEF QueueInv

\* Recording the outcome ends the execution and drops the lock.
LEMMA RecordKeeps ==
  ASSUME QueueInv, SharedTypeOK', NEW r \in Runners,
         runner[r].pc = "returned",
         NEW row \in JobRows, row.status # "running",
         job' = [job EXCEPT ![runner[r].job] = row],
         jobLock' = [jobLock EXCEPT ![runner[r].job] = "none"],
         runner' = [runner EXCEPT ![r] = Finished(r)]
  PROVE  QueueInv'
<1> DEFINE j == runner[r].job
<1>1. j \in Jobs /\ job[j].status = "running"
  BY DEF QueueInv, Exclusive, Busy
<1>2. TypeOK'
  BY <1>1, FreedRunners DEF QueueInv, TypeOK, SharedTypeOK, Locks
<1>3. /\ job'[j] = row /\ jobLock'[j] = "none"
      /\ \A i \in Jobs \ {j} : job'[i] = job[i] /\ jobLock'[i] = jobLock[i]
  BY <1>1 DEF QueueInv, TypeOK
<1>4. /\ runner'[r].pc \notin Busy
      /\ \A s \in Runners \ {r} : runner'[s] = runner[s]
  BY FreedRunners DEF QueueInv, TypeOK
<1>5. \A s \in Runners \ {r} : runner[s].pc \in Busy => runner[s].job # j
  BY DEF QueueInv, Exclusive, Busy
<1>6. Exclusive'
  BY <1>3, <1>4, <1>5 DEF QueueInv, Exclusive
<1>7. LockedWhileRunning'
  BY <1>1, <1>3 DEF QueueInv, LockedWhileRunning
<1>8. QED
  BY <1>2, <1>6, <1>7 DEF QueueInv

\* An attempt is appended or the last one is overwritten; locks and counters
\* stay in their sets.
LEMMA SharedTyped == QueueInv /\ [Next]_jobsVars => SharedTypeOK'
<1> SUFFICES ASSUME QueueInv, [Next]_jobsVars PROVE SharedTypeOK'
  OBVIOUS
<1>1. SharedTypeOK /\ faults \in Int
  BY JobsAssumption DEF QueueInv, TypeOK, SharedTypeOK
<1>2. ASSUME NEW s \in Seq(AttemptStates), NEW a \in AttemptStates
      PROVE  /\ Append(s, a) \in Seq(AttemptStates)
             /\ s # << >> => [s EXCEPT ![Len(s)] = a] \in Seq(AttemptStates)
  <2>1. Append(s, a) \in Seq(AttemptStates)
    BY <1>2, AppendProperties
  <2>2. ASSUME s # << >>
        PROVE  [s EXCEPT ![Len(s)] = a] \in Seq(AttemptStates)
    <3>1. Len(s) \in 1 .. Len(s)
      BY <1>2, <2>2, EmptySeq
    <3>2. QED
      BY <1>2, <3>1, ExceptSeq
  <2>3. QED
    BY <2>1, <2>2
<1>3. ASSUME NEW j, NEW a \in AttemptStates
      PROVE  LastAttempt(j, a) \in [Jobs -> Seq(AttemptStates)]
  BY <1>1, <1>2, <1>3 DEF LastAttempt, SharedTypeOK
<1>4. ASSUME NEW r \in Runners, StartJobAttempt(r) PROVE SharedTypeOK'
  BY <1>1, <1>2, <1>4 DEF StartJobAttempt, SharedTypeOK, AttemptStates
<1>5. ASSUME NEW r \in Runners, CompleteOracleJob(r) PROVE SharedTypeOK'
  BY <1>1, <1>3, <1>5 DEF CompleteOracleJob, SharedTypeOK, AttemptStates
<1>6. ASSUME NEW r \in Runners, FailOracleJob(r) PROVE SharedTypeOK'
  <2>1. runner[r].outcome \in AttemptStates
    BY <1>6 DEF FailOracleJob, QueueInv, TypeOK, RunnerRecords, Outcomes,
                AttemptStates
  <2>2. QED
    BY <1>1, <1>3, <1>6, <2>1 DEF FailOracleJob, SharedTypeOK
<1>7. ASSUME \/ RunnerLockExpires
             \/ \E r \in Runners : RunDueJobs(r) \/ ReleaseRunnerLock(r)
      PROVE  SharedTypeOK'
  BY <1>1, <1>7 DEF RunnerLockExpires, RunDueJobs, ReleaseRunnerLock,
                    SharedTypeOK, Locks
<1>8. ASSUME \E r \in Runners : StatementThrows(r) \/ Crash(r)
      PROVE  SharedTypeOK'
  BY <1>1, <1>8, JobsAssumption DEF StatementThrows, Crash, SharedTypeOK
<1>9. ASSUME UNCHANGED <<attempts, runnerLock, faults>> PROVE SharedTypeOK'
  BY <1>1, <1>9 DEF SharedTypeOK
<1>10. QED
  BY <1>4, <1>5, <1>6, <1>7, <1>8, <1>9
  DEF Next, RunnerStep, jobsVars, Enqueue, BackoffEnds, JobLockExpires,
      ClaimPendingJob, LeaveLoop, ListJobAttempts, CallReturns, ExecuteJob

LEMMA QueuePreserved == QueueInv /\ [Next]_jobsVars => QueueInv'
<1> SUFFICES ASSUME QueueInv, [Next]_jobsVars PROVE QueueInv'
  OBVIOUS
<1>0. /\ SharedTypeOK'
      /\ \A r \in Runners : runner[r] \in RunnerRecords
      /\ \A r \in Runners : Idle \in RunnerRecords
  BY SharedTyped, FreedRunners DEF QueueInv, TypeOK
<1>1. ASSUME NEW j \in Jobs, Enqueue(j) PROVE QueueInv'
  <2>1. TypeOK'
    BY <1>0, <1>1 DEF Enqueue, QueueInv, TypeOK, SharedTypeOK, JobRows, Statuses,
                         Claimable
  <2>2. /\ job[j].status # "running" /\ job'[j].status # "running"
        /\ \A i \in Jobs \ {j} : job'[i] = job[i]
        /\ runner' = runner /\ jobLock' = jobLock
    BY <1>1 DEF Enqueue, QueueInv, TypeOK
  <2>3. Exclusive' /\ LockedWhileRunning'
    BY <2>2 DEF QueueInv, Exclusive, LockedWhileRunning
  <2>4. QED
    BY <2>1, <2>3 DEF QueueInv
<1>2. ASSUME NEW j \in Jobs, BackoffEnds(j) PROVE QueueInv'
  <2>1. TypeOK'
    BY <1>0, <1>2 DEF BackoffEnds, QueueInv, TypeOK, SharedTypeOK, JobRows
  <2>2. /\ \A i \in Jobs : job'[i].status = job[i].status
        /\ runner' = runner /\ jobLock' = jobLock
    BY <1>2 DEF BackoffEnds, QueueInv, TypeOK
  <2>3. Exclusive' /\ LockedWhileRunning'
    BY <2>2 DEF QueueInv, Exclusive, LockedWhileRunning
  <2>4. QED
    BY <2>1, <2>3 DEF QueueInv
<1>3. ASSUME NEW j \in Jobs, JobLockExpires(j) PROVE QueueInv'
  <2>1. TypeOK'
    BY <1>0, <1>3 DEF JobLockExpires, QueueInv, TypeOK, SharedTypeOK, Locks
  <2>2. /\ jobLock[j] # "none" /\ jobLock'[j] # "none"
        /\ \A i \in Jobs \ {j} : jobLock'[i] = jobLock[i]
        /\ runner' = runner /\ job' = job
    BY <1>3 DEF JobLockExpires, QueueInv, TypeOK
  <2>3. Exclusive' /\ LockedWhileRunning'
    BY <2>2 DEF QueueInv, Exclusive, LockedWhileRunning
  <2>4. QED
    BY <2>1, <2>3 DEF QueueInv
<1>4. ASSUME RunnerLockExpires PROVE QueueInv'
  BY <1>0, <1>4 DEF RunnerLockExpires, QueueInv, TypeOK, SharedTypeOK,
                    Exclusive, LockedWhileRunning
<1>5. ASSUME NEW r \in Runners, RunDueJobs(r) PROVE QueueInv'
  <2>1. [Idle EXCEPT !.pc = "loop", !.inLoop = TRUE] \in RunnerRecords
    BY <1>0 DEF RunnerRecords, Pcs
  <2>2. [Idle EXCEPT !.pc = "loop", !.inLoop = TRUE].pc \notin Busy
    BY DEF Idle, Busy
  <2>3. QED
    BY <1>0, <1>5, <2>1, <2>2, RunnerKeeps DEF RunDueJobs
<1>6. ASSUME NEW r \in Runners, ClaimPendingJob(r) PROVE QueueInv'
  <2>1. PICK j \in ClaimableJobs :
          /\ ClaimRow(j)
          /\ runner' = [runner EXCEPT ![r] =
               [@ EXCEPT !.pc = "claimed", !.job = j,
                         !.processed = runner[r].processed + 1]]
    BY <1>6 DEF ClaimPendingJob
  <2> DEFINE q == [runner[r] EXCEPT !.pc = "claimed", !.job = j,
                                    !.processed = runner[r].processed + 1]
  <2>2. j \in Jobs
    BY DEF ClaimableJobs
  <2>3. runner[r].processed + 1 \in 0 .. MaxJobs
    BY <1>0, <1>6, JobsAssumption DEF ClaimPendingJob, BelowMaxJobs,
                                      RunnerRecords
  <2>4. q \in RunnerRecords /\ q.pc = "claimed" /\ q.job = j
    BY <1>0, <2>2, <2>3 DEF RunnerRecords, Pcs, Busy
  <2>5. runner[r].pc \notin Busy
    BY <1>6 DEF ClaimPendingJob, Busy
  <2>6. runner' = [runner EXCEPT ![r] = q]
    BY <2>1
  <2>7. QED
    BY <1>0, <2>1, <2>4, <2>5, <2>6, ClaimKeeps
<1>7. ASSUME NEW r \in Runners, NEW j \in Jobs, ExecuteJob(r, j) PROVE QueueInv'
  <2> DEFINE q == [Idle EXCEPT !.pc = "claimed", !.job = j]
  <2>1. q \in RunnerRecords /\ q.pc = "claimed" /\ q.job = j
    BY <1>0 DEF RunnerRecords, Pcs, Busy
  <2>2. /\ j \in ClaimableJobs /\ ClaimRow(j) /\ runner[r].pc \notin Busy
        /\ runner' = [runner EXCEPT ![r] = q]
    BY <1>7 DEF ExecuteJob, Busy
  <2>3. QED
    BY <1>0, <2>1, <2>2, ClaimKeeps
<1>8. ASSUME NEW r \in Runners, LeaveLoop(r) PROVE QueueInv'
  <2> DEFINE q == [runner[r] EXCEPT !.pc = "closing"]
  <2>1. q \in RunnerRecords /\ q.pc \notin Busy
    BY <1>0 DEF RunnerRecords, Pcs, Busy
  <2>2. QED
    BY <1>0, <1>8, <2>1, RunnerKeeps DEF LeaveLoop
<1>9. ASSUME NEW r \in Runners, ReleaseRunnerLock(r) PROVE QueueInv'
  BY <1>0, <1>9, RunnerKeeps, FreedRunners DEF ReleaseRunnerLock, QueueInv
<1>10. ASSUME NEW r \in Runners, ListJobAttempts(r) PROVE QueueInv'
  <2> DEFINE n == Len(attempts[runner[r].job]) + 1
             q == [runner[r] EXCEPT !.pc = "counted", !.attempt = n]
  <2>1. runner[r].pc \in Busy /\ runner[r].job \in Jobs
    BY <1>10 DEF ListJobAttempts, QueueInv, Exclusive, Busy
  <2>2. n \in Nat
    BY <2>1, LenProperties DEF QueueInv, TypeOK
  <2>3. q \in RunnerRecords /\ q.job = runner[r].job
    BY <1>0, <2>2 DEF RunnerRecords, Pcs, Busy
  <2>4. runner' = [runner EXCEPT ![r] = q] /\ UNCHANGED <<job, jobLock>>
    BY <1>10 DEF ListJobAttempts
  <2>5. QED
    BY <1>0, <2>1, <2>3, <2>4, RunnerKeeps
<1>11. ASSUME NEW r \in Runners, StartJobAttempt(r) PROVE QueueInv'
  <2> DEFINE q == [runner[r] EXCEPT !.pc = "calling"]
  <2>1. q \in RunnerRecords /\ q.job = runner[r].job
    BY <1>0 DEF RunnerRecords, Pcs, Busy
  <2>2. runner[r].pc \in Busy
    BY <1>11 DEF StartJobAttempt, Busy
  <2>3. QED
    BY <1>0, <1>11, <2>1, <2>2, RunnerKeeps DEF StartJobAttempt
<1>12. ASSUME NEW r \in Runners, NEW o \in Outcomes, CallReturns(r, o)
       PROVE  QueueInv'
  <2> DEFINE q == [runner[r] EXCEPT !.pc = "returned", !.outcome = o]
  <2>1. q \in RunnerRecords /\ q.job = runner[r].job
    BY <1>0 DEF RunnerRecords, Pcs, Busy
  <2>2. runner' = [runner EXCEPT ![r] = q] /\ runner[r].pc \in Busy
    BY <1>12 DEF CallReturns, Busy
  <2>3. QED
    BY <1>0, <1>12, <2>1, <2>2, RunnerKeeps DEF CallReturns
<1>13. ASSUME NEW r \in Runners, CompleteOracleJob(r) PROVE QueueInv'
  <2> DEFINE row == [job[runner[r].job] EXCEPT !.status = "completed"]
  <2>1. runner[r].job \in Jobs
    BY <1>13 DEF CompleteOracleJob, QueueInv, Exclusive, Busy
  <2>2. row \in JobRows /\ row.status # "running"
    BY <2>1 DEF QueueInv, TypeOK, JobRows, Statuses, Settled
  <2>3. job' = [job EXCEPT ![runner[r].job] = row]
    BY <1>13 DEF CompleteOracleJob
  <2>4. QED
    BY <1>0, <1>13, <2>2, <2>3, RecordKeeps DEF CompleteOracleJob
<1>14. ASSUME NEW r \in Runners, FailOracleJob(r) PROVE QueueInv'
  <2> DEFINE row == [status |-> runner[r].outcome,
                     due |-> runner[r].outcome = "failed"]
  <2>1. row \in JobRows /\ row.status # "running"
    BY <1>0, <1>14 DEF FailOracleJob, RunnerRecords, JobRows, Statuses, Settled,
                       Claimable, Outcomes
  <2>2. QED
    BY <1>0, <1>14, <2>1, RecordKeeps DEF FailOracleJob, DropLock
<1>15. ASSUME NEW r \in Runners, StatementThrows(r) PROVE QueueInv'
  <2>1. UNCHANGED <<job, jobLock>>
    BY <1>15 DEF StatementThrows
  <2>2. CASE CompleteThrows(r)
    <3> DEFINE q == [runner[r] EXCEPT !.outcome = "failed"]
    <3>1. q \in RunnerRecords /\ q.job = runner[r].job /\ runner[r].pc \in Busy
      BY <1>0, <2>2 DEF CompleteThrows, RunnerRecords, Outcomes, Busy
    <3>2. QED
      BY <1>0, <2>1, <2>2, <3>1, RunnerKeeps DEF CompleteThrows
  <2>3. CASE ExecuteThrows(r)
    BY <1>0, <2>1, <2>3, RunnerKeeps, FreedRunners DEF ExecuteThrows, QueueInv
  <2>4. CASE LoopThrows(r)
    <3> DEFINE q == IF runner[r].pc = "loop"
                    THEN [runner[r] EXCEPT !.pc = "closing"] ELSE Idle
    <3>1. q \in RunnerRecords /\ q.pc \notin Busy
      BY <1>0, FreedRunners DEF RunnerRecords, Pcs, Busy, QueueInv
    <3>2. QED
      BY <1>0, <2>1, <2>4, <3>1, RunnerKeeps DEF LoopThrows
  <2>5. QED
    BY <1>15, <2>2, <2>3, <2>4 DEF StatementThrows
<1>16. ASSUME NEW r \in Runners, Crash(r) PROVE QueueInv'
  BY <1>0, <1>16, RunnerKeeps, FreedRunners DEF Crash, QueueInv
<1>17. ASSUME UNCHANGED jobsVars PROVE QueueInv'
  BY <1>17 DEF jobsVars, QueueInv, TypeOK, Exclusive, LockedWhileRunning
<1>18. QED
  BY <1>1, <1>2, <1>3, <1>4, <1>5, <1>6, <1>7, <1>8, <1>9, <1>10, <1>11,
     <1>12, <1>13, <1>14, <1>15, <1>16, <1>17 DEF Next, RunnerStep

\* The queue's rows, locks and runners have their types.
THEOREM QueueTyped == Spec => []TypeOK
<1>1. QueueInv => TypeOK
  BY DEF QueueInv
<1>2. QED
  BY <1>1, InitQueue, QueuePreserved, PTL DEF Spec

\* A job has a lock row (service_locks) exactly while its row is running.
THEOREM LockPerRunningJob == Spec => []LockedWhileRunning
<1>1. QueueInv => LockedWhileRunning
  BY DEF QueueInv
<1>2. QED
  BY <1>1, InitQueue, QueuePreserved, PTL DEF Spec

\* A claimed job has one executor, though runner locks expire and are deleted
\* by others, executeJob bypasses them and processes crash.
THEOREM SingleExecutor == Spec => []OneExecutor
<1>1. QueueInv => OneExecutor
  BY DEF QueueInv, Exclusive, LockedWhileRunning, OneExecutor, Executing
<1>2. QED
  BY <1>1, InitQueue, QueuePreserved, PTL DEF Spec

-----------------------------------------------------------------------------
\* The story of the attempts

\* A job that is claimed and not started has no attempt or a failed last one;
\* once started, its last attempt is the running one.
Started(s) == Len(s) > 0 /\ s[Len(s)] = "running"
Startable(s) == Len(s) > 0 => s[Len(s)] = "retryable"

StoryInv ==
  /\ AttemptsAgree
  /\ \A r \in Runners :
       /\ runner[r].pc \in {"claimed", "counted"} =>
            Startable(attempts[runner[r].job])
       /\ runner[r].pc \in {"calling", "returned"} =>
            Started(attempts[runner[r].job])

LEMMA ClaimedFits ==
  ASSUME NEW s \in Seq(AttemptStates), NEW status \in Claimable, Fits(s, status)
  PROVE  Fits(s, "running") /\ Startable(s)
<1>1. Len(s) \in Nat
  BY LenProperties
<1>2. QED
  BY <1>1 DEF Fits, Startable, Claimable, Settled

LEMMA StartedFits ==
  ASSUME NEW s \in Seq(AttemptStates), Fits(s, "running"), Startable(s)
  PROVE  LET t == Append(s, "running") IN Fits(t, "running") /\ Started(t)
<1> DEFINE t == Append(s, "running")
<1>1. /\ Len(s) \in Nat /\ Len(t) = Len(s) + 1
      /\ \A i \in 1 .. Len(s) : t[i] = s[i]
      /\ t[Len(s) + 1] = "running"
  BY LenProperties, AppendProperties DEF AttemptStates
<1> HIDE DEF t
<1>2. \A i \in 1 .. Len(s) : s[i] = "retryable"
  BY <1>1 DEF Fits, Startable
<1>3. Fits(t, "running") /\ Started(t)
  BY <1>1, <1>2 DEF Fits, Started, Settled
<1>4. QED
  BY <1>3 DEF t

LEMMA RecordedFits ==
  ASSUME NEW s \in Seq(AttemptStates), Fits(s, "running"), Started(s),
         NEW a \in Settled \cup {"retryable"}
  PROVE  s # << >> /\ Fits([s EXCEPT ![Len(s)] = a], a)
<1> DEFINE t == [s EXCEPT ![Len(s)] = a]
<1>1. Len(s) \in 1 .. Len(s)
  BY LenProperties DEF Started
<1>2. /\ Len(t) = Len(s)
      /\ \A i \in 1 .. Len(s) : t[i] = IF i = Len(s) THEN a ELSE s[i]
  BY <1>1, ExceptSeq DEF AttemptStates, Settled
<1> HIDE DEF t
<1>3. Fits(t, a)
  BY <1>1, <1>2 DEF Fits, Settled
<1>4. QED
  BY <1>1, <1>3, EmptySeq DEF t

LEMMA InitStory == Init => StoryInv
<1>1. << >> \in Seq(AttemptStates) /\ Len(<< >>) = 0
  BY EmptySeq
<1>2. QED
  BY <1>1 DEF Init, StoryInv, AttemptsAgree, Fits, Settled, Idle

\* A step that starts and records nothing.
LEMMA StoryKeeps ==
  ASSUME TypeOK, StoryInv, UNCHANGED attempts,
         \A j \in Jobs : job'[j].status = job[j].status,
         NEW r \in Runners, NEW q,
         q.pc \in Busy => q.job = runner[r].job,
         q.pc \in {"claimed", "counted"} =>
           runner[r].pc \in {"claimed", "counted"},
         q.pc \in {"calling", "returned"} =>
           runner[r].pc \in {"calling", "returned"},
         runner' = [runner EXCEPT ![r] = q]
  PROVE  StoryInv'
<1>1. runner'[r] = q /\ \A s \in Runners \ {r} : runner'[s] = runner[s]
  BY DEF TypeOK
<1>2. AttemptsAgree'
  BY DEF StoryInv, AttemptsAgree
<1>3. QED
  BY <1>1, <1>2 DEF StoryInv, Busy

\* The claimed row's last attempt, if any, failed retryably.
LEMMA StoryClaim ==
  ASSUME TypeOK, StoryInv, UNCHANGED attempts, NEW r \in Runners,
         NEW j \in ClaimableJobs, ClaimRow(j), NEW q,
         q.pc = "claimed", q.job = j, runner' = [runner EXCEPT ![r] = q]
  PROVE  StoryInv'
<1>1. j \in Jobs /\ job[j].status \in Claimable
  BY DEF ClaimableJobs
<1>2. /\ job'[j].status = "running"
      /\ \A i \in Jobs \ {j} : job'[i].status = job[i].status
  BY <1>1 DEF TypeOK, ClaimRow, JobRows
<1>3. Fits(attempts[j], "running") /\ Startable(attempts[j])
  BY <1>1, ClaimedFits DEF TypeOK, StoryInv, AttemptsAgree
<1>4. AttemptsAgree'
  BY <1>2, <1>3 DEF StoryInv, AttemptsAgree
<1>5. runner'[r] = q /\ \A s \in Runners \ {r} : runner'[s] = runner[s]
  BY DEF TypeOK
<1>6. QED
  BY <1>3, <1>4, <1>5 DEF StoryInv

\* Recording writes the same outcome to the row and to its last attempt.
LEMMA StoryRecord ==
  ASSUME QueueInv, StoryInv, NEW r \in Runners, runner[r].pc = "returned",
         NEW a \in Settled \cup {"retryable"},
         NEW row \in JobRows, row.status = a,
         job' = [job EXCEPT ![runner[r].job] = row],
         attempts' = LastAttempt(runner[r].job, a),
         runner' = [runner EXCEPT ![r] = Finished(r)]
  PROVE  StoryInv'
<1> DEFINE j == runner[r].job
           s == attempts[j]
<1>1. /\ j \in Jobs /\ job[j].status = "running" /\ s \in Seq(AttemptStates)
      /\ Fits(s, "running") /\ Started(s)
  BY DEF QueueInv, Exclusive, TypeOK, Busy, StoryInv, AttemptsAgree
<1>2. s # << >> /\ Fits([s EXCEPT ![Len(s)] = a], a)
  BY <1>1, RecordedFits
<1>3. /\ attempts'[j] = [s EXCEPT ![Len(s)] = a] /\ job'[j].status = a
      /\ \A i \in Jobs \ {j} : attempts'[i] = attempts[i] /\ job'[i] = job[i]
  BY <1>1, <1>2 DEF QueueInv, TypeOK, LastAttempt
<1>4. AttemptsAgree'
  <2> SUFFICES ASSUME NEW i \in Jobs
               PROVE  Fits(attempts'[i], job'[i].status)
    BY DEF AttemptsAgree
  <2>1. CASE i = j
    BY <1>2, <1>3, <2>1
  <2>2. CASE i # j
    BY <1>3, <2>2 DEF StoryInv, AttemptsAgree
  <2>3. QED
    BY <2>1, <2>2
<1>5. /\ runner'[r].pc \notin Busy
      /\ \A t \in Runners \ {r} : runner'[t] = runner[t]
  BY FreedRunners DEF QueueInv, TypeOK
<1>6. \A t \in Runners \ {r} : runner[t].pc \in Busy =>
         attempts'[runner[t].job] = attempts[runner[t].job]
  BY <1>3 DEF QueueInv, Exclusive, Busy
<1>7. QED
  BY <1>4, <1>5, <1>6 DEF StoryInv, Busy

LEMMA StoryPreserved == QueueInv /\ StoryInv /\ [Next]_jobsVars => StoryInv'
<1> SUFFICES ASSUME QueueInv, StoryInv, [Next]_jobsVars PROVE StoryInv'
  OBVIOUS
<1>0. TypeOK
  BY DEF QueueInv
<1>1. ASSUME NEW j \in Jobs, Enqueue(j) PROVE StoryInv'
  <2>1. /\ job[j].status = "absent" /\ job'[j].status = "pending"
        /\ \A i \in Jobs \ {j} : job'[i] = job[i]
        /\ UNCHANGED <<attempts, runner>>
    BY <1>0, <1>1 DEF Enqueue, TypeOK
  <2>2. Fits(attempts[j], "absent") => Fits(attempts[j], "pending")
    BY DEF Fits, Settled
  <2>3. AttemptsAgree'
    BY <2>1, <2>2 DEF StoryInv, AttemptsAgree
  <2>4. QED
    BY <2>1, <2>3 DEF StoryInv
<1>2. ASSUME UNCHANGED <<attempts, runner>>,
             \A j \in Jobs : job'[j].status = job[j].status
      PROVE  StoryInv'
  BY <1>2 DEF StoryInv, AttemptsAgree
<1>3. ASSUME NEW j \in Jobs, BackoffEnds(j) PROVE StoryInv'
  BY <1>0, <1>2, <1>3 DEF BackoffEnds, TypeOK, JobRows
<1>4. ASSUME \/ RunnerLockExpires
             \/ \E j \in Jobs : JobLockExpires(j)
             \/ UNCHANGED jobsVars
      PROVE  StoryInv'
  BY <1>2, <1>4 DEF RunnerLockExpires, JobLockExpires, jobsVars
<1>5. ASSUME NEW r \in Runners, UNCHANGED <<attempts, job>>,
             NEW q, q.pc \notin Busy, runner' = [runner EXCEPT ![r] = q]
      PROVE  StoryInv'
  BY <1>0, <1>5, StoryKeeps DEF Busy
<1>6. ASSUME NEW r \in Runners,
             RunDueJobs(r) \/ LeaveLoop(r) \/ ReleaseRunnerLock(r) \/ Crash(r)
      PROVE  StoryInv'
  <2>1. runner[r] \in RunnerRecords /\ Idle \in RunnerRecords
    BY <1>0, FreedRunners DEF TypeOK
  <2>2. /\ [runner[r] EXCEPT !.pc = "closing"].pc \notin Busy
        /\ [Idle EXCEPT !.pc = "loop", !.inLoop = TRUE].pc \notin Busy
        /\ Idle.pc \notin Busy
    BY <2>1 DEF RunnerRecords, Busy, Idle
  <2>3. QED
    BY <1>5, <1>6, <2>2 DEF RunDueJobs, LeaveLoop, ReleaseRunnerLock, Crash
<1>7. ASSUME NEW r \in Runners, ClaimPendingJob(r) PROVE StoryInv'
  <2>1. PICK j \in ClaimableJobs :
          /\ ClaimRow(j)
          /\ runner' = [runner EXCEPT ![r] =
               [@ EXCEPT !.pc = "claimed", !.job = j,
                         !.processed = runner[r].processed + 1]]
    BY <1>7 DEF ClaimPendingJob
  <2> DEFINE q == [runner[r] EXCEPT !.pc = "claimed", !.job = j,
                                    !.processed = runner[r].processed + 1]
  <2>2. q.pc = "claimed" /\ q.job = j
    BY <1>0 DEF TypeOK, RunnerRecords
  <2>3. runner' = [runner EXCEPT ![r] = q] /\ UNCHANGED attempts
    BY <1>7, <2>1 DEF ClaimPendingJob
  <2>4. QED
    BY <1>0, <2>1, <2>2, <2>3, StoryClaim
<1>8. ASSUME NEW r \in Runners, NEW j \in Jobs, ExecuteJob(r, j) PROVE StoryInv'
  <2> DEFINE q == [Idle EXCEPT !.pc = "claimed", !.job = j]
  <2>1. q.pc = "claimed" /\ q.job = j
    BY DEF Idle
  <2>2. /\ j \in ClaimableJobs /\ ClaimRow(j) /\ UNCHANGED attempts
        /\ runner' = [runner EXCEPT ![r] = q]
    BY <1>8 DEF ExecuteJob
  <2>3. QED
    BY <1>0, <2>1, <2>2, StoryClaim
<1>9. ASSUME NEW r \in Runners, ListJobAttempts(r) PROVE StoryInv'
  <2> DEFINE q == [runner[r] EXCEPT !.pc = "counted",
                     !.attempt = Len(attempts[runner[r].job]) + 1]
  <2>1. q.pc = "counted" /\ q.job = runner[r].job /\ runner[r].pc = "claimed"
    BY <1>0, <1>9 DEF ListJobAttempts, TypeOK, RunnerRecords
  <2>2. runner' = [runner EXCEPT ![r] = q] /\ UNCHANGED <<attempts, job>>
    BY <1>9 DEF ListJobAttempts
  <2>3. QED
    BY <1>0, <2>1, <2>2, StoryKeeps
<1>10. ASSUME NEW r \in Runners, StartJobAttempt(r) PROVE StoryInv'
  <2> DEFINE j == runner[r].job
             s == attempts[j]
             t == Append(s, "running")
  <2>1. /\ j \in Jobs /\ job[j].status = "running" /\ s \in Seq(AttemptStates)
        /\ Fits(s, "running") /\ Startable(s)
    BY <1>0, <1>10 DEF StartJobAttempt, QueueInv, Exclusive, TypeOK, Busy,
                       StoryInv, AttemptsAgree
  <2>2. Fits(t, "running") /\ Started(t)
    BY <2>1, StartedFits
  <2>3. /\ attempts'[j] = t /\ job' = job
        /\ \A i \in Jobs \ {j} : attempts'[i] = attempts[i]
    BY <1>0, <1>10, <2>1 DEF StartJobAttempt, TypeOK
  <2>4. AttemptsAgree'
    BY <2>1, <2>2, <2>3 DEF StoryInv, AttemptsAgree
  <2>5. /\ runner'[r].pc = "calling" /\ runner'[r].job = j
        /\ \A i \in Runners \ {r} : runner'[i] = runner[i]
    BY <1>0, <1>10 DEF StartJobAttempt, TypeOK, RunnerRecords
  <2>6. \A i \in Runners \ {r} : runner[i].pc \in Busy =>
           attempts'[runner[i].job] = attempts[runner[i].job]
    BY <1>10, <2>3 DEF StartJobAttempt, QueueInv, Exclusive, Busy
  <2>7. Started(attempts'[runner'[r].job])
    BY <2>2, <2>3, <2>5
  <2> HIDE DEF j, s, t
  <2>8. QED
    BY <2>4, <2>5, <2>6, <2>7 DEF StoryInv, Busy
<1>11. ASSUME NEW r \in Runners, NEW o \in Outcomes, CallReturns(r, o)
       PROVE  StoryInv'
  <2> DEFINE q == [runner[r] EXCEPT !.pc = "returned", !.outcome = o]
  <2>1. q.pc = "returned" /\ q.job = runner[r].job /\ runner[r].pc = "calling"
    BY <1>0, <1>11 DEF CallReturns, TypeOK, RunnerRecords
  <2>2. runner' = [runner EXCEPT ![r] = q] /\ UNCHANGED <<attempts, job>>
    BY <1>11 DEF CallReturns
  <2>3. QED
    BY <1>0, <2>1, <2>2, StoryKeeps
<1>12. ASSUME NEW r \in Runners, CompleteOracleJob(r) PROVE StoryInv'
  <2> DEFINE row == [job[runner[r].job] EXCEPT !.status = "completed"]
  <2>1. runner[r].job \in Jobs
    BY <1>12 DEF CompleteOracleJob, QueueInv, Exclusive, Busy
  <2>2. row \in JobRows /\ row.status = "completed"
    BY <1>0, <2>1 DEF TypeOK, JobRows, Statuses, Settled
  <2>3. job' = [job EXCEPT ![runner[r].job] = row]
    BY <1>12 DEF CompleteOracleJob
  <2>4. "completed" \in Settled \cup {"retryable"}
    BY DEF Settled
  <2>5. QED
    BY <1>12, <2>2, <2>3, <2>4, StoryRecord DEF CompleteOracleJob
<1>13. ASSUME NEW r \in Runners, FailOracleJob(r) PROVE StoryInv'
  <2> DEFINE a == runner[r].outcome
             row == [status |-> a, due |-> a = "failed"]
  <2>1. a \in Settled \cup {"retryable"}
    BY <1>0, <1>13 DEF FailOracleJob, TypeOK, RunnerRecords, Outcomes, Settled
  <2>2. row \in JobRows /\ row.status = a
    BY <2>1 DEF JobRows, Statuses, Claimable
  <2>3. QED
    BY <1>13, <2>1, <2>2, StoryRecord DEF FailOracleJob
<1>14. ASSUME NEW r \in Runners, StatementThrows(r) PROVE StoryInv'
  <2>1. UNCHANGED <<attempts, job>>
    BY <1>14 DEF StatementThrows
  <2>2. CASE CompleteThrows(r)
    <3> DEFINE q == [runner[r] EXCEPT !.outcome = "failed"]
    <3>1. q.pc = "returned" /\ q.job = runner[r].job
      BY <1>0, <2>2 DEF CompleteThrows, TypeOK, RunnerRecords
    <3>2. runner[r].pc = "returned" /\ runner' = [runner EXCEPT ![r] = q]
      BY <2>2 DEF CompleteThrows
    <3>3. QED
      BY <1>0, <2>1, <3>1, <3>2, StoryKeeps
  <2>3. CASE ExecuteThrows(r)
    BY <1>0, <1>5, <2>1, <2>3, FreedRunners DEF ExecuteThrows
  <2>4. CASE LoopThrows(r)
    <3> DEFINE q == IF runner[r].pc = "loop"
                    THEN [runner[r] EXCEPT !.pc = "closing"] ELSE Idle
    <3>1. q.pc \notin Busy
      BY <1>0 DEF TypeOK, RunnerRecords, Busy, Idle
    <3>2. runner' = [runner EXCEPT ![r] = q]
      BY <2>4 DEF LoopThrows
    <3>3. QED
      BY <1>5, <2>1, <3>1, <3>2
  <2>5. QED
    BY <1>14, <2>2, <2>3, <2>4 DEF StatementThrows
<1>15. QED
  BY <1>1, <1>3, <1>4, <1>6, <1>7, <1>8, <1>9, <1>10, <1>11, <1>12, <1>13,
     <1>14 DEF Next, RunnerStep

\* Only the executor of a running job writes its row and attempts.
LEMMA OnlyRunningWritten ==
  ASSUME QueueInv, [Next]_jobsVars, NEW j \in Jobs, job[j].status \in Settled
  PROVE  job'[j].status = job[j].status /\ attempts'[j] = attempts[j]
<1>1. job[j].status \notin {"absent", "pending", "running", "retryable"}
  BY DEF Settled
<1>2. TypeOK
  BY DEF QueueInv
<1>3. ASSUME NEW i \in Jobs, Enqueue(i) \/ BackoffEnds(i)
      PROVE  job'[j].status = job[j].status /\ attempts'[j] = attempts[j]
  BY <1>1, <1>2, <1>3 DEF Enqueue, BackoffEnds, TypeOK
<1>4. ASSUME NEW i \in ClaimableJobs, ClaimRow(i)
      PROVE  job'[j].status = job[j].status
  BY <1>1, <1>2, <1>4 DEF ClaimableJobs, Claimable, ClaimRow, TypeOK
<1>5. ASSUME NEW r \in Runners,
             StartJobAttempt(r) \/ CompleteOracleJob(r) \/ FailOracleJob(r)
      PROVE  job'[j].status = job[j].status /\ attempts'[j] = attempts[j]
  <2>1. runner[r].job # j
    BY <1>1, <1>5 DEF StartJobAttempt, CompleteOracleJob, FailOracleJob, Busy,
                      QueueInv, Exclusive
  <2>2. QED
    BY <1>2, <1>5, <2>1 DEF StartJobAttempt, CompleteOracleJob, FailOracleJob,
                            LastAttempt, TypeOK
<1>6. ASSUME UNCHANGED <<job, attempts>>
      PROVE  job'[j].status = job[j].status /\ attempts'[j] = attempts[j]
  BY <1>6
<1>7. QED
  BY <1>3, <1>4, <1>5, <1>6
  DEF Next, RunnerStep, jobsVars, JobLockExpires, RunnerLockExpires, RunDueJobs,
      ClaimPendingJob, LeaveLoop, ReleaseRunnerLock, ExecuteJob,
      ListJobAttempts, CallReturns, StatementThrows, Crash

\* The attempts of every job fit its status (job_attempts against oracle_jobs).
THEOREM AttemptsTellTheStory == Spec => []AttemptsAgree
<1>1. StoryInv => AttemptsAgree
  BY DEF StoryInv
<1>2. QED
  BY <1>1, InitQueue, QueuePreserved, InitStory, StoryPreserved, PTL DEF Spec

\* Neither a late runner nor a crash changes a completed or failed job.
THEOREM SettledStays == Spec => SettledForGood
<1>1. QueueInv /\ [Next]_jobsVars =>
        [\A j \in Jobs : job[j].status \in Settled =>
           job'[j].status = job[j].status /\ attempts'[j] = attempts[j]]_jobsVars
  BY OnlyRunningWritten
<1>2. QED
  BY <1>1, InitQueue, QueuePreserved, PTL DEF Spec, SettledForGood
=============================================================================
