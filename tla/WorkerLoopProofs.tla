-------------------------- MODULE WorkerLoopProofs --------------------------
(***************************************************************************)
(* What OracleJobsProofs shows of the queue holds with worker processes that *)
(* poll it, whatever is started, stopped, closed under the calls in flight,  *)
(* shut down or crashes, and for any number of processes.                  *)
(***************************************************************************)
EXTENDS WorkerLoop, OracleJobsProofs

\* A call of a loop is one it remembers, so a stop can wait for it; a closed
\* process has no timer and starts no call.
LoopRemembers ==
  /\ timer \subseteq Processes /\ timer \cap closed = {}
  /\ \A p \in Processes :
       runner[<<p, "tick">>].pc # "idle" => p \in tickInFlight

\* The inductive invariant.
WorkerInv == QueueInv /\ StoryInv /\ LoopRemembers

\* A process dies with both of its calls.
LEMMA EndsKeepQueue ==
  ASSUME QueueInv, StoryInv, NEW p \in Processes, ProcessEnds(p)
  PROVE  /\ QueueInv' /\ StoryInv'
         /\ UNCHANGED <<job, attempts>>
<1>1. /\ UNCHANGED <<job, attempts, jobLock, runnerLock>>
      /\ faults' \in 0 .. MaxFaults
      /\ \A r \in Runners : runner'[r] = runner[r] \/ runner'[r] = Idle
      /\ runner' \in [Runners -> RunnerRecords]
  <2>1. faults' \in 0 .. MaxFaults
    BY JobsAssumption DEF ProcessEnds, QueueInv, TypeOK
  <2>2. \A r \in Runners : Idle \in RunnerRecords
    BY FreedRunners DEF QueueInv
  <2>3. QED
    BY <2>1, <2>2 DEF ProcessEnds, QueueInv, TypeOK
<1>2. Idle.pc = "idle"
  BY DEF Idle
<1>3. TypeOK'
  BY <1>1 DEF QueueInv, TypeOK
<1>4. \A r \in Runners : runner'[r].pc # "idle" => runner'[r] = runner[r]
  BY <1>1, <1>2
<1>5. Exclusive' /\ LockedWhileRunning'
  BY <1>1, <1>4 DEF QueueInv, Exclusive, LockedWhileRunning, Busy
<1>6. StoryInv'
  BY <1>1, <1>4 DEF StoryInv, AttemptsAgree
<1>7. QED
  BY <1>1, <1>3, <1>5, <1>6 DEF QueueInv

\* A statement that throws on a closed connection is one of OracleJobs, but for
\* the count of faults.
LEMMA ClosedKeepsQueue ==
  ASSUME QueueInv, StoryInv, NEW r \in Runners, ClosedDatabaseThrows(r)
  PROVE  /\ QueueInv' /\ StoryInv'
         /\ UNCHANGED <<job, attempts>>
<1>1. UNCHANGED <<job, attempts, jobLock, runnerLock, faults>>
  BY DEF ClosedDatabaseThrows
<1>2. /\ runner[r] \in RunnerRecords /\ TypeOK /\ SharedTypeOK'
      /\ Idle \in RunnerRecords /\ Idle.pc \notin Busy
      /\ Thrown(r) \in RunnerRecords /\ Thrown(r).pc \notin Busy
  BY <1>1, FreedRunners DEF QueueInv, TypeOK, SharedTypeOK
<1>3. ASSUME NEW q \in RunnerRecords, runner' = [runner EXCEPT ![r] = q],
             \/ q.pc \notin Busy
             \/ q.pc = "returned" /\ runner[r].pc = "returned" /\ q.job = runner[r].job
      PROVE  QueueInv' /\ StoryInv'
  <2>1. q.pc \in Busy => runner[r].pc \in Busy /\ q.job = runner[r].job
    BY <1>3 DEF Busy
  <2>2. QueueInv'
    BY <1>1, <1>2, <1>3, <2>1, RunnerKeeps
  <2>3. /\ q.pc \in {"claimed", "counted"} => runner[r].pc \in {"claimed", "counted"}
        /\ q.pc \in {"calling", "returned"} => runner[r].pc \in {"calling", "returned"}
    BY <1>3 DEF Busy
  <2>4. StoryInv'
    BY <1>1, <1>2, <1>3, <2>1, <2>3, StoryKeeps
  <2>5. QED
    BY <2>2, <2>4
<1>4. CASE CompleteThrows(r)
  <2> DEFINE q == [runner[r] EXCEPT !.outcome = "failed"]
  <2>1. runner' = [runner EXCEPT ![r] = q] /\ runner[r].pc = "returned"
    BY <1>4 DEF CompleteThrows
  <2>2. q \in RunnerRecords /\ q.pc = "returned" /\ q.job = runner[r].job
    BY <1>2, <2>1 DEF RunnerRecords, Outcomes
  <2> HIDE DEF q
  <2>3. QED
    BY <1>1, <1>3, <2>1, <2>2
<1>5. CASE ExecuteThrows(r)
  BY <1>1, <1>2, <1>3, <1>5 DEF ExecuteThrows
<1>6. CASE LoopThrows(r)
  <2> DEFINE q == IF runner[r].pc = "loop"
                  THEN [runner[r] EXCEPT !.pc = "closing"] ELSE Idle
  <2>1. runner' = [runner EXCEPT ![r] = q]
    BY <1>6 DEF LoopThrows
  <2>2. q \in RunnerRecords /\ q.pc \notin Busy
    BY <1>2 DEF RunnerRecords, Pcs, Busy
  <2> HIDE DEF q
  <2>3. QED
    BY <1>1, <1>3, <2>1, <2>2
<1>7. QED
  BY <1>4, <1>5, <1>6 DEF ClosedDatabaseThrows

\* Every step of a worker is one of OracleJobs, or frees calls, or leaves the
\* queue alone.
LEMMA WorkerStepByKind ==
  ASSUME [WorkerNext]_workerVars
  PROVE  \/ [Next]_jobsVars
         \/ \E p \in Processes : ProcessEnds(p)
         \/ \E r \in Runners : ClosedDatabaseThrows(r)
<1>1. ASSUME NEW r \in Runners, CallStep(r)
      PROVE  Next \/ ClosedDatabaseThrows(r)
  BY <1>1 DEF CallStep, Next, RunnerStep
<1>2. ASSUME NEW p \in Processes, ScheduleTick(p) PROVE Next
  BY <1>2, WorkerAssumption DEF ScheduleTick, Next
<1>3. ASSUME NEW p \in Processes
      PROVE  /\ Start(p) \/ IntervalFires(p) \/ TickEnds(p) \/ Stop(p)
                  \/ RunDueJobsOnce(p) \/ Dispose(p)
                => Next \/ UNCHANGED jobsVars
             /\ (\E j \in Jobs : ExecuteJobByHand(p, j)) => Next
  <2>1. Start(p) \/ IntervalFires(p) => Next \/ UNCHANGED jobsVars
    BY <1>2 DEF Start, IntervalFires
  <2>2. TickEnds(p) \/ Stop(p) \/ Dispose(p) => UNCHANGED jobsVars
    BY DEF TickEnds, Stop, Dispose
  <2>3. RunDueJobsOnce(p) => Next
    BY DEF RunDueJobsOnce, Next
  <2>4. (\E j \in Jobs : ExecuteJobByHand(p, j)) => Next
    BY DEF ExecuteJobByHand, Next
  <2>5. QED
    BY <2>1, <2>2, <2>3, <2>4
<1>4. ASSUME \/ \E j \in Jobs : Enqueue(j) \/ BackoffEnds(j) \/ JobLockExpires(j)
             \/ RunnerLockExpires
             \/ \E r \in Runners : ProcessOf(r) \notin closed /\ StatementThrows(r)
      PROVE  Next
  BY <1>4 DEF Next
<1>5. UNCHANGED workerVars => UNCHANGED jobsVars
  BY DEF workerVars
<1>6. QED
  BY <1>1, <1>3, <1>4, <1>5 DEF WorkerNext

LEMMA WorkersKeepQueue ==
  ASSUME QueueInv, StoryInv, [WorkerNext]_workerVars
  PROVE  QueueInv' /\ StoryInv'
BY WorkerStepByKind, EndsKeepQueue, ClosedKeepsQueue, QueuePreserved, StoryPreserved

-----------------------------------------------------------------------------
\* Only a call that is made wakes a runner.
LEMMA NobodyWakes ==
  ASSUME QueueInv, NEW r \in Runners, runner[r].pc # "idle",
         NEW q, runner' = [runner EXCEPT ![r] = q]
  PROVE  \A s \in Runners : runner'[s].pc # "idle" => runner[s].pc # "idle"
BY DEF QueueInv, TypeOK

LEMMA CallsWakeNobody ==
  ASSUME QueueInv, NEW r \in Runners,
         RunnerStep(r) \/ CompleteThrows(r) \/ ExecuteThrows(r) \/ LoopThrows(r)
  PROVE  \A s \in Runners : runner'[s].pc # "idle" => runner[s].pc # "idle"
<1>1. runner[r].pc # "idle"
  BY DEF RunnerStep, ClaimPendingJob, LeaveLoop, ReleaseRunnerLock, ListJobAttempts,
         StartJobAttempt, CallReturns, CompleteOracleJob, FailOracleJob,
         CompleteThrows, ExecuteThrows, LoopThrows
<1>2. \E q : runner' = [runner EXCEPT ![r] = q]
  <2>1. CASE RunnerStep(r)
    BY <2>1 DEF RunnerStep, ClaimPendingJob, LeaveLoop, ReleaseRunnerLock,
                ListJobAttempts, StartJobAttempt, CallReturns, CompleteOracleJob,
                FailOracleJob
  <2>2. CASE CompleteThrows(r)
    BY <2>2 DEF CompleteThrows
  <2>3. CASE ExecuteThrows(r) \/ LoopThrows(r)
    BY <2>3 DEF ExecuteThrows, LoopThrows
  <2>4. QED
    BY <2>1, <2>2, <2>3
<1>3. QED
  BY <1>1, <1>2, NobodyWakes

LEMMA LoopsKeepRemembering ==
  ASSUME QueueInv, LoopRemembers, [WorkerNext]_workerVars
  PROVE  LoopRemembers'
<1>1. runner \in [Runners -> RunnerRecords]
  BY DEF QueueInv, TypeOK
<1>2. ASSUME UNCHANGED loopVars,
             \A s \in Runners : runner'[s].pc # "idle" => runner[s].pc # "idle"
      PROVE  LoopRemembers'
  BY <1>2, WorkerAssumption DEF LoopRemembers, loopVars
<1>3. ASSUME NEW r \in Runners, CallStep(r) PROVE LoopRemembers'
  <2>1. UNCHANGED loopVars
    BY <1>3 DEF CallStep, ClosedDatabaseThrows, loopVars
  <2>2. RunnerStep(r) \/ CompleteThrows(r) \/ ExecuteThrows(r) \/ LoopThrows(r)
    BY <1>3 DEF CallStep, RunnerStep, ClosedDatabaseThrows
  <2>3. QED
    BY <1>2, <2>1, <2>2, CallsWakeNobody
<1>4. ASSUME UNCHANGED loopVars,
             \/ \E j \in Jobs : Enqueue(j) \/ BackoffEnds(j) \/ JobLockExpires(j)
             \/ RunnerLockExpires
             \/ \E r \in Runners : StatementThrows(r)
      PROVE  LoopRemembers'
  <2>1. CASE \E r \in Runners : StatementThrows(r)
    BY <1>2, <1>4, <2>1, CallsWakeNobody DEF StatementThrows
  <2>2. CASE \/ \E j \in Jobs : Enqueue(j) \/ BackoffEnds(j) \/ JobLockExpires(j)
             \/ RunnerLockExpires
    BY <1>2, <1>4, <2>2 DEF Enqueue, BackoffEnds, JobLockExpires, RunnerLockExpires
  <2>3. QED
    BY <1>4, <2>1, <2>2
<1>5. ASSUME NEW p \in Processes, RunDueJobsOnce(p) \/ \E j \in Jobs : ExecuteJobByHand(p, j)
      PROVE  LoopRemembers'
  <2>1. /\ UNCHANGED loopVars
        /\ \E q : runner' = [runner EXCEPT ![<<p, "once">>] = q]
    BY <1>5 DEF RunDueJobsOnce, ExecuteJobByHand, RunDueJobs, ExecuteJob
  <2>2. \A q \in Processes : runner'[<<q, "tick">>] = runner[<<q, "tick">>]
    BY <1>1, <2>1, WorkerAssumption
  <2>3. QED
    BY <2>1, <2>2 DEF LoopRemembers, loopVars
<1>6. ASSUME NEW p \in Processes, ScheduleTick(p),
             timer' \subseteq Processes, timer' \cap closed' = {}
      PROVE  LoopRemembers'
  <2>1. /\ tickInFlight' = tickInFlight \cup {p}
        /\ \E q : runner' = [runner EXCEPT ![<<p, "tick">>] = q]
    BY <1>6 DEF ScheduleTick, RunDueJobs
  <2>2. \A q \in Processes \ {p} : runner'[<<q, "tick">>] = runner[<<q, "tick">>]
    BY <1>1, <2>1, WorkerAssumption
  <2>3. QED
    BY <1>6, <2>1, <2>2 DEF LoopRemembers
<1>7. ASSUME NEW p \in Processes, Start(p) \/ IntervalFires(p) PROVE LoopRemembers'
  <2>1. timer' \subseteq Processes /\ timer' \cap closed' = {}
    BY <1>7 DEF Start, IntervalFires, LoopRemembers
  <2>2. CASE ScheduleTick(p)
    BY <1>6, <2>1, <2>2
  <2>3. CASE UNCHANGED <<jobsVars, tickInFlight>>
    BY <2>1, <2>3 DEF LoopRemembers, jobsVars
  <2>4. QED
    BY <1>7, <2>2, <2>3 DEF Start, IntervalFires
<1>8. ASSUME NEW p \in Processes, TickEnds(p) PROVE LoopRemembers'
  BY <1>8 DEF TickEnds, ForgetTick, LoopRemembers, jobsVars
<1>9. ASSUME NEW p \in Processes, Stop(p) \/ Dispose(p) PROVE LoopRemembers'
  BY <1>9 DEF Stop, Dispose, LoopRemembers, jobsVars
<1>10. ASSUME NEW p \in Processes, ProcessEnds(p) PROVE LoopRemembers'
  <2>1. \A q \in Processes : runner'[<<q, "tick">>] =
                               IF q = p THEN Idle ELSE runner[<<q, "tick">>]
    BY <1>10, WorkerAssumption DEF ProcessEnds, CallsOf
  <2>2. Idle.pc = "idle"
    BY DEF Idle
  <2>3. QED
    BY <1>10, <2>1, <2>2 DEF ProcessEnds, LoopRemembers
<1>11. CASE UNCHANGED workerVars
  BY <1>11 DEF workerVars, jobsVars, loopVars, LoopRemembers
<1>12. QED
  BY <1>3, <1>4, <1>5, <1>7, <1>8, <1>9, <1>10, <1>11 DEF WorkerNext

LEMMA InitWorker == WorkerInit => WorkerInv
<1> SUFFICES ASSUME WorkerInit PROVE WorkerInv
  OBVIOUS
<1>1. QueueInv /\ StoryInv
  BY InitQueue, InitStory DEF WorkerInit
<1>2. LoopRemembers
  BY WorkerAssumption DEF WorkerInit, Init, Idle, LoopRemembers
<1>3. QED
  BY <1>1, <1>2 DEF WorkerInv

LEMMA WorkerPreserved == WorkerInv /\ [WorkerNext]_workerVars => WorkerInv'
BY WorkersKeepQueue, LoopsKeepRemembering DEF WorkerInv

-----------------------------------------------------------------------------
\* The queue's rows, locks and calls have their types, with any number of
\* workers.
THEOREM WorkersTyped == WorkerSpec => []TypeOK
<1>1. WorkerInv => TypeOK
  BY DEF WorkerInv, QueueInv
<1>2. QED
  BY <1>1, InitWorker, WorkerPreserved, PTL DEF WorkerSpec

\* A claimed job has one executor among the ticks, the calls by hand and the
\* restarts of all processes, those included whose database was closed under
\* them; and it is locked exactly while it is running.
THEOREM WorkersExecuteAlone == WorkerSpec => [](OneExecutor /\ LockedWhileRunning)
<1>1. WorkerInv => OneExecutor /\ LockedWhileRunning
  BY DEF WorkerInv, QueueInv, Exclusive, LockedWhileRunning, OneExecutor, Executing
<1>2. QED
  BY <1>1, InitWorker, WorkerPreserved, PTL DEF WorkerSpec

\* The attempts of every job fit its status, whatever becomes of the processes.
THEOREM WorkersTellTheStory == WorkerSpec => []AttemptsAgree
<1>1. WorkerInv => AttemptsAgree
  BY DEF WorkerInv, StoryInv
<1>2. QED
  BY <1>1, InitWorker, WorkerPreserved, PTL DEF WorkerSpec

\* No late call, shutdown or closed connection changes a settled job.
THEOREM WorkersLeaveSettled == WorkerSpec => SettledForGood
<1>1. ASSUME WorkerInv, [WorkerNext]_workerVars, NEW j \in Jobs, job[j].status \in Settled
      PROVE  job'[j].status = job[j].status /\ attempts'[j] = attempts[j]
  <2>1. QueueInv /\ StoryInv
    BY <1>1 DEF WorkerInv
  <2>2. CASE [Next]_jobsVars
    BY <1>1, <2>1, <2>2, OnlyRunningWritten
  <2>3. CASE UNCHANGED <<job, attempts>>
    BY <2>3
  <2>4. QED
    BY <1>1, <2>1, <2>2, <2>3, WorkerStepByKind, EndsKeepQueue, ClosedKeepsQueue
<1>2. WorkerInv /\ [WorkerNext]_workerVars =>
        [\A j \in Jobs : job[j].status \in Settled =>
           job'[j].status = job[j].status /\ attempts'[j] = attempts[j]]_jobsVars
  BY <1>1
<1>3. QED
  BY <1>2, InitWorker, WorkerPreserved, PTL DEF WorkerSpec, SettledForGood

\* A tick in progress is remembered by its loop, so that waitForCurrentTick waits
\* for it, also after a stop; a disposed worker has no timer.
THEOREM LoopsRememberTicks == WorkerSpec => []LoopRemembers
<1>1. WorkerInv => LoopRemembers
  BY DEF WorkerInv
<1>2. QED
  BY <1>1, InitWorker, WorkerPreserved, PTL DEF WorkerSpec
=============================================================================
