----------------------------- MODULE WorkerLoop -----------------------------
(***************************************************************************)
(* Worker processes that drain the queue of OracleJobs by polling it:        *)
(* OracleWorkerLoop and the worker runtime of                              *)
(* backend/src/runtime/create-worker.ts, and backend/src/worker.ts.         *)
(*                                                                         *)
(* A process makes up to two calls of runDueJobs at a time, each of them a   *)
(* runner of OracleJobs: the tick of its loop and a runDueJobsOnce.         *)
(***************************************************************************)
EXTENDS OracleJobs

CONSTANT Processes

CallsOf(p) == {<<p, "tick">>, <<p, "once">>}

ASSUME WorkerAssumption ==
  /\ Runners \subseteq UNION {CallsOf(p) : p \in Processes}
  /\ \A p \in Processes : <<p, "tick">> \in Runners

VARIABLES
  timer,          \* the loops whose interval is set
  tickInFlight,   \* the loops that remember a tick
  closed          \* the processes whose database connection is closed

loopVars == <<timer, tickInFlight, closed>>
workerVars == <<jobsVars, loopVars>>

WorkerInit ==
  /\ Init
  /\ timer = {}
  /\ tickInFlight = {}
  /\ closed = {}

ProcessOf(r) == r[1]

-----------------------------------------------------------------------------
\* scheduleTick: a tick is remembered until it has ended.  One that does not get
\* the runner lock ends at once.
ScheduleTick(p) ==
  /\ p \notin tickInFlight
  /\ RunDueJobs(<<p, "tick">>)
  /\ tickInFlight' = tickInFlight \cup {p}

Start(p) ==
  /\ p \notin timer \cup closed
  /\ timer' = timer \cup {p}
  /\ \/ ScheduleTick(p)
     \/ (p \in tickInFlight \/ ~Acquirable(runnerLock))
        /\ UNCHANGED <<jobsVars, tickInFlight>>
  /\ UNCHANGED closed

IntervalFires(p) ==
  /\ p \in timer
  /\ ScheduleTick(p)
  /\ UNCHANGED <<timer, closed>>

\* Mutant: a tick that has ended is still remembered.
KeepTick(p) == tickInFlight
\* The finally of the tick
ForgetTick(p) == tickInFlight \ {p}

\* runDueJobs has returned or thrown.
TickEnds(p) ==
  /\ p \in tickInFlight
  /\ runner[<<p, "tick">>].pc = "idle"
  /\ tickInFlight' = ForgetTick(p)
  /\ UNCHANGED <<jobsVars, timer, closed>>

Stop(p) ==
  /\ p \in timer
  /\ timer' = timer \ {p}
  /\ UNCHANGED <<jobsVars, tickInFlight, closed>>

\* The caller does not wait for a tick.
RunDueJobsOnce(p) ==
  /\ p \notin closed
  /\ <<p, "once">> \in Runners
  /\ RunDueJobs(<<p, "once">>)
  /\ UNCHANGED loopVars

\* executeJob of a job by hand, in the place of a runDueJobsOnce
ExecuteJobByHand(p, j) ==
  /\ p \notin closed
  /\ <<p, "once">> \in Runners
  /\ ExecuteJob(<<p, "once">>, j)
  /\ UNCHANGED loopVars

\* stop, and the connection is closed under the calls in flight.
Dispose(p) ==
  /\ p \notin closed
  /\ timer' = timer \ {p}
  /\ closed' = closed \cup {p}
  /\ UNCHANGED <<jobsVars, tickInFlight>>

\* A statement on a closed connection throws.
ClosedDatabaseThrows(r) ==
  /\ ProcessOf(r) \in closed
  /\ CompleteThrows(r) \/ ExecuteThrows(r) \/ LoopThrows(r)
  /\ UNCHANGED <<job, attempts, jobLock, runnerLock, faults, loopVars>>

\* What a call does; a dispatched transaction ends without the database.
CallStep(r) ==
  \/ /\ ProcessOf(r) \notin closed
     /\ RunnerStep(r)
     /\ UNCHANGED loopVars
  \/ /\ ProcessOf(r) \in closed
     /\ \E o \in Outcomes : CallReturns(r, o)
     /\ UNCHANGED loopVars
  \/ ClosedDatabaseThrows(r)

\* The shutdown of worker.ts, dispose and process.exit without an await between
\* them, and a crash look the same from outside: the calls are gone.  The
\* process is started again, with a connection of its own.
ProcessEnds(p) ==
  /\ faults < MaxFaults
  /\ faults' = faults + 1
  /\ runner' = [r \in Runners |-> IF r \in CallsOf(p) THEN Idle ELSE runner[r]]
  /\ timer' = timer \ {p}
  /\ tickInFlight' = tickInFlight \ {p}
  /\ closed' = closed \ {p}
  /\ UNCHANGED <<job, attempts, jobLock, runnerLock>>

WorkerNext ==
  \/ /\ \/ \E j \in Jobs : Enqueue(j) \/ BackoffEnds(j) \/ JobLockExpires(j)
        \/ RunnerLockExpires
        \/ \E r \in Runners : ProcessOf(r) \notin closed /\ StatementThrows(r)
     /\ UNCHANGED loopVars
  \/ \E r \in Runners : CallStep(r)
  \/ \E p \in Processes :
       \/ Start(p) \/ IntervalFires(p) \/ TickEnds(p) \/ Stop(p)
       \/ RunDueJobsOnce(p) \/ Dispose(p) \/ ProcessEnds(p)
       \/ \E j \in Jobs : ExecuteJobByHand(p, j)

WorkerSpec == WorkerInit /\ [][WorkerNext]_workerVars

\* setInterval fires for ever, a call goes on, and time passes.  Nobody has to
\* start a loop or to run a call by hand.
WorkerFairness ==
  /\ \A r \in Runners : WF_workerVars(CallStep(r))
  /\ \A p \in Processes : WF_workerVars(IntervalFires(p)) /\ WF_workerVars(TickEnds(p))
  /\ \A j \in Jobs : WF_workerVars(BackoffEnds(j) /\ UNCHANGED loopVars)
  /\ WF_workerVars(RunnerLockExpires /\ UNCHANGED loopVars)

WorkerFairSpec == WorkerSpec /\ WorkerFairness

-----------------------------------------------------------------------------
\* One loop that is started and left alone is enough: whatever other processes
\* do, crash, stop or close, every job that waits is claimed.
PolledJobsClaimed ==
  (\E p \in Processes : <>[](p \in timer)) => WaitingJobsClaimed

\* waitForCurrentTick resolves, after a stop and on a closed database too.
TicksEnd ==
  \A p \in Processes : p \in tickInFlight ~> p \notin tickInFlight
=============================================================================
