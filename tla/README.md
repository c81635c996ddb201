# Green Reputation: a verification project

TLA+ modules that model the Green Reputation system (a personal carbon footprint
calculator with on-chain rewards), TLC configurations that check them on small
instances, and theorems that TLAPS proves for every instance.

## The system

| part | source | state | operations |
|---|---|---|---|
| Anchor program | `solana/programs/green-reputation/src` | PDAs: ProtocolConfig, RewardTreasury and its vault, UserProfile (with a rolling 30-day history), FootprintCommitment | 11 instructions of `lib.rs` |
| Job queue | `backend/src/db/index.ts` | SQLite: `oracle_jobs`, `job_attempts`, `service_locks`, `used_nonces` | enqueue, claim, start/complete/fail an attempt, locks, nonces |
| Retry runner, worker | `backend/src/modules/jobs/runner.ts`, `runtime/create-worker.ts` | what a call of `runDueJobs`/`executeJob` holds in memory; the tick in flight | poll, claim, execute, classify errors, back off |
| Oracle client | `backend/src/modules/oracle/client.ts` | none | read config/profile, send `submit_verified_footprint`, `sync_sbt_state`, `fund_treasury` |
| Ingestion | `backend/src/modules/ingestion/*`, `middleware/authenticate-siws.ts`, `app/create-app.ts` | used nonces; local variables across awaits | authenticate, decrypt, compute, publish metadata, enqueue two jobs |
| Wallet auth | `modules/ingestion/wallet-auth-service.ts` | challenges in memory | issue, verify, prune |
| LCA orchestrator | `modules/lca` | none | normalise input, compute a footprint and its reward multiplier |
| Frontend | `frontend/src` | wallet session, input draft, submission stage, cached token and snapshot | connect, register, mint, edit, submit, poll |
| Local scripts | `scripts`, `solana/app`, `backend/scripts` | none | bootstrap, seed, measure |

How they interact.  The frontend signs a wallet challenge for a single-use token
and posts an encrypted footprint.  Ingestion reads the user's profile and the
protocol config from the chain, computes emissions, reduction and reward,
publishes a metadata document, and inserts two jobs (`submit_verified_footprint`,
`sync_sbt_state`) in SQLite.  Workers poll the table, claim a job under a lock
row, send its transaction and record the outcome.  The program checks the reward
against its policy and treasury, records a commitment account per footprint, and
keeps per-user totals; the user claims the pending reward.  The frontend polls
the chain for the new snapshot.

What is hard, and what makes each part correct:

* program: three counters in two accounts, the vault's lamports and per-user
  sums must agree with saturating u64 arithmetic, policy changes and claims in
  any order; the rolling history must be the last 30 days of the commitments;
  metadata versions must order the documents of a token;
* queue: lock rows expire while a call is awaited, every worker has the same
  owner id, processes die between statements, statements fail; a job must have
  one executor, be settled once, and not be forgotten;
* delivery: a confirmation may be lost after the transaction landed, retries
  repeat effects, two jobs of one submission fail separately;
* ingestion: three awaits separate the reads from two separate inserts, the
  metadata version comes from the client, the nonce is burnt first;
* wallet auth: a challenge is checked before an await and deleted after it;
* worker loop: nothing waits for the tick in flight, and the database may be
  closed under it;
* frontend: answers arrive after a newer one, after midnight, after a reload, or
  never; a token is cached longer than it can be used; a review reads whatever
  file its input holds by then; an activity must replace the right estimate.

`PROJECT.json` lists every hazard with its line and the properties aimed at it.

## Modules

| module | models |
|---|---|
| `Sums` | the sum of natural amounts over a finite set |
| `Lamports` | saturating u64 arithmetic (`MaxU64` is a constant) |
| `RewardPolicy` | `RewardPolicy`, `RankThresholds`: validation, quote, rank |
| `Subsequences` | what a filter keeps of a sequence |
| `EmissionHistory` | the rolling history: day buckets, record, drain, past-month total, what an admin may seed |
| `GreenReputation` | the program: one action per instruction plus the cluster clock; its properties |
| `RewardLedger` | abstract: what is owed to each user, what was paid, the pot; owed never exceeds the pot |
| `MCGreenReputation` | arguments tried for each instruction, symmetry |
| `OracleJobs` | job queue and runners; its properties and fairness |
| `WorkerLoop` | worker processes that poll, are stopped, disposed, shut down and started; extends `OracleJobs` |
| `EmissionBaseline` | the 30-day baseline the backend derives from the program's window; extends `EmissionHistory` |
| `OracleDelivery` | the calls of the runners and what becomes of their transactions on chain; extends `OracleJobs` |
| `SignIn` | wallet challenges and the tokens they are exchanged for |
| `Ingestion` | a request from its token to the two queued jobs; extends `SignIn` |
| `Tickets` | abstract: a ticket is granted, spent once and brings one footprint at most |
| `Submission` | the browser's submissions against the server of `Ingestion`, its cached token and daily lock; extends `Ingestion` |
| `WalletFlow` | connecting, registering, minting and claiming in the tabs of a wallet |
| `LcaOrchestrator` | normalisation and scoring of a request, as functions |
| `InputWorkspace` | uploads, reviews in flight, rows, entries and the payload; extends `LcaOrchestrator` |
| `MCEmissionBaseline`, `MCOracleDelivery`, `MCWorkerLoop`, `MCWalletFlow`, `MCInputWorkspace` | clock skews; the work of the jobs; the calls of each process; symmetries; categories, factors and texts |
| `EmissionHistoryProofs` | lemmas: sums, filters, totals, days, windows, induction over a loop |
| `GreenReputationProofs`, `EmissionBaselineProofs`, `OracleJobsProofs`, `WorkerLoopProofs`, `OracleDeliveryProofs`, `SubmissionProofs` | theorems and proofs about the module of that name |
| `FrontendProofs` | theorems and proofs about `LcaOrchestrator`, `InputWorkspace` and `WalletFlow` |

### `GreenReputation`

A Solana transaction is atomic, so every `require!`, account constraint and
failing inner call is a guard.  A PDA that does not exist is its zeroed record
with an existence flag.  `profile` holds the UserProfile without
`emission_history`, which is `history` (decoded entries).  `vault` is the
lamports of the vault PDA, `wallet` what claims moved out of it (a history
variable for the properties).  Left out because nothing reads them: bumps,
account versions, source kinds, events, rent of other PDAs, `metadata_root`-like
constants of the mint; the SBT mint, its token account and the revoked authority
are one bit.

Properties: the type invariant includes the 480-byte space of the history (a
longer one would make every later footprint fail).  `TreasurySolvent`: the users'
pending sums equal the treasury's, are covered by available funds, and by the
vault above rent.  `ClaimsAlwaysPayable`: no pending reward can become
unclaimable.  `RewardsAccountedOnce`: each commitment's reward is pending or
claimed, once.  `LedgerSpec`: refinement of `RewardLedger`.
`ProfileSummarisesCommitments`, `HistoryMatchesCommitments`,
`PastMonthComplete`: incremental, saturating, pruned summaries, and the latest
period and hash, against their definition over all commitments.
`MetadataVersionLaw`: a version never decreases; a sync's new URI takes a greater
one, however far ahead; a new public profile and the minting take the next, which
after the last u32 is the last one again.

### `OracleJobs`

A step is one SQL statement or transaction (SQLite serialises them), or the end
of one awaited call; everything between two of these is local.  Time is
abstracted: a row is due or not, a lock live or expired, and time makes rows due
and locks expire at any moment, in particular while a transaction is awaited
(locks live 30 s and are never renewed).  No owner is modelled because no
statement reads one.  `executeJob` and `runDueJobs` are separate entries: the
first takes no runner lock.  Faults: a process dies and restarts (`Crash`), a
statement throws (`StatementThrows`: a database locked beyond `busy_timeout`, or
the code's own `Missing lock` and UNIQUE errors, which need no fault budget).
Jobs are inserted in the order of their ids, as `created_at_ms` and `id` order
them in one process.  The dispatched call is reduced to its three classified
outcomes.

### `EmissionBaseline`

`history` and `lastVerifiedAt` are the fields of a profile, changed by the
program's own operators; `daily` records the truth they summarise.  An ingestion
reads them at any moment and by a clock that may differ from the chain's
(`AsOfTimes`: `max(now, lastVerifiedAt)`), so `DeriveHistoricalData` is an
operator and the properties quantify over the moments.  Footprints come at most
once per moment of the clock (bound), several a day; the seeder
(`seed-emission-history.ts`) overwrites the window with days that end with its own
yesterday.  Its clock (`SeedSkews`) is at most a day ahead of the chain's, as it
runs beside its local validator; further ahead, and it would record a day whose
footprints are still to come.  Averages are in hundredths
of a kilogram, rounded half up (binary floating point may round a tie down).
`daily` does not saturate; the program's entry for a day does, and so does the
`DayTotal` it is compared with.  `BaselineIsAFullMonth`: no baseline from a partial month or from other days.
`BaselineOnAFreshDay`: the window the program keeps is enough for the backend on
a day without a footprint.

### `OracleDelivery`

Extends `OracleJobs`: its actions are the queue's, except that `CallReturns` is
reached through the steps of a call (`PassClientChecks`, `SendTransaction`, then
an answer, a refusal, or none) and an enqueued footprint carries the quote of
that moment.  A transaction is identified by job and attempt, as each attempt
signs a new one; between `flying` and its end anything may happen to the call,
the process and the policy.  The program's part is its guards on what the jobs
share: commitment account, reward and pending caps, treasury, metadata version
(the whole program is `GreenReputation`).  Which error messages are retryable is
left open where the message comes from the node, so `ConfirmationLost` may be
either.  Signer checks are left out: the keys are configured once.
`lost` records that an answer was lost: by the connection, by a crash, or because
the statement that records it throws.  Without `lost`, a failed job is not on
the chain (`FailedIsNotOnChain`).  A footprint or a document never lands twice, a
funding only with `lost` (`LandsOnceUnlessLost`; of documents this is the theorem's,
as the run `delivery` has none).  With `lost`, the queue may be wrong: the retry of a
footprint that landed finds its commitment account in use and ends as `failed`,
and the retry of a funding funds again; that is what the code does, and no
comment or test says otherwise.

### `WorkerLoop`

A process makes up to two calls of `runDueJobs` at a time: the tick of its loop,
which `#scheduleTick` coalesces, and one `runDueJobsOnce` (or `executeJob` by
hand).  Each is a runner of `OracleJobs`, so every action of the queue is there.
`Stop` clears the interval and `Dispose` also closes the connection; neither
waits for a tick, whose next statement then throws (`ClosedDatabaseThrows`), while
a transaction that was dispatched ends without the database.  `ProcessEnds` is
both the shutdown of `worker.ts` (dispose and `process.exit` with no await
between) and a crash.  `TicksEnd`: what `waitForCurrentTick` waits for comes,
also after a stop or on a closed database.  `PolledJobsClaimed`: one loop that is
started and left alone is enough for every waiting job to be claimed, whatever
other processes do.

### `SignIn`, `Ingestion`, `Tickets`

`SignIn` has challenges and tokens, numbered as they are created; ages are
abstract, since only three ranges of a token's life are told apart: the browser
takes it from its cache, the server takes it, nobody does.  A challenge is
verified across an await and not looked up again after it, so two requests can
turn one challenge into two tokens; each token has its own nonce, which is what
`TicketSpec` shows to be enough.

A step of `Ingestion` runs from one await of the handler to the next: the token
(`Receive`, `RejectToken`, `Admit`, which reserves the nonce, decrypts and parses
in one go), the profile, the policy, the publication, the two inserts and the
answer.  The process may die at an await or between the inserts; the database and
a configured key survive, handlers and challenges do not.  An insert or a read
may fail (`Fault`, bounded).  `TicketSpec`: however requests share tokens, overlap
or fail, a token is spent once and honoured once at most.  What a ticket was
honoured with is counted in the queue (`HonouredTickets`: the footprints that the
requests with that token have brought), not recorded when a nonce is reserved.  A
token is spent before it is honoured, so a failed ingestion has used it up.  `JobsInPairs`: a
document is never queued without or before its footprint, and a footprint lacks
its document only if the request was cut short.

### `Submission`

Extends `Ingestion` with the browser.  A click starts a flow: two calls for a
token (the panel's and the ingestion client's), each from the cache or by a
challenge, a signature and a verification; the public key; the request; its
answer.  The metadata version sent is the one that the tab loaded.  A reload
abandons flows but not their handlers.  Workers are reduced to settling the
documents in any order.  Only the newest state matters of what a stage shows, so
stages other than `submitting` are one.

`AnswersAreTrue`: after a success both jobs are queued, after an error answer
none is, unless the handler was cut short between the inserts.
`RefusedOnlyIfStale`: a document is refused on the chain only if its tab was
loaded before another submission's document was settled.  `LockedAfterSuccess`:
after a success no tab sends again that day, over reloads and late answers.
`PanelSettles`: the button does not stay busy.

### `WalletFlow`

The provider, its buttons and the adapter of the local wallet, with the
profile on the chain.  An action reads, sends and then polls for a snapshot that
shows its effect (`Awaited`); the load on connecting is separate and may be
overtaken.  Both leave the node in one step (`LoadSnapshot`, `PollSnapshot`) and
are shown in a later one (`ShowLoaded`, `ShowResult`), whatever has been shown in
between.  Any call may fail, however often, also after its transaction has landed;
a poll that has not found what it waits for may be the last of the 15 s; a reload
forgets everything.  A footprint counts one emission and one
lamport.  `AnnouncedClaimsWerePaid`: two tabs never announce a claim that the
chain did not pay.  `ConfirmedIsAnnounced`: a confirmed mint or claim is shown
unless a reward was earned after the claim was asked for.  `NeverForgets`: two
answers take back what a page has shown, that of the load on connecting, which an
action may have overtaken, and, for the token alone, that of a registration or an
update which that load has overtaken (a token minted in another tab).

The wallet of the adapter is the fixed key pair of its configuration: there is no
disconnect and no change of wallet in the code, so none is in the model.

### `LcaOrchestrator`, `InputWorkspace`

Emissions are naturals of a unit that divides the hundredth of a kilogram.  The code
adds floating-point numbers, whose errors are far below that unit for the amounts
of a person's month.  They matter in two places: a tie may be rounded down instead
of half up, which the model leaves out, and a total that should be zero may be a
trace above it and so escape the `<= 0` that makes it a kilogram.  The trace is a
choice of the model (`Traces`): it may be there where the estimates of several
categories were added and taken off one by one; the estimate of one category is
subtracted from a sum with the same roundings and cancels exactly.  The factors
are constants.  A category entered as an activity replaces the estimate of its
candidates; the model follows the accumulators of `calculateFootprint`, and
`ScoreAsPromised` compares them with the sums they stand for, a total of zero
scored as a kilogram, or as nothing where a trace may hide it.

`InputWorkspace` has the two file inputs, the chips, the reviews in flight (each
with the file that its input held at the click), rows, entries and edits.  A text
is a sequence of lines, a line its words and its number; OCR may fail, and then
the rows come from sample text.  `CandidatesCountedOnce`: a chip brings in each
line of one file once, however its reviews overlap; two chips of one input may bring
in the same later file, each once.  `OwnFileUnlessReplaced`: rows are of the file uploaded
with the chip, or of one uploaded later through the same input.
`OnlyFirstEntryPays`: entering a category again does not raise the reward, unless a
total of zero, scored as a kilogram, comes to less than a kilogram with the entry.

## Runs

| run | shows | bounds |
|---|---|---|
| `rewards` | reward accounts consistent, refinement of the ledger | 2 users, 3 footprints, u64 up to 8, 7 lamports: enough for a full vault, an exhausted cap, recycled funds and a lowered policy |
| `history` | totals, rank, latest period, history and month agree with the commitments | 1 user, 5 days, window of 3 days, 4 footprints, u64 up to 7 so that sums saturate |
| `profile` | version law; seeded and recorded entries never overflow the history | u32 up to 4, so that it is exhausted; two changes of authorities; window of 2 days, seeds on time, ahead of the clock, out of order and off day boundaries |
| `jobs` | one executor, locks, attempts, settled for good; every tick ends, a polled queue is claimed | 2 processes, 3 calls, 1 job, 2 attempts, 1 fault: a call by hand beside two loops, a dispose or a death under each of them |
| `delivery` | completed jobs landed, failed ones did not and none landed twice unless an answer was lost | a funding and a footprint, 2 attempts each, 1 worker, 1 fault, 2 policies |
| `delivery_calls` | the calls implement `OracleJobs!FairSpec`; every job settles | 2 syncs of which a tick takes one, 1 user update, 1 worker, no faults |
| `baseline` | a baseline is exactly the full month before, and a complete month yields one on a fresh day | 6 days of 2 moments, month of 3 days, clocks up to 1.5 days apart, seeder's clock half a day behind to a day ahead, u64 up to 12 so that a day of two large footprints saturates |
| `submission` | answers are true, jobs come in pairs, tokens are single-use tickets, the day is locked, the panel settles | 2 submissions, 1 tab and its reloads, 2 days, 1 fault, a key that is not configured: a reload mid-request gives two handlers with one token or one version |
| `wallet` | claims announced were paid, what is shown stays | 2 tabs, 2 footprints, 2 profiles, any failures: a claim in each tab with a footprint between, a mint in one tab during an update in the other |
| `input` | a chip's lines count once, rows are of their file, scores are as promised | 2 images, 2 inputs, 2 uploads, 2 reviews, 1 edit, 2 entries, 3 categories, baselines 0, low and high |
| `jobs_crash` (violation) | one crash leaves a job running for ever | 1 job, 1 runner, 1 crash |
| `baseline_same_day` (violation) | a second submission of a day gets no baseline | as `baseline` |

`MaxU64`, `MaxU32`, `SecondsPerDay`, `HistoryDays`, `GramsPerKg` are the
program's constants made small.  `MaxTime`, `LamportSupply`, `LastJob`,
`MaxAttempts` and `MaxFaults` bound the model only; the code bounds none of
them.  So do `MaxDay`, `LastRequest`, `MaxFootprints`, `MaxUploads`, `MaxReviews`,
`MaxEdits` and `MaxEntries`.  Deadlock is checked in every run but `jobs`, where
all processes may be closed for good.

Fairness (`OracleJobs!Fairness`): a runner inside a call goes on (RPC calls time
out), every worker polls (`setInterval`,
`create-worker.ts:56`), backoffs end and
the runner lock expires.  Nothing obliges anyone to call `executeJob`, no fault
has to happen, and no job lock has to expire (none is needed).

`WorkerFairness` is the same for processes: an interval that is set fires, a tick
that has ended is noticed, calls go on.  Nobody has to start a loop, so
`PolledJobsClaimed` is conditional on one that stays started.

`SubmissionFairness`: every fetch is answered or breaks, and every await of a
handler ends; no user has to click or reload, no day to end, no worker to run.

`DeliveryFairness` is the same with the steps of a call in place of its end;
nothing is assumed of what becomes of a transaction.

## Theorems

Each theorem holds for every value of the constants that the named assumptions
allow; the runs show the same definitions on small instances.  Every inductive
invariant was first checked by TLC on the runs' instances.

### The program (`GreenReputationProofs`)

For every number of users, amounts and arguments (`ConstantsAssumption`,
`ArgumentsAssumption`: arguments have their declared types, all lamports in
existence fit a u64, users are finitely many; `HistoryAssumption`: a day and a
window are not empty):

* `ProgramTyped`: `TypeOK`, with the space of the history;
* `Solvent`, `ClaimsPayable`, `AccountedOnce`: the three reward invariants;
* `ImplementsLedger`: `Spec => LedgerSpec`;
* `VersionsOrderDocuments`: `MetadataVersionLaw` (it never decreases, a new URI is
  strictly ahead, a new public profile and the minting are next), from the accounts' types and that
  an unregistered user's profile has no metadata version;
* `ProfilesSummarise`, `HistoriesMatch`, `MonthsComplete`: the incremental
  summaries against the commitments.

The reward invariants come from `MoneyInv`: the types, that unregistered users and
an absent treasury are blank, `TreasurySolvent`, `RewardsAccountedOnce`, and that
the commitments are finite (sums over them are meaningful).  `TreasurySolvent`
alone is not inductive: that a claim's saturating addition to
`total_disbursed_lamports` does not saturate follows from funds being bounded by
the lamports that exist, and a user's claimed sum from `RewardsAccountedOnce`.

The last three assume `SeedArgs = {}`, as an admin's seed writes entries that no
commitment stands behind, and `ProfilesSummarise` also that the rank thresholds
are not changed, since a rank is computed when a footprint arrives; the run
`history` makes the same choices.  `SummaryInv` says that each counter is the
capped sum of the user's commitments (a saturating sum is the capped sum, whatever
the order).  `HistoryInv` says that the history holds, in order and once, the days
of the window that ended at the *last footprint*, each with its capped total:
`HistoryMatchesCommitments` alone speaks of the moment of reading and is not
inductive.  `record_daily_emission` drains the oldest entries only if the window
is over-full; `RoomForToday` shows, by counting the days of a window, that after
the pruning it never is.

### The baseline (`EmissionBaselineProofs`)

For any emissions, seeds, readers' clocks, length of the month and seeders' clocks up
to a day ahead (`BaselineAssumption`):

* `BaselinesAreMonths`, `FreshDaysHaveBaselines`: `BaselineIsAFullMonth` and
  `BaselineOnAFreshDay`.

From `BaselineInv`: the entries are recorded days with their totals, in order, and
a recorded day that is missing is older than the window of some *recorded* day.
The window of `lastVerifiedAt` would not do, as a seed moves it without a footprint
on its day.  `FullWindow` shows that as many ordered entries as the month has days
are one for each of its days, so that the sum the backend takes in its order is
the sum of the month.

### The queue (`OracleJobsProofs`, `WorkerLoopProofs`)

For every number of jobs, runners, attempts and faults (`JobsAssumption`):

* `QueueTyped`, `LockPerRunningJob`, `SingleExecutor`: from `QueueInv`, which
  adds to the types and the lock law that executing runners work on running jobs
  and never share one (`Exclusive`): a claim needs a row that is not running,
  and only the executor ends a running row;
* `AttemptsTellTheStory`: from `StoryInv`, which also says what the last attempt
  is at each point of an execution;
* `SettledStays`: the action property, from `QueueInv`.

`WorkersTyped`, `WorkersExecuteAlone`, `WorkersTellTheStory` and
`WorkersLeaveSettled` say the same of any number of worker processes that are
started, stopped, disposed under their calls, shut down or killed
(`WorkerAssumption`).  The step of a process that ends is not a step of `OracleJobs`
(two runners go at once), so this is shown again and not by implementation;
`LoopsRememberTicks` adds that a tick under way is one that its loop remembers.

### Delivery (`OracleDeliveryProofs`)

For any jobs, quotes, policies and faults (`WorkAssumption`):

* `CallsImplementQueue`: `DeliverySpec => Spec` of `OracleJobs`; the fairness that
  `QueueSpec` also asks for is TLC's part;
* `DeliveryTyped`, `CompletedLanded`, `FailedIsFinal`, `NothingLandsTwice`,
  `TreasuryAlwaysBalances`.

`DeliveryInv` joins `QueueInv` and `StoryInv` with what a call knows of its
transaction at each point (`CallInv`) and what the program has recorded
(`ChainInv`): transactions of attempts that have not begun are not sent; only the
last attempt of a job without a lost answer may be flying; a footprint that landed
has its commitment, and the reserve of the treasury is the sum of the rewards of
those that did.

### Ingestion and submission (`SubmissionProofs`)

For any number of submissions, tabs, days and faults:

* `SubmissionTyped`, `PanelTellsTheTruth` (`AnswersAreTrue`),
  `DocumentsFollowFootprints` (`JobsInPairs`), `RefusalsAreStale`
  (`RefusedOnlyIfStale`), `TabsLockAfterSuccess` (`LockedAfterSuccess`);
* `TokensAreTickets`: `SubmissionSpec => TicketSpec`.

`SubmissionInv` ties a request's handler to its jobs in the queue (none before the
inserts, both after 202, the footprint alone if torn), a reserved nonce to the one
handler that was admitted with it, and a flow that waits to the answer that its
handler has given or will give.  That a handler past its admission is the only one
with its token is what makes a token bring one footprint at most.

### Score, input and wallet (`FrontendProofs`)

For any categories, factors, images, lines, uploads, reviews in flight, edits and
entries (`LcaAssumption`, `WorkspaceAssumption`: the categories are finitely many,
an activity category is a spend category, factors, values and baselines are
natural numbers):

* `CandidatesOnce` (`CandidatesCountedOnce`) and `RowsFromTheirFiles`
  (`OwnFileUnlessReplaced`);
* `PayloadScoredAsPromised` (`ScoreAsPromised`);
* `FirstEntryPays`, the action property `OnlyFirstEntryPays`.

`Traces` is part of the last two: they hold with and without a trace wherever one is
possible.

The first two come from `WorkspaceInv`: row ids are below the counter, and the file
of a row is that of its artifact or of a later upload through the same input
(`RowsFit`); so is the file of a review in flight (`ReviewsFit`), because what an
input holds is the file of the last upload through it (`InputsFit`).  The
properties alone are not inductive: a review that ends brings the rows of whatever
file it took at its click.

The score is a pair of loops over sequences, so the argument is an induction over
their steps.  The library's induction theorems cannot be used here;
`StepByStep` says the same of a *set* of numbers, by its least missing one, and is
enough.  `ScoredUpTo` is what the accumulators are after n activities in closed
form: the estimates of the categories not entered so far, the emissions of the
entries by category, and by how much the first entry of each category is below
its estimate.  `ActivityScored` shows that one turn of the loop leads from n - 1 to
n; `FootprintIs` puts the loops together.  A later entry of a category finds its
estimate gone (`SecondEntryAdds`), so it only adds, and the reward falls with the
emissions because multiplication, division and rounding are monotone
(`RewardsFall`).

For any number of tabs, footprints and profiles of a wallet:

* `WalletTyped`, `AnnouncedPaid` (`AnnouncedClaimsWerePaid`), `ConfirmedRecognised`
  (`ConfirmedIsAnnounced`), `TabsNeverForget` (`NeverForgets`).

`WalletInv` says what a tab knows of the chain: what it shows, has asked for or read
before its claim is of an earlier account; it shows nothing newer than the answer of
its poll unless the load has overtaken that answer; and the claims announced together
with those that may still be announced are no more than were paid.

### Only model-checked

All liveness: `PolledJobsClaimed`, `TicksEnd`, `EveryJobSettles`, `PanelSettles`
and the fairness part of `QueueSpec` (its safety part is `CallsImplementQueue`).
The provers have no rules for ENABLED and fairness here.  Every other property of a
run is a theorem, except the two of the runs that find a violation, which are
false.

Some definitions have the form they have for the provers: `Subsequence` takes the
elements of a filter by their indices instead of recursively, `Total` is the
cardinality of a set of units instead of a recursive sum, and the loops of
`LcaOrchestrator` are functions of the number of entries they have taken.

## What the checks found

* `baseline_same_day`: the program keeps the 30 days that end with the day of the
  last footprint, the backend wants the 30 days before today; after the first
  footprint of a day the second gets baseline 0 and multiplier 1.
* `jobs_crash`: nothing claims a `running` row again, so a job whose worker
  dies is never finished, retried or failed.

Behaviours that the models show and that no comment or test denies outright, so
that no run claims a violation:

* two loops may drain the queue at once, as the runner lock lives 30 s and
  `releaseLock` deletes whatever lock is there (the test at
  `retry-runner.test.ts:201` has loops that are shorter).  `OneExecutor` holds
  nevertheless: job rows and not the runner lock protect a job;
* a retry of a footprint whose answer was lost ends as `failed`, one of a funding
  funds twice;
* a document that a second submission of a tab queues may have the version of the
  first one and be refused: the version is the one loaded with the page;
* the daily lock knows only of answers that arrived in this browser: a reload
  while a request is under way, or another browser, allows a second submission of
  the day, though the panel says once per day (`encrypted-submission-panel.tsx:179`);
* a refresh of an old job that fails enables the button of a submission under way
  (`encrypted-submission-panel.tsx:258`);
* after a submission the cached token is spent; the next click within its life is
  answered with 409 until the cache lets go of it;
* a claim that was paid is reported as a timeout if a footprint lands before the
  next poll; a load on connecting may hide what an action has just shown, and the
  older answer of a registration or an update may hide a token, minted in another
  tab, that the load has just shown;
* entries of one category after the first add emissions and earn no reduction, where
  the comment at `orchestrator.ts:578` expects one entry per category; a total of
  zero is scored as a kilogram, but may be scored as 0.00 where the estimates of
  several categories were replaced by zeros and do not cancel in floating point
  (`orchestrator.ts:632`); a further entry below a kilogram then raises the reward
  of what had been scored as one;
* a chip whose input has since been given another image is reviewed with that image
  (`smart-input-workspace.tsx:125`); its own chip brings the same lines in again;
  where OCR finds nothing, sample rows made from the file's name are shown;
* lines about trains, buses and transport get a category that the backend does not
  know, and the payload is refused until it is changed;
* the reward in lamports is quoted from the reduction alone; the multiplier only
  enters the `finalRewards` that is shown.

## Plan

The order of the modules was the order of what matters most: the program with its
ledger, the queue, the baseline, delivery; then the worker's processes, ingestion
with sign-in, the browser's submissions, the wallet flow, the score and the input.
The safety properties of all of them are proved; what is left to the model
checker is liveness, as said above.

## Not modelled

Emission factors and formatting (data); metadata documents (a pure formatter and
one POST, whose await is a step of `Ingestion`); cryptography beyond which key
decrypts what; signatures that are wrong and tokens that the server did not issue;
environment parsing and wiring; the projections of the dashboard, its styles and
layout; the job status and health routes, which only read; the local scripts other
than the seeder, which start and stop processes and whose effects on the chain are
covered by the instructions they send.
