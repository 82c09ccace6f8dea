# TLA+ models of the payroll agent

Specifications, TLC configurations and TLAPS proofs for the core of the payroll
agent (`app/`): the job queue in Postgres, the worker threads that drain it, the
way of an email into it, the life of one payroll run from the email to the
operator's approval, the confirmation email with its provider handoff, and what a
run decides and pays: names, hours, withholding, paystubs and the year to date.

Run from this directory: `tlc -config MCJobQueue.cfg MCJobQueue.tla` for a model,
`tlapm JobQueueProofs.tla` for the proofs.

## 1. The system

A client's email reaches the webhook, which stores an event row and one `ingest`
job. Jobs are rows of one table, claimed by worker threads (two per process), or
by the pump endpoint a cron calls. The `run_pipeline` job extracts hours with a
language model, matches names, validates and decides: either the run waits for the
operator (`awaiting_approval`) or the client is asked (`awaiting_reply`). A reply
becomes a `resume_reply` job; after three questions the run goes to the operator
(`needs_operator`), whose resolution becomes an `operator_resume` job. An approval
freezes a confirmation email and queues `send_outbound`; its worker takes a
*provider handoff*, calls the provider and settles: `reconciled`, another try, or
a delivery review for the operator. After a send, confirmed nicknames are written
to the roster, and the run counts towards the year of its employees.

### Components

| component | state | operations | talks to |
|---|---|---|---|
| job queue (`db/repo/jobs.py`, `queue/drain.py`) | `jobs` rows; `_held_tokens` of each process | enqueue, claim, settle, retry, release, reap | everything that owes work; settlement writes the run too |
| settlement (`db/repo/job_settlement.py`) | job, run, slot and handoff in one transaction | settle by kind of job, reap a final lease | queue, run, handoff, roster |
| workers (`queue/worker.py`, `queue/wake.py`) | generations, `_threads`, `_orphans`, stop events, one shared Event | start, stop, loop, wake, wait | drain_once; producers after commit |
| pump (`routes/pump.py`) | counters of one request | bounded drain, purge, depth | drain_once |
| ingest (`ingest.py`, `routes/webhook.py`) | inbound rows, events | receive, match a reply, create a run | queue, run row |
| run handlers (`queue/handlers/*.py`) | none of their own | rewind, claim the status, run the pipeline | queue, run row |
| orchestrator and clarification (`pipeline/`) | run status, round, questions, extraction, snapshot, outcomes | load, stages, ask, resume | language model, run row, queue |
| names (`reconcile_names.py`, `decide.py`, `alias_learning.py`) | `reconciliation`, `alias_candidates`, `employees.known_aliases` | match, gate, capture, bind, learn | orchestrator, settlement of a confirmation |
| validation and arithmetic (`validate.py`, `calculate.py`, `federal_withholding.py`, `tax_tables_2026.py`) | none | pure functions | orchestrator |
| paystubs and year to date (`pipeline_state.py`, `demo.py`, `pdf.py`) | `paystub_line_items` | store, total, compose | orchestrator, delivery, operator's download |
| confirmation delivery (`pipeline/delivery.py`, `handlers/send_outbound.py`) | frozen slot, attempts | approve and reserve, authorize, send, settle | provider, handoff, operator |
| provider handoff (`db/repo/outbound_handoffs.py`) | at most one active row per run | authorize, adopt, release, resolve | delivery and questions share it |
| operator routes (`routes/runs.py`) | error reason as a review marker, resolutions | approve, reject, retrigger, resolve, reviews | run row, handoff, queue |

PROJECT.json lists all 29 components with their sources, the ones that are not
modelled included (section 5 says why).

The parts interact through five shared things: the `jobs` table (fenced by lease
tokens), the status of the run row (compare-and-set at contended gates, plain
writes elsewhere), the one active handoff of a run, the roster that every payroll
of a business reads and deliveries write, and, inside a process, the wake event.
No call holds a transaction across a language model or the provider.

### What is hard

* A lease is a clock, not a lock. A worker can outlive it; its successor and it
  then run the same job. Only the fence of the settlement and the status guards
  tell them apart.
* A run has several jobs over its life, and leases fence *jobs*. Two jobs of the
  same run can be open together (a reply arrives before the previous job's
  settlement, a retrigger while an old job is in backoff).
* Status writes inside the pipeline are plain writes; they rely on ownership that
  the status alone does not establish.
* A resume commits in several transactions; what a reply said lives in memory
  between them, and the retry of a reply reads the columns its dead attempt wrote.
* A nickname learned in one payroll decides whom another one pays.
* An ambiguous answer of the provider must be neither a loss nor a duplicate.
* Withholding has cliffs by construction (rows, caps, credits, rounding); a wrong
  row of a table ties out all the same.
* Operator, client and clocks act at any time, between any two statements.
* A stop of the process races claims, settlements and other stops.

### What makes each component correct

* Queue: one claimant per row passes the fence; attempts bound executions; a
  settled row is final; a clean stop leaves no lease; every job is settled; and all
  of it amounts to the few sentences of `JobPromise`, which hold as well of the jobs
  that ingest, a run and a delivery own.
* Workers: the connection budget holds over any starts and stops; one release per
  generation; a signalled job is found; a stop is prompt.
* Ingest: an accepted email is ingested or visibly dead, whatever is redelivered,
  repeated or purged; it opens one run; a late reply stays a record.
* Run: it is never lost without a job; one worker drives it at a time; the client
  is never asked too often, never kept waiting for a question already answered,
  and each reply answers one question of its own conversation; an approval stands.
* Hours: the paystub pays what the last answer said; hours once reported do not
  vanish unasked; a difference is shown to the operator; nobody is asked twice.
* Names: everybody on a payroll is known and on it once, paid under the name the
  client meant; a learned name stays usable and comes from a payroll of its owner.
* Pay: withholding is marginal; more hours never pay less; the mailed paystub is
  the paid one; the year columns are the year.
* Delivery: an active handoff belongs to the current epoch; a sender is covered by
  it; delivered means arrived; a review is quiet; final is final.

## 2. Modules

| module | models | composed of |
|---|---|---|
| `JobRow` | one row of `jobs` and the single-statement transitions on it; a row as `JobPromise` sees it | |
| `JobPromise` | the abstract queue: a job is held by one worker, costs tries, is given up when they are spent | |
| `JobQueue` | `drain_once`, `_held_tokens`, stop, release, crash, several processes | `JobRow`; implements `JobPromise` |
| `WorkerLoop` | `_loop`, `start`, `stop`, the shared event | |
| `Ingest` | receipt, ingest job, redelivery and purge; the run by its status and epoch | `JobRow`; implements `JobPromise` |
| `PayrollRun` | one run: jobs, conversation, client, operator | `JobRow`; implements `JobPromise` |
| `Delivery` | the confirmation of one run over its epochs | `JobRow`; implements `JobPromise` |
| `ResumeMoney` | one employee's hours through the rounds of a resume | |
| `Naming` | matching, the one-to-one gate, alias capture, binding and learning over several payrolls of a business | |
| `Paystub` | `calculate()`, the withholding tables, the hours questions | |
| `PayYear` | stored and mailed paystubs and the year to date of several payrolls | `Paystub` |
| `*Proofs` | theorems about the module of that name (`JobQueue`, `Delivery`, `Ingest`, `WorkerLoop`, `ResumeMoney`, `Naming`, `PayYear`, `PayrollRun`) | that module, `TLAPS` |
| `MC*` | model values, concrete data, symmetry | the module of that name |

**Steps.** An action ends where another actor can observe it: at a commit, or at
the release of a Python lock. A handler is therefore a chain of actions over `pc`,
with the status it read kept only as far as the code keeps it. Example:
`handle_resume_reply` is `OpenReply` (reads the status), `TakeRun` (the CAS),
`Resume` (the second CAS), `Consume` (`mark_reply_consumed`), a choice between
`Process` and `RequestClarification`, then `Ask` (the cap and the slot lookup),
`Reserve` (the transaction after two model calls) and `Settle`. The modules about
data (`ResumeMoney`, `Naming`, `PayYear`) take a coarser step where `PayrollRun` or
`Delivery` already has the finer one, and keep every commit across which the data
they are about can go stale.

**Data.** Wall clocks become the comparisons SQL makes (`due`, `expired`, "the
replay window is open"). A lease token is a number that is never minted twice.
The provider is idempotent in the Message-ID, so it is the set of slots whose
email it took. The language model is a choice; of one email it reads what is
written, of several joined ones any of what they say. A question is its epoch,
purpose and round, which is the uniqueness key of its row. Money is integer cents,
time quarters of an hour, a date 1000 * year + day of the year.

**Variants.** A definition introduced by a comment "Variant of X" is a wrong
version of X that no specification uses. Each one shows that some property would
notice that mistake: replace X by it and TLC finds a counterexample.

### Correspondence

* `JobQueue`: `row` is the table, `held` is `_held_tokens`, `granted` the history
  of tokens given to a process, `lease` the `Job` object of a thread. `GrantClaim`
  and `RecordToken` are two steps because the claim commits before the token is
  registered, under `_held_tokens_lock` only at both ends; `SettleHeld` and
  `ForgetToken` likewise. `phase` follows `stop()`: join, snapshot, release.
* `JobPromise` has no table, token or process. The mappings of `JobQueue`, `Ingest`,
  `PayrollRun` and `Delivery` read `status` and `tries` off the row, and the `holder` is
  the thread at work whose token is in it. Jobs may have been accepted before the
  start: `PayrollRun` begins with the job of its email. A retry of a last try by the
  holder cannot be told from what a shutdown hands back (`PutBack`), in the promise
  as in the table.
* `WorkerLoop`: `Follows` is the order of the loop (check the stop event, clear the
  signal, drain); `lock` is `_LIFECYCLE_LOCK`, which `stop()` holds over the join.
  `ready` counts jobs announced by `wake()`, `late` those only the poll finds.
* `Ingest`: `receipt` is `inbound_events`; a receipt stored again after a purge has a
  new `id` and hence a new job, as the `ingest:{event_id}` key has it. `mail` records
  how `_ingest_email` classified the email. `Load` and `Commit` are two steps: the
  provider's copy is fetched between them. A duplicate POST meets the receipt and
  changes nothing, so it is no action.
* `PayrollRun`: `run.marker` is `error_reason = 'ClarificationDeliveryReview'`;
  `question` merges the outbound row with its send job, whose detail is that of
  `Delivery`; `passes` counts how often a reply took the run to its next rest.
  `COMPUTED` and `SENT` exist only inside transactions and are left out.
* `Delivery`: `run`, `slot`, `job` and `handoff` are the four rows a settlement
  locks. `failing` is an `approve()` that rolled back and has yet to record its
  error in a later transaction. `vouched` and `licences` record the operator's word.
* `ResumeMoney`: the columns are `pre_clarify_extracted` (`snapshot`),
  `clarified_fields`, `reconciliation`, `alias_candidates` and `extracted_data`;
  `work` is what `resume_pipeline` holds in memory from the commit of the outcomes
  to the stages. `Retry` is a retryable failure, which keeps the columns; `Reclaim`
  is a dead worker's job, whose rewind clears the reply context. `fresh` and
  `asked` are histories.
* `Naming`: an employee stands for their full name, a token is any other name, and
  `means` is whom the client has in mind. `Pass` is reconcile, decide, persist,
  capture and bind; `Begin`, `Learn` and `Commit` are the transaction of
  `_complete_confirmation_after_send`, which reads the roster, writes one name at a
  time and reads it again, so that two deliveries can overlap.
* `Paystub` is arithmetic: `Calculate` is `calculate()`, `Brackets`, `FindBracket`
  and `Tentative` are Worksheet 1A over the four tables, transcribed row by row.
  `SliceBySlice` is a second definition, of the tax the tables stand for.
* `PayYear`: `stub` is `paystub_line_items`, which an earlier attempt's rows survive
  until they are replaced; `slot` is the frozen confirmation of the current epoch.

## 3. Runs

### Passing

| run | instance | what it shows |
|---|---|---|
| `queue` | 2 processes x 1 thread, 2 jobs (one bound to a run), 2 attempts, 1 restart, fair | `SoleClaimant`, `AttemptsBoundExecutions`, `StopHandsBack`; the refinement `KeepsPromise`; `JobsSettle` |
| `delivery` | 2 workers, 2 epochs, 2 attempts, 1 shutdown, 1 fault | `HandoffIsCurrent`, `SenderIsCovered`, `DeliveredMeansArrived`, `ReviewIsQuiet`, `FinalIsFinal`; the refinement `KeepsPromise` |
| `workers` | 2 workers, 2 generations, 2 callers, 2 jobs, 1 raise, fair, no poll timer | `WithinBudget`, `ReleasedOnce`, `JobsAreClaimed` |
| `ingest` | 2 workers, an opening email (its receipt purged once) and a reply, 2 epochs, 2 questions, 2 attempts, 2 faults, fair | `OneRunPerEmail`, `AcceptedIsOwned`, `AcceptedIsDecided` |
| `run` | 2 workers, 2 replies, 1 resolution, 2 purposes, 3 rounds, stages may fail, nobody dies | the whole conversation: `SingleSpine`, `RepliesPassOnce`, `WaitsForAnOpenQuestion`, `ApprovalStands` |
| `run_faults` | 1 crash or stray exception anywhere, prompt replies, fair | `NoRunIsLost`, `QuestionBudget`, `RunComesToRest`; the refinement `KeepsPromise` |
| `run_retrigger` | 2 epochs, 1 reply, 1 round | `NoRunIsLost` across conversations |
| `money` | 2 hours fields, the first email's hours, corrections down to an explicit zero, 3 rounds, 3 replies, 1 retry or reclaim anywhere | `AnswerIsPaid`, `DropsAreAsked`, `ChangesAreShown`, `QuestionsAreOpen` |
| `naming` | 2 employees who share an alias, a nickname nobody knows, 2 payrolls, 1 round, 1 lost worker or failed alias write, deliveries one at a time | `PaidOnce`, `RightPerson`, `LearnedIsUnique`, `LearnedFromItsPayroll`, `RememberedIsKnown` |
| `pay_year` | 39 employees, 2 runs over 7 payrolls, 1 retrigger each | `WithholdingIsMarginal`, `MoreHoursMorePay`, `MailedIsPaid`, `MailedNeverOverstates`, `YearToDateIsTheYear` |

### Bounds

Two is enough for what the concurrent properties compare: two workers (a holder and
its successor, or two jobs of one run), two processes (old and new instance), two
epochs (before and after a retrigger), two rounds (an answered question and the
next). Attempts are two so that the first, a repeated and the last attempt all
occur. `run` and `money` have the code's 3 rounds, because what a round overwrites or
leaves open depends on the one before it; in `run_faults` 2 stand for them: cap, first
and later question are all reached. Crashes, overruns, faults and restarts are
bounded in the guards of their actions, and every bound is a CONSTANT with a
comment. Symmetry is over threads, runs and people, in safety runs only.

`money`: a reply keeps, changes, zeroes or omits each field, so an answer of every
outcome can follow one of every other. `naming`: with two employees a name reaches
nobody, one person or both; a third would add no case to the matching or the gate.
`pay_year`: 32 salaries reach each of the 32 rows of the four tables, monthly and
fortnightly; seven more employees have what the seeds have: hourly wages that round,
credits, contributions, deductions, other income and the last of the wage base. The
payrolls touch, straddle the new year, or lack one or both dates.

`CHECK_DEADLOCK FALSE` is set where the system may really stop: all jobs settled,
the bounds used up, the run final.

### Fairness

Weak fairness of the worker steps: threads are scheduled, and `drain_once` loops
while there is work. Weak fairness of the clocks: leases and backoffs run out.
Weak fairness of the reaper, which every drain tries when nothing is claimable.
No fairness for producers, the client, the operator, crashes, outages or shutdowns.
In `WorkerLoop` the poll timer is not fair on purpose, so `JobsAreClaimed` is owed
to the signal alone. No run needs strong fairness.

### Disagreements between the code and what it says

Each of these runs ends in a counterexample; the quoted lines are in PROJECT.json.

| run | what happens |
|---|---|
| `money_carried` | an employee the client had to identify first; the next reply is silent on the hours asked about. They are labelled carried forward, and the backfill finds no row of the snapshot to fill them from: the run reaches approval without them |
| `naming_learned` | the original email names the suggested employee in full beside an unknown name; that full name is taken for the confirmation, and the unknown name is learned although the client never confirmed it |

More properties are stated in the modules that the code does not have in general.
No run of the project is spent on them; each is violated on the instance below,
which differs from the named configuration only in what the row says. Three
instances are named here:

* *crash instance*: `MCPayrollRun` with one reply, no resolution, the one purpose
  `"clarification"`, one crash (`MaxFaults = 1`), `MaxEpoch = 0`, `MaxRounds = 2`.
* *fast-reply instance*: `MCPayrollRun` with two replies, no resolution, that one
  purpose, no fault, `PromptReplies = TRUE`: a reply may overtake the settlement
  of the question it answers.
* *sleep instance*: `MCWorkerLoop` with one generation, one caller and no fault.

| property | instance | what happens, and where |
|---|---|---|
| `DuePendingIsClaimable` | `MCJobQueue`, 1 attempt | a stop during the last attempt leaves a pending row nobody can claim or reap (`jobs.py:541`) |
| `StopHandsBackEverything` | `MCJobQueue` | a settlement refused by the run's status forgets a token that is still leased (`drain.py:159`) |
| `OwedDeliveryIsQueued` | `MCDelivery`, 1 epoch, 3 attempts, no fault | a lease handed back under an unexpired handoff retires the send; the approved run has no job (`job_settlement.py:528`) |
| `NoUnorderedDuplicate` | `MCDelivery`, no shutdown, no fault | a retrigger between two replays gives the client a second confirmation (`emails.py:424`) |
| `ErrorIsRecoverable` | `MCDelivery`, no shutdown | the late error of a rolled-back approval blocks the settlement of the next one (`routes/runs.py:482`) |
| `RetryReopens` | `MCDelivery` | the review retires the job its retry button wants to reopen (`jobs.py:256`) |
| `NoSleepOverAJob` | sleep instance | of two workers one clears the signal meant for the other (`worker.py:199`) |
| `StopIsPrompt` | sleep instance | a worker clears the wake of `stop()` before another one waits on it (`worker.py:199`) |
| `LateIsNeverResumed` | `MCIngest` | a late reply ingested again (lease lost, or delivered anew) resumes the run if it waits by then (`ingest.py:81`) |
| `NoRunIsLost` | crash instance, no crash, 1 overrun | a worker whose lease ran out wins the status, its successor finds nothing to do and ends its job, and then the settlement of the first is refused by the fence: nobody owes the run its stages |
| `NoRunIsLost` | crash instance, no reply, 2 resolutions, no round, 2 crashes or exceptions | the handler of a superseded resolution raises before it sees that; its settlement rewinds the run under the worker that reclaims another job, which then finds nothing to do (`job_settlement.py:673`) |
| `FinalIsFinal` | crash instance | a reclaimed run job rewinds the run a reply's job drives; both are in the pipeline, the one's result is approved or rejected, and the other's plain write revives the run (`orchestrator.py:236`) |
| `QuestionBudget` | `MCPayrollRun`, no resolution, 2 rounds, 1 crash | two purposes and a round that a reclaim resets: each purpose asks from round 0 again |
| `WaitsForAnOpenQuestion` | crash instance | a rewind resets the round but not the epoch: the next question is taken for one already asked |
| `SingleSpine` | crash instance | the reclaim of one job rewinds the run another job is driving (`handlers/pipeline.py:130`); two replies and a retrigger of a run on its way (`MaxEpoch = 1`) do it without a crash |
| `RepliesPassOnce` | crash instance | a reclaimed reply job answers the question it asked itself (`handlers/resume_reply.py:58`) |
| `ApprovalStands` | crash instance | the reaper turns an approved run into an error (`job_settlement.py:59`) |
| `InternalWriteIsRedundant` | crash instance, 1 overrun | `_run`'s own EXTRACTING write is not redundant (`orchestrator.py:236`) |
| `ActiveHandoffWillSettle` | fast-reply instance | a second reply overtakes the settlement of a question: its handoff stays active for good (`job_settlement.py:450`) |
| `RepliesStayInEpoch` | fast-reply instance, 2 epochs | a reply of the previous conversation is processed in the new one (`handlers/resume_reply.py:66`) |
| `ResolutionsApply` | fast-reply instance, 2 resolutions, 1 round | a second resolution of a run is always superseded (`operator_resume_resolutions.py:281`) |
| `EscalationIsResolvable` | fast-reply instance, 1 round | a stale review marker makes an escalated run unresolvable (`routes/runs.py:1147`) |
| `HandledIsTheReview` | fast-reply instance | "Mark handled" looks at round 0 whatever question is under review (`routes/runs.py:315`) |
| `NamedDropsAreAsked` | `MCResumeMoney`, no fault | an employee renamed on the way has no pair in the snapshot: a drop is not seen |
| `ConfirmedDropHolds` | `MCResumeMoney`, no fault | the joined emails still hold the old hours in a later round, and the zeroed field is no longer overridden |
| `AnswersFollowQuestions` | `MCResumeMoney` | "asked" is committed before the question: the retry of the same reply classifies it as an answer to a question never sent |
| `FirstReportIsKept` | `MCResumeMoney` | a reclaim clears the snapshot; the next one is taken from a later extraction |
| `AlwaysRightPerson` | `MCNaming` | what a wrongly learned name leads to in a later payroll |
| `RememberedSurvives` | `MCNaming` | the reclaim of an operator's resume clears the names just ticked "remember" (`handlers/operator_resume.py:87`) |
| `LearnedIsUnique` | `MCNaming`, `MaxDelivering = 2` | two deliveries check one name before either commits; the write looks only at its own row (`pipeline_state.py:520`) |
| `DisclaimerIsShown` | `MCPayYear` | `paystub_line_items` has no column for the disclaimer of `calculate.py:284-287` |
| `SocialSecurityStopsAtTheBase` | `MCPayYear` | nothing advances `employees.ytd_ss_wages`, which the wage base reads (`calculate.py:271`) |
| `EarlierPayCounts` | `MCPayYear` | a period without an end date never counts in the year columns |
| `DownloadIsTheMail` | `MCPayYear` | an earlier period reconciled later changes the download, not the mail (`routes/runs.py:1434`) |
| `NetIsNeverNegative` | `MCPayYear`, `Payroll <- WholePay` | a contribution of the whole pay leaves less than the taxes (`calculate.py:110-113`) |

The passing run `run` has no crash and no retrigger. The rows above say exactly which
of its properties a crash, a fast reply or a retrigger breaks, so the boundary is
stated and not hidden; the theorems of section 4 stop at the same boundary. Likewise
`naming` has one delivery at a time, and its passing `RightPerson` assumes that the
roster's names are right.

## 4. Proofs

All theorems hold for any values of the constants that satisfy the assumption of
their module (`QueueAssumption`, `IngestAssumption`, ...): any sets of workers, jobs,
emails, runs, people, names, fields and amounts, any bounds. Where a theorem needs
more, its ASSUME says what, and section 3 has the counterexample without it. TLC
checked each strengthening on the instances above before it was proved. Each proof
module begins with what it needs of the transitions of a row.

`JobQueueProofs`:

* `TypeCorrect`; `OneClaimant`: `[]SoleClaimant`. It is not inductive: it says
  nothing of tokens a thread carries after its lease was lost. `TokenInv` adds that
  no token exceeds `minted`, that leased rows carry distinct tokens, and that two
  threads never carry the same one. A claim mints `minted + 1`, so it is new.
* `GracefulStop`: `[]StopHandsBack`. `StopInv` accounts for every token ever granted
  to a process: it is held, in the hands of a thread between its claim and its
  registration, or no longer on a leased row. `ForgetsOnlySettled`, `CleanStop` and
  `HandedBack` follow the stop from there to the release.
* `SettledIsFinal`: the fence never passes on a settled row, its token is NULL.
* `ExecutionsAreBounded`: `[]AttemptsBoundExecutions`, from `Bounded`: the threads that
  carry a lease of a job are no more than its `attempts`, which nothing takes back.
* `QueueKeepsPromise`: `Spec => KeepsPromise`, the safety refinement. Initial states
  map to initial states, and each action to a step of `JobPromise` or a stutter;
  `IdleCarriesNothing` says that an idle thread is nobody's holder.

`DeliveryProofs`: one inductive invariant, the conjunction of the types, the token
facts of a lease (`Tokens`, `Future`), what a recorded answer means (`Recording`,
`Answers`) and the properties themselves, because they lean on one another: a sender
is covered because its handoff is current, a review is quiet because a sender is
covered. Digests (`RunSteps`, `SlotSteps`, `JobSteps`, `PhaseSteps`, `HandoffSteps`,
`CoverEnds`) say once what any action does to each table, so that each conjunct is
proved from a digest and not action by action. Theorems: `DeliveryTypes`,
`FenceHolds`, `SenderOwnsHandoff`, `SentWasDelivered`, `ReviewRacesNothing`,
`ReplaysAreClaimable`, `DeliveredIsFinal`. `DeliveryKeepsPromise`: whatever the run, its
slot, the provider and the operator do to a send job, it stays a job of the queue.
`OnlyLeave` says that steps other than a claim let busy workers keep what they carry or
make them idle, so each action is a `Grant`, a conclusion by the one holder, or holders
who go.

`IngestProofs`: `IngestTypes`, `OneRun` and `AcceptedIsKept` from `Table` (rows),
`Workers` (carried tokens), `OneEach` (an email opens its run in the transaction that
stores it), `Decided` (an ingest job that is done has its email stored) and `Fresh` (a
stored receipt has its job, a purged one will have a new one). The purge is the hard
case: it removes a receipt, and its event may be accepted again.
`IngestKeepsPromise` is the refinement, from `Tokens`: a busy worker carries a token that
was minted for its job, and no other busy worker of that job the same.

`WorkerLoopProofs`: `BudgetHolds` and `OneRelease` from `Shape`, `Known` (a living
thread is of the current generation, and one of `_threads` or `_orphans`),
`Exclusive` (who is past the lock of `stop()` holds it) and `Unreleased` (the
generation a stop is about to release was not released before); `LoopTypes` adds
`Counters`.

`ResumeMoneyProofs`: `MoneyTypes`; `AnswersArePaid`, `NoSilentDrop`,
`ChangesReachTheOperator` and `NobodyIsAskedTwice` from `Opening` (before the first
reply nothing is answered or frozen), `Carried` (what memory holds between the two
commits agrees with the columns), `Questioned` (only a field the snapshot has hours
for was asked about) and `Uniform` (while the client uses one name every record
carries it). `StagesPay` and `StagesKeep` are the two lemmas about `_run_stages` the
rest cites.

`NamingProofs`: `NobodyIsPaidTwice` from `Shape` and the gate (`GatePaysOnce`);
`NamingTypes`, whose strengthening `Columns` adds that a full name is matched to its
owner and that only a delivery has names left to learn. For finitely many payrolls
and `MaxDelivering = 1`: `LearnedNamesReachOne`, from `Alone` (one post-send
transaction) and `Writing` (the roster it last read is the committed one with its own
writes, and what it wrote reaches one employee there); `TheRightPersonIsPaid`:
`[]RightPerson`, from `StandsFor` (a match is the roster's or the operator's), since
no delivery takes a name away from whom it reached (`LearnedKeepsMatch`). The premise
is needed: section 3 has the counterexample of `LearnedIsUnique` for 2.

Without a bound on deliveries, `NamesAreLearnedFromPayrolls`: `[]LearnedFromItsPayroll`,
from `Sourced`: the names of a payroll are those of its people, a record is bound to one
of them or to an employee whose alias the name already was, and a delivery writes only
what it has bound and nobody had. `WhatWasRememberedIsKnown`: `[]RememberedIsKnown`, from
`Carried`: as long as nothing is lost, a name the operator ticked stays bound whatever
passes follow, and the roster a delivery checks against is never ahead of what is written.

`PayYearProofs`: `MailedFiguresAreKept`: `[]MailedIsPaid`, from `Shape` and `Slotted`: a
run that may be computed again has no slot, as a retrigger starts a new epoch.
`AmountsAreNeverNegative`: `[]TypeOK`, from `Typed` and lemmas about the arithmetic:
every wage finds its row in each of the four tables, and every amount but the net is a
natural number of cents. Its assumption on employees and emails is what the validating
models admit (`models/roster.py`, `models/contracts.py`). Four more theorems rest on
`Figured` (a stored paystub is what `calculate()` made of its payroll):

* `WithholdingFollowsTheTables`: `[]WithholdingIsMarginal`, for any roster and hours. Case
  by case over the rows of the tables: the printed base of a row differs from the
  tax of the slices below it by at most 12 cents, and each pay period rounds once.
* `MoreHoursNeverCost`: `[]MoreHoursMorePay`, for hourly rates of at least 600 cents,
  salaries of at least 1,248,000 cents a year, and contributions of at most 80 %. Below,
  the roundings of five amounts can eat the cents of a quarter of an hour; above, nothing
  is left of a raise in the highest bracket. The whole roster of `MCPayYear` satisfies
  the premise. Withholding grows by no more than 37 cents per dollar and a rounding.
* `TheColumnsAreTheYear`: `[]YearToDateIsTheYear`, for finitely many payrolls:
  `TheYearIsCounted` (where periods are complete and disjoint, the WHERE clause and
  the calendar agree) and the law that a total over a set and one more payroll is the
  total and its amount.
* `MailedStaysTrue`: `[]MailedNeverOverstates`, for finitely many payrolls, from `Honest`
  (what a slot froze of the year is no more than the books of now): a total only grows,
  since no reconciled payroll is computed again and no amount is negative.

The totals are folds over sets. Their laws need an induction, and the induction theorems
of the library take an operator. `WFMin` does not: a law that fails somewhere fails for a
smallest set, and of that one a member can be taken away.

### `PayrollRunProofs`

The invariants go from what always holds to what needs a quiet system.

*Always.* `Typed` adds to `TypeOK` that a draft has a purpose and a round of its run
(`RunTypes`). `QuestionsFit`: a question's round is below the cap, hence
`PurposesHaveBudgets`, and with one purpose `OnePurposeOneBudget`. The rounds of one
conversation can be reset by a reclaim, so `QuestionBudget` itself is false with crashes
and two purposes. `RunKeepsPromise`: for any number of crashes and overruns the jobs of a
run keep the promise of the queue, from `Tokens` as in `IngestProofs`; a settlement that
the fence refuses is a holder gone and concludes nothing.

*Through crashes, reclaims, reaps and retriggers.* `Leased`: with `MaxOverruns = 0` a
worker at a job holds its unexpired lease, and no two workers hold one. `Kept` adds
`Gate` (a superseded resolution stops at its gate), `Ahead` (jobs of later epochs have no
row) and `Minded`: while the run is on its way, some job `Minds` it, as a pending row that
a claim will drive, an abandoned one that will be claimed or reaped, or at a worker that
`Drives`. `NoneIsLost` follows for any number of resolutions, as long as no superseded one
raises; `NoneIsLostOnce` has no such premise but at most one resolution or no fault,
through `Vouched` (a resolution with a job has an authority in the run). Between them they
cover both runs that check `NoRunIsLost`.

*While nothing crashes and no lease runs out* (`MaxFaults = 0`, `MaxOverruns = 0`). Stage
failures, retries, backoffs, late replies, escalations and resolutions remain. `CalmSpec`
is `Spec` whose retriggers come at `error` or `approved` only (`RetriggersAtRest`); without
retriggers it is `Spec` (`NoRetriggers`), which is the instance of `run`. `Driven` says
that at most one job is the run's `Driver`, ready or at a worker, and that the status
says how far it is (`Agree`). Then `OneSpine`, `ApprovalsStand` and `FinalStays`;
`RepliesPass`, from `PassedOnce` (a reply whose job is not through took the run nowhere);
`ConversationsHaveBudgets`, from `Fresh` (a new question is of the round the run is in, so
no two share one); and `WaitingIsFounded` (`PromptReplies = FALSE`), from `Readers`,
`Linked` (who answers what was settled) and `Sending` (the handoff is the question's being
sent). `WaitsForAnOpenQuestion` has the premise that the active handoff will settle: the
fast-reply instance breaks the one and then the other.

### Only proved, only model-checked

Every invariant, action property and refinement of the passing runs has a theorem. The
type invariants (`TypeOK` of every module) and the refinement of `JobPromise` by `Ingest`
have theorems only: TLC checked both on the instances above before they were proved, and
no run is spent on them now. Liveness (`JobsSettle`, `JobsAreClaimed`, `AcceptedIsDecided`,
`RunComesToRest`) stays with TLC: it needs fairness and ENABLED, which the provers cannot
reason about.

## 5. Not modelled

* Extraction and the language model, the drafting of emails, cleaning of bodies and
  parsing of headers: external or character-level. Their result is a choice, a
  failure included.
* The counters of a pump request (its drain is `drain_once`, its purge is in
  `Ingest`); signature check and envelope parsing of the webhook.
* Normalisation of names: two spellings that normalise alike are one token. The
  reasons the gate gives and the wording of issues.
* Head of household: no employee can have that status. Vacation, sick and holiday
  are one field, contributions whole percents, and `Decimal` is exact (its 28 digits
  are never reached).
* Several employees with their hours at once: `ResumeMoney` follows one, with the
  rest of the payroll as a choice that may hold the run up; `Naming` has no hours.
* `retry_clarification_delivery_now` changes nothing: the job of a reviewed
  question is settled, so the route always answers that it is not pending.
* Read-only pages, layout of documents, demo data and seeds, schema bootstrap and
  checks, configuration, frontend, evaluation and maintenance scripts: no state of a
  payroll is decided there.

## 6. What is left

In order of weight:

1. `Delivery` and a question's send in `PayrollRun` share the handoff of a run. A
   composition of the two would replace the merged `question` of `PayrollRun`.
2. The pump's bounded drain beside the workers, with its limits.
3. `PayrollRun` with crashes: what remains of one driver per run, given that a reclaim
   of one job rewinds the run of another.
