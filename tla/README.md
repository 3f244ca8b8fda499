# Formal models of honest-alpha-lab

TLA+ specifications of the stateful core of honest-alpha-lab, model-checked with
TLC, their safety properties proved with TLAPS. `src/` paths below are those of the
repository. `PROJECT.json` maps every definition to the lines it models.

To check one instance: `tlc -config TrialQueue.cfg MCTrialQueue.tla`; to check the
proofs of a component: `tlapm TrialQueueProofs.tla`, and likewise
`SupervisorProofs`, `TradingProofs` (trade control and the paper books),
`ProposalJobProofs`, `ResearchJobsProofs` (with the gate), `ResearchLoopProofs`,
`PointInTimeProofs`.

## 1. The system

A research laboratory in which language-model agents propose trading formulas and
trusted code evaluates them under budgets that nothing may stretch. What it calls
honest is mostly a matter of state: every trial is counted before it runs, a
holdout is used once, an order leaves once, retries reuse what was frozen.

```
 operator ── console ──► trade control ──► order journal ──► broker
                              ▲ dispatch_ready
 supervisor ── leases ──► job child ─┬─ execution job
   (SQLite)                          ├─ proposal job ── CLI agent
                                     │        └─ submit_formula ─┐
                                     ├─ numerical job ── claims ─┤
                                     └─ portfolio job            ▼
                                                    trial store (PostgreSQL)
```

### Inventory

| Component | State | Operations | What is hard |
|---|---|---|---|
| Trial store, `sql/001_store.sql`, `postgres_store.py` | runs, reserved counter, trials, queue rows, hash-chained records, notes, sealed records | create_run, reserve_trial, claim, heartbeat, reclaim, complete, fail, append_graph_event, seal_result | concurrent workers, lease expiry, repeated and late calls, lost replies, budgets |
| Supervisor, `supervisor.py` | campaigns, jobs, attempts per UTC day; service and child processes | add, pause/resume, enqueue, claim, heartbeat, finish, recover; `step`, `serve`, `_job_child` | crashes between transactions, clocks read before lock waits, orphaned children, caps |
| Trade control and order journal, `trade_control.py`, `webull_paper.py` | kill switch, book policies, proposals, journal rows | configure_book, halt, propose, review, dispatch, dispatch_ready, submit | two databases and a network; concurrent dispatchers; stale quotes; policy changes |
| Console server, `console_server.py` | sessions | HTTP requests to trade control | threads |
| Campaign workers and CLI agents, `campaign_workers.py`, `cli_agents.py` | spec, input, proposal and result checkpoints; task package; scratch workspace | execute, FileTaskStore.create, CliSubagentWorker.run | kills between any two file operations; one billable invocation |
| Numerical pipeline, research loop and vault, `pipeline.py`, `research_loop.py`, `research_vault.py`, `artifacts.py` | a coordinator's round, the vault's files, each worker's lease and child, artifacts | submit_formula, process_one, development_feedback, run_round, drain, record_round | coordinators and workers killed anywhere, a child that outlives its lease, run expiry |
| Subagents, orchestration, tools, `subagents.py`, `orchestration.py`, `tools.py` | usage and data cost of a job, blocked jobs | submit, run_next, execute | concurrent calls of one job, overruns, usage settled after the fact |
| Collection, `collection.py` | attempts and bytes charged in a file | reserve, finish, the collecting child | processes sharing one budget file, children left behind |
| Ledger, `ledger.py` | candidate states, events | register_batch, transition | life cycle order |
| Sealed gate, `evaluation.py` | sealed attempts | SealedTestGate.run | a crash must consume the holdout |
| Paper trading and engine, `paper_trading.py`, `portfolio.py` | a book's ledger of signals and bars, its committed days | create_book, ingest_book, PortfolioBacktester.run | events in any order, replays, clocks, several passes of a day over one balance |
| Data registries, `alternative_data.py`, `asset_mapping.py` | datasets and exposure maps with their status | discover, register, approve, reject, build features | decisions after use, immutable copies |
| Features, snapshots, panels, walk-forward, `features.py`, `snapshots.py`, `panel.py`, `numerical.py` | dated records; the files of a snapshot | materialize, create, open, panel, evaluate | late revisions, races and kills of creators, outcomes that overlap a fold |
| Models, regimes, workflows, formula language, command line, web console | none that interleaves | pure computations | numerical, left to the tests |

What makes each of the modelled components correct:

- *Trial store*: reservations never exceed the budget and are numbered without
  gaps; a lease a worker was told of is honoured; a trial ends once, with one
  result, or after its last attempt; the audit log tells the state of every row.
- *Supervisor*: one open job per campaign, one executing attempt per job, results
  only from the last attempt, the daily cap counts everything, and the service
  goes on.
- *Trade control*: one order per proposal, only under the authority and to the
  broker of the policy it was proposed under, caps that failed attempts spend
  too, and two databases that agree after any crash.
- *Proposal jobs*: the CLI is paid for once, checkpoints never change, results are
  complete, every trial is traceable to the submission that asked for it.
- *Research loop*: agents propose knowing every result and every earlier idea, all
  trials settle, a stored result keeps its evidence.
- *Jobs, tools, collection*: charges cover what was consumed, whoever dies; only
  accounted runs publish.
- *Sealed gate*: one test for each holdout, of a validated candidate.
- *Paper books*: committed days never change, the books add up, fills were possible
  and, in a forward book, decided before the day.
- *Evidence*: no panel and no prediction knows more than its session could; a manifest
  vouches for its directory; a feature rests on approvals that stand.

## 2. The modules

| Module | Models | Checked by |
|---|---|---|
| `AttemptedWork` | what a durable work queue promises of each item | as a property of the two below |
| `TrialQueue` | `sql/001_store.sql` | `MCTrialQueue` |
| `TrialQueueProofs` | theorems about `TrialQueue` | TLAPS |
| `Supervisor` | `supervisor.py` | `MCSupervisor`, three configurations |
| `SupervisorProofs` | theorems about `Supervisor` | TLAPS |
| `TradeControl` | `trade_control.py`, the journal of `webull_paper.py` | `MCTradeControl` |
| `ProposalJob` | the proposal branch of `campaign_workers.execute`, `CliSubagentWorker.run`, `submit_formula`; its store steps are actions of `TrialQueue` (`Store == INSTANCE TrialQueue`) | `MCProposalJob`, two configurations |
| `ProposalJobProofs` | theorems about `ProposalJob` | TLAPS |
| `ResearchLoop` | `QueuedResearchLoop`, the vault, `process_one` and its child; over `TrialQueue` as above | `MCResearchLoop` |
| `ResearchLoopProofs` | theorems about `ResearchLoop` | TLAPS |
| `AlphaRegistry` | `ledger.AlphaRegistry` | by the next two, which extend it |
| `SealedGate`, `OneShot` | `SealedTestGate.run`; what a gate in front of items that may be used once promises | `MCSealedGate` |
| `ResearchJobs` | `SubagentOrchestrator`, `ResearchQueue`, `ToolRouter`, `PublicDocumentCollectionTool` with its budget | `MCResearchJobs` |
| `ResearchJobsProofs` | theorems about `ResearchJobs`, and about `SealedGate`, which scores the candidates of the same registry | TLAPS |
| `SumTheorems` | what the proofs need to know of sums over finite sets and of folds in the order of numbers | TLAPS |
| `Backtester`, `PaperBook` | `PortfolioBacktester.run` as a function; the books that replay it | `MCPaperBook` |
| `TradingProofs` | theorems about `PaperBook` with its engine, and about `TradeControl` | TLAPS |
| `EvidenceFeatures`, `WalkForward` | `features.py`, panels, labels and folds, as operators on sets of dated records | by `PointInTime` |
| `DataRegistry`, `SnapshotFiles` | the two registries; the files of a snapshot | by `PointInTime` |
| `PointInTime` | the composition of those four: records arrive, features are built, exported and read | `MCPointInTime` |
| `PointInTimeProofs` | theorems about `PointInTime` and the operators it is made of | TLAPS |

`AttemptedWork` is the abstract specification: an item is admitted, started at most
`limit` times, and completed with one outcome or given up after the last start.
`ImplementsWork` in `TrialQueue` and in `Supervisor` says that PostgreSQL's queue
and the SQLite one both implement it. Its `Next` is a conjunction over the items
because one transaction of the code can move several (`reclaim`, `claim`'s
recovery).

Operators named `Slip...` are wrong variants of the definitions below them; no
specification uses them. They document which mistake each property would notice
and are the mutants of `PROJECT.json`.

### TrialQueue

State: the tables `runs`, `run_state`, `trials`, `queue`, `records`,
`graph_events`, `honest_alpha_sealed.records`, and three history variables:
`known` (leases whose reply arrived), `told` (the latest deadline the worker was
told of), `acked` (results confirmed to callers). One action per SQL function;
each runs in one transaction and locks the rows it reads, hence one step. Rejected
calls are stuttering. Every call may commit without its reply arriving.
Timestamps are remaining times, counted down by `Tick`, so that no clock grows.
A lease token, a fresh UUID in the code, is named by the attempt it belongs to.
The hash chain of `records` is abstracted to the order of the sequence. The order
in which `claim` picks among claimable rows is left open, which covers SKIP LOCKED.

### Supervisor

State: campaigns, jobs, today's attempts, each service's program counter in
`step()` and the child process of each attempt. Store methods are one action each;
`step()` is the sequence claim, launch, watch (with heartbeats), stop, report, and
a service can crash anywhere and is restarted (`Crash`, `Restart`, which also
stand for a `step()` that raises and the next one). Children outlive their service and end by their own
watchdog. Two timing details matter and are kept:

- a store method reads the clock, then waits for SQLite's lock. The reading is up
  to `MaxWait` old when the transaction runs;
- the allowance of a child starts when its process arms the watchdog, up to
  `MaxLaunch` after the clock reading of its claim.

The passing runs assume `MaxLaunch < Margin` (5 s in the code). This is an
assumption about the machine and not something the code enforces:
`SupervisorLate.cfg` drops it and finds two attempts of one job executing at once
(section 5). Not modelled: midnight between the clock reading and the
transaction, and a child's death between sending its message and ending, which are
one step.

### TradeControl

State: kill switch, all policies of each book, the proposals, the journal's rows,
the requests that left for the broker (history), the day, and each dispatcher's
program counter. A dispatch is several steps: reserve (transaction), refresh the
quote (network), journal (transaction in another database), post (network), record
the answer in either database. A dispatcher may die, or the network raise, between
any two; nobody repairs a proposal left `unknown`, by design. Policies keep mode,
approval, the set of proposals their limits admit, and the daily cap; the numeric
limits of an order are that set. A proposal ID fixes its intent, so intents are
constants; the live arming is a constant of the process, as its environment is.
The journal's branch for an intent that is already journaled cannot be reached
from `dispatch`, which reserves a proposal once.

### ProposalJob

State: the files of each job, where its attempt is, what the attempt holds in
memory, and the store. A checkpoint is two steps, create and write
(`_exclusive_write`), and can be left or read torn; `_write_json` replaces
atomically and is one. An attempt can be killed between any two steps, CLI
included, and restarted while attempts are left. Candidates are a formula (one per
canonical hash), `Idea` (no formula) or `Invalid` (refused by the plan). Attempts
of one job do not overlap: that is `Supervisor`'s `NoOverlap`, with its
assumption. Each instance has one run; `RunExpires` spends its wall-clock budget
at any time. The memory of a job is the set of jobs whose proposals it read.

### ResearchLoop

State: where the coordinator is in `run_round` and what its agents were shown, the
vault's files, what every worker has in hand, the artifacts, and the store. A round
reads the measured results, reads the vault, lets the agents propose (any of
`Answers`), records the round file by file (create, then write: a kill leaves a
`Torn` file that makes later readings raise), submits each candidate with the three
store calls of `submit_formula`, drains, and reads the results again. The
coordinator drains with its own worker login; other workers call `process_one`
beside it. A child publishes three artifacts, one after the other, before it
answers; it can refuse, fail, hang, or be killed with its worker, and its worker can
lose its lease or the reply of any call. Coordinator and workers can be killed
between any two steps. `RunExpires` as above.

### SealedGate and AlphaRegistry

State: the registry's statuses and events, the gate's rows by holdout, and each
evaluator's place in `run` with the copy of the candidate it was called with. The
row is inserted first, then the candidate is checked, scored, and the row completed
or failed; each is one SQLite statement and one step. An evaluator can die, a write
can fail, and the registry moves on meanwhile. The history variable `scored` has the
candidates each holdout was scored with. `ImplementsOneShot` maps a holdout to
unused, taken, tried, reported.

### ResearchJobs

State: each job's run and batch, the usage of the queue, the router's costs and
blocked jobs, each tool call, what its provider charged, and for collections the row
in the budget file, the collecting process and its child. `run_next` is the sequence
claim, work, record usage, publish, and threads of a worker may go on calling tools
when it has returned. A tool may take up to `Overrun` more than its maximum. A
command-line collection shares the budget file with the tool and may die, and its
child goes on. Of a usage's four quantities, trials and data cost are kept; time and
tokens may make any run fail.

### Backtester and PaperBook

`Backtester` defines the engine day by day: opening exits, opening limits, intraday
exits and limits, exits of the day's entries, the close, the sleeves that are due,
and the new orders, with capacity, buying power, commissions and borrow charges. It
is a function of bars and signals. Amounts are integers; where the code divides, the
model rounds towards zero, so that a quantity is never larger than the code's. The
borrow rate is per day. There is one order of an asset at most, and the code takes
assets in the order of their names, so the book of orders is a function of assets
(`FillOrders` walks through it in the order of their numbers); the ranking of a sleeve
says of each asset how many candidates are worse. `PaperBook` has one action per call: `ingest_book` replays
the whole ledger and commits the last day if the earlier ones come out the same. A
call that raises, and the retry of an event that is there, are stuttering. The clock
of a forward book may be set back, in the model by one unit before the last event at
most: from there on every call fails until it has caught up.

### PointInTime and the modules it composes

A record carries the moments at which it was published, extracted or became
available. `Tick` lets time pass and lets the records of that moment arrive in the
archive; those of `Unreliable` may be lost. Features are built either through the
registries (`DataRegistry`) or by the compiler (`Compile`), whose build `Export`
puts into a snapshot with its evidence, whole or without its last rows. Creators
write it (`SnapshotFiles`), and the properties read it: as panels from any first
day, and as walk-forward predictions.

`Contemporary(i)` is what the same plan would have given at session `i` from the
records then known. `PanelKnowable` says that the panel of the finished snapshot
shows the same at that session, `PredictionsKnowable` that a prediction made from it
is fitted to the same rows and asked about the same scores. A prediction is modelled
as those two, whatever the model between them.

Left out: the half-life decay of events, sector and market returns with their betas,
the baseline library, and the measures computed from predictions.

## 3. Runs

| Run | Instance | What it shows |
|---|---|---|
| `trial_queue` | 2 candidates, 2 workers, budgets of 1 trial with 3 attempts or 2 trials with 1, leases up to 2 ticks, lost replies, notes and seals, fair polling | `TypeOK`, `LeaseHonoured`, `AckedResultStored`, `NoTrialStranded`, `AuditReconstructsQueue`, `BudgetRespected`, `NothingUndone`, `ImplementsWork`, `EveryTrialSettles` |
| `supervisor_services` | 2 jobs of a campaign, 2 attempts each, 2 services that crash, cap of 2 | `OnlyCurrentRuns` (which implies `NoOverlap`), `OneOpenJob`, `PublishedByLastAttempt`, `DailyCapRespected` |
| `supervisor_live` | 2 jobs, 1 service that crashes and reads old clocks, cap of 1 | `ImplementsWork`, `CampaignGoesOn` |
| `supervisor_late_launch` | 1 job, 2 services, launch slower than the margin | `NoOverlap` is violated: finding 1 |
| `trade_control` | 2 proposals of size 1 and 2, 2 dispatchers, policies of each mode, 2 days | `OneAttempt`, `OrderAuthorised`, `DailyCapRespected`, `RecordedBeforeSent`, `NothingReopened` |
| `proposal_jobs` | 2 jobs with equal formulas, 2 attempts each, and another proposer, 2 trials | `OneInvocation`, `FrozenStays`, `ResultComplete`, `TrialsTraceable` |
| `proposal_recovery` | 1 job, 2 attempts | `ResponseRecoverable` is violated: finding 2 |
| `sealed_gate` | 2 evaluators, 2 gates of different policies over one holdout, 1 candidate | `ImplementsOneShot` |
| `research_jobs` | 2 jobs, 2 tool calls, 1 command-line collection, any 3 of them | `CostCoversPaid`, `PublishedAccounted`, `CollectionCovered` |
| `research_loop` | 2 rounds, 1 worker beside the coordinator's, 1 trial with 2 attempts, 2 round ids | `RoundsInformed`, `EvidenceStored`, `DrainSuffices`, `TrialsSettle` |
| `paper_book` | 3 days, 2 signal batches, 2 assets, a long-short and a long-only sleeve, both modes | `HistoryStable`, `BooksBalance`, `FillsExecutable`, `ForwardCommitted` |
| `point_in_time` | 6 sessions, 4 assets, 5 vintages with a late revision, a withdrawal and a newer observation, 5 plans, 3 formulas, 2 creators with 2 starts each | `PanelKnowable`, `PredictionsKnowable`, `SnapshotSound`, `GovernedFeatures` |

Every module that has variables states its types as `TypeOK`. For the trial queue it
is a property of the run and a theorem, for the gate and the paper books a theorem;
the other
configurations spend their time on the properties above.

### Bounds

- Two actors of each kind, because every race in this code is between two: two
  claimers of a row, a stale holder and its successor, two dispatchers of a
  proposal, two jobs submitting one formula, two evaluators of a holdout, two
  creators of a snapshot. The components treat a third like the second.
- Two attempts (three in `trial_queue`) give a first, a retried and a last one, and
  a stale token of an attempt that is two claims old.
- Two candidates for a budget of one let it run out; two trials of one attempt let
  `reclaim` move two rows in one transaction.
- Leases and margins are small numbers of ticks, yet long enough that a heartbeat,
  an expiry and a late call can fall before, at and after each other.
  `Timeout = Margin = 2` with `MaxWait = 1` (`supervisor_live`) lets a reading of
  the clock be late by less than the margin; a cap of 1 forces the service through
  an idle day. One service is enough there, for it can crash, come back and find
  its child still running; `supervisor_services` has two, with clocks on time.
- `MaxRevisions = 2` lets a policy be replaced by another one, or by an equal one that
  is nevertheless a new revision. `MaxDay = 2` lets a cap renew.
- `MaxRounds = 2` gives a round that must learn from an earlier one, possibly killed
  and possibly under the same round id; one trial of two attempts is the smallest
  run whose drain has a call to spare or not.
- `MaxStarted = 3` in `research_jobs` bounds jobs, calls and collections together:
  races are between two of them, with a third to make them short of budget.
- Bars in `paper_book` are a flat one, a crash that triggers stops and has neither
  volume nor borrow for a full exit, a rally that takes profits, and a missing one.
  `Stamps` are a time before, on and after the first date; `MaxDate = 3` gives a
  day to decide, one to fill and one to replay.
- In `point_in_time` a fold trains on one session and tests on one, with an embargo of
  one, so that sessions 5 and 6 have predictions. The records were chosen for late
  knowledge of every kind; each occurs before and after the session it concerns.
- The counters that would grow without end (jobs of a campaign, revisions, days,
  rounds, starts, the clock) are bounded in the guards by the constants whose names
  begin with `Max`.

Two configurations use a view. `NoLog` of `research_loop` leaves out the audit log,
notes, seals and the history variables of the store, which no guard and no property
there reads. `View` of `point_in_time` forgets, once a snapshot is exported, the
clock, the archive and the registries: nothing after the export changes them, and
the creators and the properties that follow read only the snapshot.
`GovernedFeatures`, which does not, is about states that all occur before an export.

Deadlock is checked where the system must go on (the supervisor). The other systems
come to rest when all work is settled or a bound is reached, so their
configurations switch it off. Symmetry is used in safety runs only, over sets whose
members the module does not tell apart.

## 4. Fairness

- `TrialQueue!FairSpec`: time passes, and some worker keeps calling `reclaim` and
  `claim` (the loop of `research_loop.py` and the numerical jobs poll). Nothing is
  assumed of the worker that holds a trial: it may stop, and every reply may be
  lost. `EveryTrialSettles` is conditional on the trial's worker not renewing its
  lease for ever.
- `Supervisor!FairSpec`: time passes, services and children take their steps; `serve`
  loops until it is told to stop and is restarted by its service manager after a
  crash. Crashes, operator actions and slow locks get no fairness.
  `CampaignGoesOn` assumes that from some time on there are no crashes and the
  campaign stays active; without the first, a service that always dies between
  claim and finish makes no progress.
- `ResearchLoop!Spec`: the database clock advances and every worker is called again
  and again (the numerical jobs of the supervisor, the drain of the coordinator); a
  child answers or is ended by its timeout. Nothing is assumed of the coordinator,
  which may stop for ever. Here a worker renews its lease only while its child runs,
  which is what `EveryTrialSettles` had to assume: `TrialsSettle` needs no such
  condition, and ends only where the run's wall-clock budget does.
- The other modules promise no progress: an unanswered order stays `unknown`, an
  interrupted job stays interrupted, a torn snapshot file blocks its directory, a
  consumed holdout stays consumed. They have safety properties only.

## 5. Findings

1. *Lease margin.* `docs/always-on-service.md:107-109` says that leases cover the
   deadline plus a cleanup margin, so that recovery does not race a worker within
   its allowance. The lease is counted from a clock reading that precedes a lock
   wait of up to 10 s and the start of the process, the allowance from the child's
   own watchdog. If both together exceed the 5 s margin and the service dies before
   its first heartbeat, a second attempt starts beside the first
   (`supervisor_late_launch`).
2. *Recovery of a final response.* `docs/always-on-service.md:71-72` says that a
   completed CLI response can be recovered without another invocation. In research
   mode, which proposal jobs use, the response lies in the scratch workspace until
   the parent has parsed and copied it; an attempt killed before that leaves a
   package without a response, and every later attempt gives the job up without
   looking at the workspace (`proposal_recovery`).

## 6. Proofs

`TrialQueueProofs` proves for all values of the constants, under the assumptions
that `TrialQueue` names (`BudgetsAssumption`, `TimeAssumption`, `NoneAssumption`,
`NamesAssumption`), that TLC evaluates on every run:

- `TypeCorrect`: `Spec => []TypeOK`.
- `LeaseSafe`, `RetriesSafe`, `CompletionSafe`, `SealSafe`: the invariants
  `LeaseHonoured`, `NoTrialStranded`, `AckedResultStored`, `SealedOnlyCompleted`.
- `BudgetSafe`: `BudgetRespected`.
- `QueueImplementsWork`: `Spec => ImplementsWork`, the refinement of `AttemptedWork`.
- `AuditSafe`, `NeverUndone`: `AuditReconstructsQueue` and `NothingUndone`.

None of the four row invariants is inductive alone. A reservation writes a fresh
row: unless it is known to find none, it could reset a running or a completed one,
and with it what a worker was told, what was acknowledged and what was sealed. The
retry tests agree only because a running row has used its last attempt at most, and
because a row's `max_attempts` never differs from its run's. `RowsInv` conjoins
these facts with the four properties, trial by trial (`TrialInv`): a row exists
exactly when the trial has a reservation number, its limit is its run's, and each
state bounds the attempts. `RowsStep` proves it preserved with one step per
action; the trials an action leaves alone follow from the lemma `Untouched`. What
`BudgetRespected` says is inductive with `TypeOK` only: a reservation takes the next
number, so the numbers given out stay 1 to `reserved`.

For the refinement, `StepMoves` says in four words what any step does to one row
(`Reserves`, `Claims`, `Releases`, `Completes`, or nothing), and one case per word
shows it to be a step of `AttemptedWork` for that item. A step of the code may move
several rows, which is why `AttemptedWork!Next` is a conjunction over items. The audit
log needs `Recorded`, that the last record about a trial is the one of its last
change, and that a reservation finds no record about its trial. `NothingUndone` is an
action property that follows from the same four words and from `BlankInv`: a row that
does not exist has no attempts and no result.

`ResearchJobsProofs` proves of the gate, from no assumption at all, `GateTypeCorrect`
and `GateImplementsOneShot`: `GateSpec => ImplementsOneShot`, the refinement
itself. The invariant `GateInv` says that whoever is past the insertion of a row is alone there and
the row exists (`Sole`), that a holdout is scored once at most and only after that,
by an evaluator that was admitted (`ScoredInv`), and that what an evaluator holds as
validated has a validation event, however old its copy is (`HoldsInv`,
`RegistryInv`). One lemma per action proves it preserved (`InsertKeeps`, ...), one
per action that moves a holdout proves what the move is in the words of `OneShot`
(`ScoreMaps`, ...).

`TradingProofs` proves of `TradeControl` `OneAttempt`, `RecordedBeforeSent`, `OrderAuthorised` and
`NothingReopened` (`AttemptSafe`, `RecordsSafe`, `AuthoritySafe`, `SettledSafe`), for
any number of proposals, books, policies and dispatchers, under the assumptions of
`TradeControl`. A reservation makes its dispatcher the only one ever to work on the
proposal (`Sole`); where it is in its work says what the journal and the control
database hold (`DispatcherInv`, `Stage`); and a proposal's revision, once drawn, is one
its book keeps, so that its terms never change (`ProposalInv`). What lets the broker be
asked once is in `Stage` alone: an attempt that is about to be journaled finds no row
there. `CapSafe` is `DailyCapRespected`. Its invariant `CapInv` adds that only reserved
proposals have a day and that they are finitely many, since the theorem is about any
set of proposals. A reservation is charged under the policy in force, the book's
latest, so no sum of an earlier policy counts it (`CapReserve`); a new policy leaves the
terms of what is reserved as they are (`CapConfigure`).

`SupervisorProofs` proves every safety property of the supervisor, for any number of
campaigns, jobs and services, under the assumptions of `Supervisor`.

- `OneOpen`, `PublishedRight`, `DayCapped`: `OneOpenJob`, `PublishedByLastAttempt`,
  `DailyCapRespected`. The invariant `IInv` says of each job that it is open only if
  it is its campaign's latest, and that its token is its latest attempt while it runs
  (`JobInv`); of each child that it belongs to an attempt the job has had
  (`ChildInv`); of each service which attempt it holds and what its child has told it
  (`ServiceInv`); and that no two services hold the same attempt (`OwnAttempts`),
  without which one could publish what the other's child sent. The cap is proved
  apart, from the fact that a claim adds one start to the day.
- `QueueImplementsWork`: `Spec => ImplementsWork`, as above with five kinds of move.
- `CurrentOnly`, `OneAtATime`: `OnlyCurrentRuns` and `NoOverlap`, *if*
  `MaxLaunch < Margin`, which is a hypothesis of the two theorems and not an
  assumption of the module. It is what the code relies on without enforcing it: the
  wait for the write lock and the start of the process together must take less than
  the five seconds by which a lease exceeds the job's timeout. The run
  `supervisor_late_launch` is the instance without it, in which `NoOverlap` fails
  (finding 1). `TimeInv` says that the lease of the current attempt outlives its
  child's watchdog, or the launch and the watchdog while the child is starting, and
  that a heartbeat, even with an old clock, never shortens it below that; so when a
  lease is seen expired the child is dead.

`ProposalJobProofs` proves all four properties of the run `proposal_jobs`:
`InvokedOnce`, `ResultSafe`, `TraceSafe` and the action property `FrozenSafe`, for any
set of jobs, specifications and responses. `ProposalJob` composes with `TrialQueue`,
so the proof takes from the store what its calls do to reservations and notes
and nothing else. The invariant goes file by file: which files exist bounds the
step a job can be at and the other way round, a package exists before the invocation
is counted (`CliInv`), each published item is accounted for (`PublishInv`,
`Accounted`), and a link note is written after its trial (`LinksInv`).

The store inside its clients: `ProposalJob` and `ResearchLoop` call the actions of
`TrialQueue` but have a `Next` of their own, so a theorem of `TrialQueue` is not one of
theirs. `ClientsSafe` of `TrialQueueProofs` makes it one, for any behaviour of a client
that starts with runs but no trials and changes the store by its own steps only. The
invariant that carries it (`StoreGood`) collects those of the store's theorems.

- `JobsUseStore`, `LoopUsesStore`: every step of the jobs, and of the coordinator and its
  workers, is a step of `TrialQueue` or leaves the store alone. What has to be shown is
  that they call it only as `TrialQueue` lets a client: notes and candidates are
  those it knows, and a worker uses only a lease it was handed (`ReceiptsInv`: what it
  has in hand is a claim whose reply arrived, however long ago).
- `JobsKeepStore`, `LoopKeepsStore`: the store's invariants, `NothingUndone` and, in the
  loop, `ImplementsWork` hold in the compositions. Their runs do not repeat these
  properties. The definitions of the instance with the proofs (`Queue`) and of the
  model's own (`Store`) are shown to be the same (`SameNext`, `SameProperties`).

`ResearchJobsProofs` proves also the three invariants of the run `research_jobs`, for any
finite sets of candidates and tool calls. They are about different variables, and each
has its own inductive invariant.

- `CostSafe`: `CostCoversPaid`. A job's cost is exactly the sum of what it holds for its
  calls (`CostInv`, `HeldFor`): the bound from the reservation on, the payment once the call
  is settled or has overrun. While its calls keep to their maximum it is also within the
  budget: a reservation tests that, and whatever comes later lowers the cost, or is an
  overrun, after which the condition is false (`CallGoesOn` and the lemmas that use it).
- `PublishedSafe`: `PublishedAccounted`. A registered candidate is in a completed run's
  batch and in no other's, and a run that publishes has recorded its usage
  (`PublishedInv`, `Accounted`).
- `CollectionSafe`: `CollectionCovered`. `FetchInv` says what each row's status says of
  the process and its child. What makes it hold is that a child that can still make
  requests never has a row that was given back (`ChildKeeps`), whoever died.

`ResearchLoopProofs` proves the three invariants of the run `research_loop`, for any
number of workers, trials, attempts and rounds, under the assumptions of `ResearchLoop`,
which imply those of `TrialQueue`. `StoreMoves` says what a step of any
actor does to the rows of the queue (`StepMoves`): nothing, a claim, a release, a
completion by a worker that holds an answer, or the reservation of the proposal at hand.
All else is about those, and one invariant, `IInv`, serves the three.

- `EvidenceSafe`: `EvidenceStored`. What a worker holds has evidence for as many objects
  as its child has put, all of them once it has answered (`HandOK`), and artifacts are
  never removed; so it does not matter whether the worker still has its lease, or who
  tried before.
- `RoundsSafe`: `RoundsInformed`. That nothing is unsettled is tested when a round starts
  only; it stays so until the agents propose because no row can move while none is
  outstanding (`SettledStays`), whatever workers are doing. That the ideas behind all
  trials are shown needs `RoundInv`: a round has written every record before it submits
  its first candidate, though it may be killed at any file and its id used again; and
  `VaultGrows`: no written record changes.
- `DrainSafe`: `DrainSuffices`. The calls a drain has left and the attempts made of all
  trials together are never fewer than the attempts there can be (`DrainInv`): a call
  that returns has made one, and other workers only add to them. When no call is left,
  a pending trial, which has an attempt left, would make the sum too small (`DrainGives`).

`PointInTimeProofs` proves the four invariants of the run `point_in_time`, for any finite
sets of sources, exposures and provider rows, any calendar, plans and formulas that
satisfy `FeedAssumption`, `RegistryAssumption` and `FilesAssumption`. One invariant
serves them (`IInv`): what is in the archive has arrived (`FeedOK`), an approved
candidate is lawful and what was used of one is what was approved (`RegistryInv`), a
manifest comes after its parts whoever was killed between them (`FilesInv`), and the
export was built from subsets of what arrived (`ExportInv`).

- `Governed`, `Sound`: `GovernedFeatures`, `SnapshotSound`. The second needs that the
  provenance check, which repeats none of the compiler's code, accepts exactly the
  whole build (`AcceptedWhole`): rows are told apart by session and asset, so none can
  take the place of a missing one.
- `Knowable`: `PanelKnowable`. Everything a row of session `i` depends on carries a clock
  at or before the decision of `i`: restricting records to those known then, and the
  calendar to its sessions up to `i`, leaves eligibility, the choice of the latest
  vintage, exposures, contributions and members as they are. Each has its lemma
  (`SameContributions`, ...), and they meet in the panel, session by session. What could
  fail and does not is the refusal: the compiler may refuse the larger input and never
  the smaller one of an export it accepted.
- `PredictedKnowable`: `PredictionsKnowable`. A formula reads backwards, a label ends
  strictly before the prediction, and so a panel and its prefix give the same training
  rows (`SameScore`, `SameRank`, ...).

`SumTheorems` has what these proofs and `CapSafe` need: that `MapThenSumSet`, which takes
its elements in an order of its own, is the same in any order (`SumRemove`), grows with
its summands (`SumGrows`), follows one that changes (`SumUpdate`), and is at most the
largest summand times their number (`SumBound`). An induction over
finite sets cannot be had from the library's induction theorem, which takes an operator
as a parameter; here it is the choice of a minimal counterexample among the subsets of
the set (`MinimalSubset`, from the well-foundedness of strict inclusion), to which the
proof of each fact is reduced.

`TradingProofs` also proves the four invariants of the run `paper_book`, for any assets
and strategies, sleeves, execution policy, bars and ledger that satisfy
`EngineAssumption` and `BookAssumption`. `BookInv` says that the dates ascend, that
every committed day is what a replay of the whole ledger gives (`Committed`), and that
what counts on a day of a forward book was archived before it (`Archived`). Three
arguments carry it and what follows from it.

- *Within a day* (`DayKeeps`): every pass keeps the state `Good`, which ties cash,
  quantities, used volume and buying power to sums over the day's fills: what is left
  of the buying power and what orders have bought never exceed the morning's cash
  (`BookedKeeps`, with `AffordableFits`), and what was traded of an asset its share of
  the volume (`QuantityFits`, `CapacityFacts`). One lemma covers every kind of fill
  (`FillKeeps`). The passes are folds; that a fold keeps what each of its steps keeps is
  `FoldGood` of `SumTheorems`, instantiated with the step of the exits and of the orders.
- *Over the days* (`ReplaySums`): cash and quantities of the engine are those that
  `_replay` adds up from all fills and charges.
- *Between replays* (`SameReplay`): two replays that agree on the bars up to a day and
  on which signals every sleeve may choose from on those days are the same up to that
  day. New signals are dated on the last committed day or later and count from the day
  after (`SignalsStep`); of a forward book's signals those archived late count on no
  day up to the decision (`CommittedChoice`), and a day's fills do not depend on the
  signals its close looks at (`DayFills`).

From these follow `BookStable`, `BookBalanced`, `BookExecutable` and `BookPrecommitted`.
The replay is a function defined by recursion on the day; that it exists and unfolds
(`IsReplayExists`, `ReplayStep`), and what holds on each of its days, is proved by the
choice of a first day on which it would not.

Out of the prover's reach: liveness under fairness and `ENABLED`, so that the liveness
properties of the runs are only model-checked; and library theorems that take an
operator as a parameter, which is why inductions over data are made by minimal
counterexamples as above.

## 7. Not modelled

- Floating-point computations: models, regimes, statistics, allocation, betas,
  performance measures. The engine of the paper books is modelled in integers.
- Parsing, formatting, HTTP, authentication, command lines, the web console.
- Hashes: they are assumed injective, and content stands for its hash.
- Lock order inside PostgreSQL: each function is one step in `TrialQueue`. A deadlock
  there is broken by aborting a transaction, which is a call that did not happen.
- Pacing of requests to a host, which is a delay in real time.
- That a snapshot or a vault with a torn file is ever completed: exclusive creation
  rules it out, and the models have those states.
- Event logs, traces and `status()` reports, which nothing reads back; the
  `TrialLedger`, which only the demonstration command uses.
- `pit.py`, `validation.py`, `reward.py`: pure functions beside the production path.

## 8. Plan

Done: `TrialQueue` with `AttemptedWork`, `Supervisor`, `TradeControl`, `ProposalJob`,
`SealedGate` with `OneShot`, `ResearchJobs`, `ResearchLoop`, `PaperBook` with
`Backtester`, `PointInTime` with its parts, each with the proofs of its safety
properties; and that the clients of `TrialQueue` inherit its theorems.

Models to come: the lock order of the SQL functions; portfolio jobs and their files.
