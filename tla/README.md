# MarketAI: specification of the paper-trading desk and its evidence

MarketAI is a FastAPI service with a PostgreSQL database, a worker that runs
scheduled jobs, and a web client. It collects market data and news, reviews offline
predictions, proposes trades, and keeps a paper portfolio. This directory holds TLA+
models of the parts in which rows depend on each other, the TLC runs that check them,
and TLAPS proofs about them.

Paths below are under `src/apps/api/app/` unless they start with `src/` or `docs/`
(`src/docs/`).

## 1. Inventory

| Component | State | Operations | Correct when |
|---|---|---|---|
| Paper-trading desk (`paper_trading/service.py`, endpoints of `main.py`) | `approval_requests`, `orders`, `idempotency_records`, `order_events`, `positions`, `trades`, `cash_ledger` | `generate_decision`, `approve_and_fill`, `exit_position`, reject, cancel | one order per approval, holdings equal trades, retries get the same answer |
| Books of the desk (`paper_trading/service.py`, `portfolio/`, `paper_trading/daily_pnl.py`) | the amounts in those rows, `portfolio_snapshots` | fills and exits; the portfolio, reconcile and daily pages | no money made or lost by rounding or averaging; pages add up |
| Risk engine (`risk/`) | `system_settings` (`kill_switch`, `risk_config`) | `evaluate`, `update_config`, kill switch | no approval offered when a rule fails |
| Scheduler (`scheduler/service.py`) | `scheduled_jobs`, `job_runs`, `alerts` and, through its jobs, the desk's rows | 15 job types in `run_job`, `ensure_jobs` | a due job runs, and a failed job leaves nothing half written |
| Worker (`src/apps/worker/worker.py`) | none of its own | `tick`: selects due jobs, runs each in a transaction | a crash loses no job |
| Prediction and statistical validation (`prediction_validation/`, `statistical_validation/`) | requests, results, manifests, events, confidence evidence | request, execute, replay, lifecycle records | one verdict per request and prediction, final, the same in all tables |
| Prediction safety and governance | safety results, governance decisions | `persist_safety_result`, `persist_governance` | what is submitted as looked up passes only with its evidence |
| Market intelligence (`intelligence/`) | candles with revisions, rejections | `ingest_candle` | one authoritative revision per candle, the newest |
| External intelligence (`external_intelligence/`) | raw and canonical items, classifications, duplicate links | `process_item`, `link_duplicate` | deliveries of one identity collapse and are classified alike |
| Evidence and opportunity (`evidence/`, `opportunity/`) | evidence rows, opportunity records | `persist_evidence`, `evaluate_and_store`, `analyze` | judgements of the same inputs agree |
| Offline prediction, model loading | prediction records, load manifests | `persist_prediction`, `persist_load` | stored once per content |
| Audit, model registry and versioning, champion/challenger | rows that are inserted | `append`, `register`, `assign_role` | insert only |
| Features, labels, market scan, research, datasets, training | files and series | offline | no shared state |
| HTTP read endpoints, web client, migrations | - | - | - |

How they interact. Every write endpoint and every job runs in one database
transaction (`with session.begin()`, `SessionLocal.begin()`), at PostgreSQL's
default READ COMMITTED. There is no other shared state: components meet in
the rows, through row locks (`with_for_update`), unique constraints and committed
values. So the hard behaviours are interleavings of transactions: what a
transaction has read and not locked may have changed when it writes; an INSERT of
a unique key waits for the other inserter; lock orders can cross; a client that
lost an answer retries; a job runs beside the calls; a page that sums in several
statements is torn by a commit between them; the connection may break at any point
and everything rolls back.

`PROJECT.json` lists the hazards at their lines, each with the properties that
cover it or the reason why none does.

## 2. The order of the work

1. The desk (`PaperTrading`) and what it promises to a user who thinks of it as one
   caller at a time (`Brokerage`), with proofs.
2. The jobs that write the desk's rows (`TradingJobs`), and the schedule (`WorkerJobs`); with proofs.
3. The review of predictions: `PredictionReview`, its promise `Verdicts`, and
   `PredictionGovernance`, which is composed with the promise; with proofs.
4. The two stores that are fed from outside: `CandleRevisions` with its promise
   `CandleHistory`, and `ExternalItems`; with proofs.
5. What is computed: `Bookkeeping`, `StatisticalEvidence`, `ResearchPriorities`; with proofs.

Left for later: DECISION_SCAN and RECOMMENDATION_EXPIRY in `TradingJobs`; the lookup of
entity aliases; and a theorem that transactions of `PaperTrading` never wait for each
other in a circle, the part of `CallsReturn` that is a safety property.

## 3. The modules

| Module | Models | Uses |
|---|---|---|
| `PaperTrading` | calls of the desk as transactions | `Brokerage` by refinement |
| `Brokerage` | the abstract desk | |
| `TradingJobs` | APPROVAL_EXPIRY, STOP_TARGET_EVALUATION, EOD_POSITION_EXIT beside the calls | extends `PaperTrading` |
| `WorkerJobs` | `scheduled_jobs`, the worker, manual runs, data alerts | |
| `Bookkeeping` | prices, charges, averages, ledger, and the pages that read them | |
| `PredictionReview` | requests and executions of both validations | `Verdicts` by refinement |
| `Verdicts` | verdicts that are given once | |
| `PredictionGovernance` | safety results and governance decisions | extends `Verdicts` |
| `StatisticalEvidence` | the rules of `run_end_to_end_validation` | |
| `CandleRevisions` | `ingest_candle`, statement by statement | `CandleHistory` by refinement |
| `CandleHistory` | a history of corrections that only grows | |
| `ExternalItems` | `process_item`, statement by statement, and `link_duplicate` | |
| `ResearchPriorities` | evidence, analysis, opportunity records | |
| `MC...` | the constants and symmetry of the runs | the module of that name |
| `MCStores` | one run of the two stores, which share nothing | `CandleRevisions`, `ExternalItems` |
| `MCFigures` | one run of what is computed, four parts that share nothing | `Bookkeeping`, `StatisticalEvidence`, `ResearchPriorities`, `PredictionGovernance` |
| `PaperTradingProofs` | types, invariant, safety, refinement | `PaperTrading` |
| `TradingJobsProofs` | what the jobs keep of it | `TradingJobs`, extends `PaperTradingProofs` |
| `WorkerProofs` | the queue of due jobs | `WorkerJobs` |
| `BookkeepingProofs` | sums, rounding, books and pages | `Bookkeeping` |
| `EvidenceProofs` | the three judgements | `StatisticalEvidence`, `ResearchPriorities`, `PredictionGovernance` |
| `CandleProofs`, `ExternalProofs`, `ReviewProofs` | invariants and refinements | `CandleRevisions`, `ExternalItems`, `PredictionReview` |

An operator that a comment calls a faulty variant is not part of the model: it is the
mutant of the definition after it (section 4).

### PaperTrading

The variables `status` to `cash` are committed rows; `killSwitch` and `averaging`
are the two settings the desk reads; `tx[c]` is the open transaction of client `c`:
its phase, the approval, key and instrument it works on, and `seen`, the Position row
as the ORM loaded it. A commit publishes all writes in one step, a rollback none.
`answers` and the sums `bought` and `sold` record what was told and traded.
`cash` is the sum of `cash_ledger.amount`; nothing in the code reads a single entry.

`approve_and_fill` is cut where another transaction can come between:

| Action | Code (`paper_trading/service.py`) |
|---|---|
| `ApproveReplay` | 433-449, the key or the approval has an order: it is returned |
| `ApproveLock` | 433-464, locks the approval row; key, linked order, status, expiry, kill switch |
| `ApproveFund` | 465-470, cash check against the ledger sum |
| `ApproveInsertOrder` | 472-518, INSERT under the two unique keys |
| `ApproveTakePosition` | 519-527, locks the position if there is one; duplicate check |
| `ApproveCommit` | 528-574, position, ledger, approval; commit |

Some steps are merged, each because nothing can tell the difference:

- The checks in `ApproveLock` are made after the approval row is locked. Orders of
  this approval and its status cannot change while the lock is held; the key
  record and the kill switch can, and a later change of those is the same as one
  after the step (the key is checked again by the unique constraint).
- `ApproveReplay` takes effect at its read; it writes nothing.
- `Generate` joins the reads of the kill switch and of the cash with the commit. The
  approval cannot be approved before its id is returned, so only the position
  read and the time of the decision, which is when its validity starts, are
  observably earlier: they are the step `Decide`.
- The ORM sends the INSERT of a missing Position, whose unique `instrument_id` may
  clash with another one, with the ledger writes: the clash is in `ApproveCommit`.
- Writing the same `risk_config` or kill switch row waits for its lock. These
  transactions write one row and commit, so each is one step.
- A refused call (`ValueError`) has written nothing that survives: line 453 sets
  `expired` and raises, which rolls the write back. Refusals before the first lock
  are not steps; later ones are `Rollback`.

Prices and costs are scaled: a fill costs `q * (p + Spread)` and a sale brings
`q * (p - Spread)`, where `Spread` stands for slippage, brokerage and tax, all of
them proportional to the notional in the code (463-468, 595-598). Average price, realised
P&L, snapshots and audit rows are derived, read by no guard, and left out.
`WithinCap` is the capital cap of `evaluate` (a tenth of the cash in the code, `CapDivisor`
here; the runs let a deal take half or all of it, which makes cash scarce after few fills); the per-share risk cap only lowers the quantity further, and quantities are
chosen freely below the cap.

### TradingJobs

A sweep is a position job: the instruments it has still to visit, the rows it has
locked, those it has exited, what these brought (`proceeds`, its rows in the cash
ledger), and the rows as its session holds them. The stop job
selects FOR UPDATE; the end-of-day job selects without a lock and its later
FOR UPDATE, in `exit_position`, returns the objects the session already has
(SQLAlchemy does not refresh loaded objects on a locking select without
`populate_existing`), so `RowOnLock` gives it the row it loaded first. `SweepTake`
takes the row locks one at a time, in any order, as PostgreSQL may. `SweepFail` is
the failed INSERT of an exit key: `begin_nested` undoes that exit only, `run_job`
catches the exception and returns, and the caller commits the exits already made.
`SweepDeadlock` is PostgreSQL ending a job when each job waits for a row of the other.
`EodForced` says whether the end-of-day job's payload has `force`; nothing in
`src/apps` outside the tests sets it, so the branch is live only for an operator
who does. Both of its values are run.

### WorkerJobs

The row of a job is locked for its whole run, so one run is one step, `RunJob`, with the
four ways it can end: `Succeed` (644-660 of `scheduler/service.py`), `Fail` (661-693, a
caught exception: recorded, with back-off), `ReturnEarly` (376-388) and `RollBack`
(a database error: after a failed statement SQLAlchemy refuses to commit, so neither
the work nor the failure is recorded). `ListDue` and `RunNext` are the two halves of
`tick` in the worker: the list is read in a transaction of its own and
its jobs are run one by one without another look at the schedule, so a list may be old.
`RunManually` is the endpoint `/system/jobs/{type}/run`, which looks at neither the schedule
nor the status. Times are relative: `wait` counts ticks to `next_run_at`, and
`due` keeps the order of those that are past, which is all that
`ORDER BY next_run_at LIMIT 5` can see; `Listed` is that selection. The lease and heartbeat columns are written and
cleared, and read by nothing. `alert` holds the statuses for which a
MARKET_DATA_STALE row exists; the pair of issue and status is unique in the database.

### Bookkeeping

Amounts are integers in hundredths of a paisa, the `NUMERIC(20,4)` of the columns;
`RoundDiv` is `Decimal.quantize` with its default of a half to the even neighbour. `Fill`
and `Exit` compute what `approve_and_fill` and `exit_position` do: price with slippage, notional,
brokerage and tax each rounded to paise, the weighted average, the allocated charges, the realised
profit, and the posting. The share of the charges that an exit takes is computed from a quotient of
28 digits, which may fall to either side of an exact half: at such a tie `Share` leaves it open. They are single steps because `PaperTrading` shows that the
transactions take effect at once. The sums over trades and postings are variables; that
is all any code reads of them. A page (`/paper/portfolio`, `/paper/reconcile` and
LEDGER_RECONCILIATION, `/paper/daily-pnl`, the snapshot) is a sequence of statements,
each of which sees what is committed when it runs, so trades come between them.
`rounding` is a history variable: the sum of the bounds of the rounding errors made so far.

### PredictionReview, Verdicts, PredictionGovernance

Both validations have the same shape: a request row under a checksum of its content, then an
execution that adds a `started` event, reads, and writes result, manifest, events and
status. An execution is cut at its statements:

| Action | Code |
|---|---|
| `Execute` | `execute_validation` 69-75, `execute_request` 181-194: the request is found; a result of a statistical request is returned |
| `InsertStarted` | the event, sent by the autoflush of the next query; its identity is unique, so an execution waits for one that overlaps, and fails if that commits |
| `Read` | prediction, policy, manifest, parent; rows are only ever added, so the last read decides |
| `WriteValidation`, `WriteStatistics`, `WriteIneligible`, `EvidenceConflict` | the final flush and the commit, or the unique evidence identity |

The rules read keys of a payload (`class_probabilities`, `mutable`, ...) that `persist_prediction` never
writes. `ImportPrediction` stands for rows from elsewhere that have them; without it
every statistical request would be ineligible.
`record_lifecycle` and `replay_request` add events and touch no status.

`Verdicts` is what a reader may rely on: a prediction gets each of the two verdicts at most once,
none is changed, and no statistics are judged before some structural validation has succeeded
(of any prediction, because a statistical request names any parent).
`PredictionGovernance` is built on it, since neither stage reads the earlier tables. Both endpoints
store what the body of a request says: `PersistSafetyResult` takes any gates from `RuleBodies` and
`PersistGovernance` any outcomes from `OutcomeBodies`, of any prediction. What an administrator has
looked up of a prediction (`LookUp`: its verdicts, its lifecycle, one of its safety results) guards
nothing; the history fields `evaluated` and `copied` of a row record whether its body
evaluated the gates on, or reported, just what its sender had seen, possibly long before.

### CandleRevisions, CandleHistory

`ingest_candle` is cut at its statements: the select of an earlier row (`FindNone`,
`FindExisting`, `ReturnExisting`: any row, as the query has no order and no
condition on the flag), the UPDATE that clears the flag (`ClearFlag`, which waits for another
holder of that row), `max(revision) + 1` (`NumberRevision`), and the INSERT, which
enters one unique index after the other (`InsertRevision`, `InsertFlag`), the second being the
partial index of migration 0012 that admits one authoritative row. `WaitsFor` gives the
transactions a statement waits for; `BreakDeadlock` is PostgreSQL ending one of two that
wait for each other. Rows are identified by their revision.
`CandleHistory` is a sequence of bars to which a bar that differs from the last is appended.

### ExternalItems

`process_item` inserts or finds the raw row, then the canonical item, then the
classification, with a flush after each. The unique key of raw rows contains
`provider_item_id`, and NULLs are never equal, so a delivery without an id may be stored once per
call that overlaps; `raw` counts the rows. A title is the set of words that
the rules look for, `Similar` is `title_similarity` over such sets. An item is classified by
the title of the delivery it was made from. `CanonicalIdentity` is the provider's id, or else the
address, or else title and time; equal addresses with and without an id are two identities. A call that meets a key inserted meanwhile
fails as a whole. `link_duplicate` writes a link between two items.

### StatisticalEvidence, ResearchPriorities

No endpoint or job calls these two. `run_end_to_end_validation` is a function of the
groups of evidence its caller passes and of the time; the model supplies groups one by one and lets
time pass, and the properties are about what the function would return. `ResearchPriorities` has the rows of
`persist_evidence` and `evaluate_and_store`; `assemble_as_of`, `analyze` and
`evaluate_opportunity` are operators over them. The caller decides which technical items are
stale (`CalledStale`); events carry their flag.
Strength and state of the evidence, text and weights of contributions are left out: no rule reads them.

## 4. The runs

| Run | Checks | Expect |
|---|---|---|
| `desk` | `TypeOK`, `ApprovedIffFilled`, `HoldingsConserved`, `AnswersNameTheFill`, `ExitKeysFresh`, `FillsMeetThePositionTheySaw`, `DecidedOnce`, `OverdraftBounded`, `ImplementsBrokerage` | pass |
| `desk_live` | `CallsReturn` | pass |
| `jobs` | `JobsTypeOK`, `HoldingsKeptByLockedJobs`, `FilledNeverReopened` | pass |
| `jobs_live` | `CallsReturn`, `SweepsReturn` | pass |
| `worker` | `WorkerTypeOK`, `DueJobsRun` | pass |
| `review` | `TypeOK`, `StatusTellsTheOutcome`, `OneVerdictPerPrediction`, `ImplementsVerdicts`, `ExecutionsReturn` | pass |
| `stores` | `CandleTypeOK`, `NewestIsAuthoritative`, `ImplementsHistory`, `IngestionsReturn`, `DuplicatesCollapse`, `ItemsTraceToRaw`, `ClassificationsAgree`, `LinksAgree`, `DeliveriesReturn` | pass |
| `figures` | `LedgerFollowsTrades`, `BooksBalance`, `FewTradesReconcile`, `PagesAddUp`, `ValidatedIsEarned`, `FailureStands`, `JudgementsAgree`, `RanksAreEarned`, `CopiedDecisionsFollowTheEvidence` | pass |
| `alerts_stuck` | `OpenAlertsResolve` | violation |
| `candle_reverted` | `AnswersAreAuthoritative` | violation |
| `overspent` | `Solvent` | violation |
| `expiry_overwrites` | `ApprovedIffFilled` | violation |

What the violations show, each against the document named:

- `alerts_stuck`: the second time that an instrument's stale alert is to be resolved, the
  unique pair of issue and status is broken; STALE_DATA_CHECK never commits again
  while that data is fresh, for any instrument, and its failure is not recorded
  (`docs/job-recovery.md:4`, `src/ARCHITECTURE_GUIDE.md:223`).
- `candle_reverted`: a provider withdraws a correction by sending the first bar again. The query of
  `ingest_candle` may return the superseded row, whose bar is the same, and that row is
  the answer; the withdrawn correction stays authoritative
  (`src/LAYER2_1_MARKET_DATA_FOUNDATION.md:7`, `src/ARCHITECTURE_LAYER2_PROPOSAL.md:831`).
- `overspent`: two approvals of different instruments check the same cash and both fill; the ledger
  goes below zero (`docs/order-lifecycle.md:3`). `OverdraftBounded`, of the run `desk`, says how far.
- `expiry_overwrites`: APPROVAL_EXPIRY reads, a call that passed its own expiry check commits, and the
  job writes `expired` over `approved` (`docs/concurrency.md:3`). `FilledNeverReopened`, of the run
  `jobs`, says that a filled approval never becomes pending or rejected; it does allow this.

Section 6 lists what else the code does not keep; the statements are defined in the modules next to
the property that the code does keep.

### Bounds

`desk`, `desk_live`. Two clients are enough for every pairwise conflict over a lock, a
key, a balance or a position; the theorems cover any number. Three approvals, two of them for one
instrument, give a race for a first position and, after an exit, a second entry;
two keys allow a retry, a conflict and a new key. Sizes from 1 allow partial exits.
`Lifetime` 0 and `MaxTime` 1 let an approval expire at any point after its offer.
In `desk` and `overspent` a capital of 8 pays for one deal of size 2, which costs 6, and not for two, so
that overlapping checks pass together and the ledger does go below zero; a deal of size 3, which costs 9, may be
offered and is never affordable, so without the check it would fall further than `OverdraftBounded` allows.
`desk` switches averaging on once; `desk_live` throws the kill switch both ways.
Symmetry is over clients, keys and like approvals, in runs of safety properties only.

`jobs`, `jobs_live`. One client is enough: each job is a transaction of its own.
`jobs_live` has a third approval, for a second entry into an instrument that has been
held, because a call waits for a job only at a Position row that exists.

`worker`. A pass takes two of three jobs, so that one job which never
commits and a failing one compete with a third for the places; two back-off
steps and `MaxFaults` 1 give delays that differ and a fault at any point. `Early` is
empty: the end-of-day job is not forced. Where it is, `DueJobsRun` does not hold (section 6).

`review`. Two clients execute two structural requests and two statistical requests for one
prediction under different parents, so that evidence is contested; one of them is invalidated.

`stores`. A behaviour is about one of the two stores (`focus`). Candles: two ingestions overlap over a bar
sent before and after it closed, a correction, a second correction, and a bar that is no candle; four
revisions let a correction be withdrawn and made again. News: two workers, an article with an id, and a
copy of it without one that comes again with a denial in its title and a tracker in its
address, so that both unique keys, an id that is NULL and the identity by address are contested. The identity by title and
time is left to the theorems, which hold for any deliveries; one link at a time, as a link guards nothing.

`figures`. A behaviour is about one of four parts (`focus`), so their states add up.
Books: two instruments, four trades, prices of 9.10 and 4.59 rupees, whose postings are rounded by up to
half a paisa, so that four fills exceed the tolerance of `reconcile`; one reader, because pages write nothing.
Evidence: each group in a passing and a failing form, a calibration that runs out within the three days.
Research: two times, an evidence rule of both directions and one whose feature is missing,
events of both impacts, standings that are ready, blocked and expiring.
Governance: a prediction that passes every gate and one whose regime is unknown. Bodies hold every combination of
outcomes, and gates as they can be found, left out, or found for another prediction. One administrator is
enough, since what is seen guards nothing and its pages may be as old as those of anyone else; one safety row and
one decision at a time, since the property is about each decision alone.

Deadlock is checked in `jobs`, `jobs_live` and `worker`, where a job can always run. The others may rest
at their bounds or when everything is decided, so their runs switch it off.

### Fairness

`FairSpec` of `PaperTrading` and `FairJobsSpec` ask strong fairness of the steps of an open
transaction, of a sweep and of the expiry write; `FairSpec` of `PredictionReview`,
`CandleRevisions` and `FairItemsSpec` ask it of the steps of an open call. The session runs its statements
one after the other without waiting for the client, and PostgreSQL queues the waiters
of a row lock or of a unique entry in order, so a step that is enabled again and again is taken.
`CandleRevisions` also asks weak fairness of `BreakDeadlock`: PostgreSQL looks for
deadlocks after a while. `FairWorkerSpec` asks weak fairness of the worker's loop and of the clock.
No fairness is asked of a new call, of a manual run, of a job start, of the clock of the desk, of a missing market
snapshot (`SweepSkip`), of an aborted call or of failures.

### Mutants

Each property of a passing run has a mutant in `PROJECT.json`: a faulty variant of a
definition, written next to it in the module, under which TLC finds the property
violated.

## 5. The proofs

All theorems hold for arbitrary sets of clients, approvals, keys, instruments, workers, payloads and
predictions and arbitrary prices, sizes and bounds, from the one named ASSUME of each
module alone: `DeskAssumption` (the constants have their types, sizes are
positive, no price is below `Spread`, and there are finitely many clients, at least one), `JobsAssumption` (`EodForced` is a Boolean),
`WorkerAssumption` (finitely many jobs), `BookkeepingAssumption`, `EvidenceAssumption`,
`ResearchAssumption`, `GovernanceAssumption`, `CandleAssumption`, `DeliveryAssumption` (finitely many
workers) and `ReviewAssumption`; the others give types only.

`PaperTradingProofs` proves `TypeCorrect`. `TypeOK` needs help from `TxShape`, which says
which fields of a transaction are filled in which phase, and that an open exit holds
no more than it saw; without it the quantity left by an exit is not known to be
natural. The invariant `IInv` adds to the types:

- `LocksHold`: two transactions never hold one approval or one position;
- `CallSound`: what a transaction has read is still true of the rows it has
  locked; a position it found missing was empty;
- `RowsSound`, `DealsSound`: no exit has used the present version of a position in
  its key, and what is held or offered is worth its costs;
- `OrdersSound`: an approval that was ever filled has one order and is not offered again.

These make `DeskInv`, the part that the jobs keep too. `IInv` adds what the end-of-day
job and APPROVAL_EXPIRY may break: `KeysFresh`, `HoldingsConserved`, `ApprovedIffFilled`.

The properties are about rows at a commit; `CallSound` carries what was read under a
lock over to the commit, `LocksHold` says that nobody else writes the row in
between, and `RowsSound` makes the exit keys new. From `IInv` follow the invariants of the run
`desk`, its two action properties, and `Implementation`: every commit of a fill, exit,
offer or rejection is a step of `Brokerage`, and every other step leaves its variables
unchanged.

`OverdraftBoundedHolds` needs an argument of its own. A call that has passed the cash check and not
yet committed is `Paying`. With `m` as much as any deal costs, `Covered` says: if no call is paying, all
clients but one have overspent by at most `m` each; otherwise there is a call, the one that
checked last, that can pay from what is left if each client that is not paying has
overspent by at most `m`. A check makes its call that witness, since it saw the cash as it
is; a commit of the witness leaves what it covered, and a commit of another call takes at
most `m` and makes one more client that is not paying. The counting is done with the library's
theorems on cardinalities. With one client the bound is zero, and it is `Solvent`.

`TradingJobsProofs`. `JobsInv` is `DeskInv` and what the sessions of the jobs rely on:
`SweepSound`, a row that a job holds is held by no call and its price covers the costs of a
sale; `HeldApart`, no row is held by both jobs; `LoadedSound`, the stop job has loaded what it
holds as it is, and where the end-of-day job's copy is old the version of the row shows it. So the
commit of a job writes what the desk would have written, except for the rows that the
end-of-day job writes over a newer version: these are `raced`, and
`HoldingsKeptByLockedJobsHolds` says that no other holding is lost. `StopJobKeepsHoldings` is the
case without `force`, where holdings stay exact. `FilledNeverReopenedHolds`, `AnswersNextToJobs`,
`FillsNextToJobs` and `OverdraftNextToJobs` carry the properties of the desk
over to its life beside the jobs, which only add to the cash.

`WorkerProofs`. `WorkerTypeCorrect` holds of a queue that says of each job what `wait` says, and
lists it once. That needs lemmas on queues: what `RescheduleSound` and `TickSound` take out or
put behind (`QueueLeft`, `QueueJoined`), and that a pass is a sequence of jobs (`PassOfJobs`).

`BookkeepingProofs`. `LedgerInv` bounds what rounding did to the ledger, half a paisa per
posting, from lemmas about `RoundDiv`. `BalanceInv` does the same for the books as a whole: cash,
the cost of what is held and its unallocated charges, less the initial cash and the realised profit, are off by at
most half of `rounding`. An averaging fill rounds the average and an exit its share of
the charges; `FillBalance` and `ExitBalance` account for each. `PageInv` and `FiguresInv` say
that the figures of a page that no trade tore are figures of one state, and so add up as they do in
every state; nothing is claimed of a torn page.
The sums over positions are `SumFunction` of the library, defined by recursion on sets. What a
proof needs of them (`SumWithout`, `SumChanged`) is an induction on finite sets; it is done with
a set of subsets in place of a predicate, where a least set that fails has a smaller one that
fails (`SetInduction`), so no theorem with an operator parameter is used.

`EvidenceProofs`. The types of what was gathered and stored (`Gathered`, `RecordsEvaluated`), and from
them that a validated result has passed the rules of every group it was given, that failures stand, and
that the two judgements agree.
For governance the invariant is `SightsStandTrue`: a verdict that an administrator looked up
is still the verdict, because `Verdicts` are write-once, and a safety result is never removed. So old
pages do no harm: a body that copies them passes only on evidence (`CopiedIsEvidenced`). The theorem
claims nothing of other bodies: `GovernanceFollowsTheEvidence`, which does, is false (section 6).

`CandleProofs`. `CandleInv` adds to the types what an open ingestion may rely on in each
phase: which row it marks (`OpenInv`), how its revision number relates to the rows (`NumberInv`),
and that only one ingestion is past the second index, with the number that follows the last (`InsertInv`);
`NewestInv` is what makes a commit leave one flag. `ValidFits` shows that the checks of the
code imply those of the table; `HistoryImplementation` that a commit appends a bar that differs from the last.

`ExternalProofs`. `ExternalInv` relates the rows a call has inserted and not committed to
those that others have: `CallInv`, what a call found or holds; `PairInv`, two calls never hold the
same item or raw row; `RowsInv`, the committed items; and `RawInv`, which counts the rows without an id
together with those still to be committed (`Pending`).

`ReviewProofs`. `ReviewInv` adds to the types what an execution has read (`ExecutionInv`) and that two executions of one request never
hold it at once (`ExclusiveInv`); `VerdictsImplementation` maps the two writes to the steps of `Verdicts`.

Every invariant and every action property of the runs is stated by a theorem. Only model-checked
is liveness: `CallsReturn`, `SweepsReturn`, `DueJobsRun`, `ExecutionsReturn`, `IngestionsReturn` and `DeliveriesReturn`
follow from fairness, which needs ENABLED and is beyond TLAPS here.

## 6. What the code does not keep

Four claims of the documents that the code does not keep are the runs of section 4 that expect a
violation. The others are in this table. TLC finds each statement violated when it takes
the place of the INVARIANTs and PROPERTYs of the configuration named. `HoldingsConserved` and `DueJobsRun` hold in
the runs `desk` and `worker`, where no end-of-day job is forced; the others are definitions that no run checks.

| Statement | Configuration | What the code does | Claimed by |
|---|---|---|---|
| `KeyNamesOnePayload` | `desk.cfg` | a new key sent for a filled approval is answered with its order and not recorded, so the same key then fills another approval | `docs/order-lifecycle.md:6` |
| `HoldingsConserved` | `jobs.cfg` | the forced end-of-day job sells the quantity it loaded and writes zero over a fill or exit made meanwhile; `HoldingsKeptByLockedJobs` says that nothing else loses an update | `docs/concurrency.md:3` |
| `DueJobsRun` | `worker.cfg`, `Early = {eod}` | a forced end-of-day job that runs before the cutoff commits the status `running` and stays due; no pass selects it again | `docs/job-recovery.md:3` |
| `GovernanceFollowsTheEvidence` | `figures.cfg` | a body reports outcomes that nobody recorded, of any prediction, and the prediction passes | `prediction_governance/__init__.py:1`, the name of the test at `src/apps/api/tests/test_prediction_governance.py:4` |
| `SafeOnlyWhenEligible` | `figures.cfg` | `ineligible` is none of the statuses that `aggregate_safety_decision` counts, so gates evaluated on a prediction without a validated statistical result give `safe`; governance refuses it only if the body it is sent reports the statistical result as it is | `docs/layer-3.6.3c-acceptance-matrix.md:6` |
| `UntornPagesReconcile` | `figures.cfg` | four fills of one share at 9.10 leave a residue of 1.84 paise, and `reconcile` reports a mismatch; `FewTradesReconcile` says that up to two trades never do | the comment at `paper_trading/service.py:806` |
| `FewTradesPagesReconcile` | `figures.cfg` | a trade that commits between the statements of `reconcile` makes it report a mismatch, already with one or two trades | `docs/cash-ledger.md:4` |
| `ReadinessFollows` | `figures.cfg`, with the feature of PROVIDER_FRESHNESS in `MCFigures` `{NoFeature, 1}` | evidence that is evaluated again keeps its first readiness | no document |

Also seen while modelling: the daily page takes charges off a profit that is net of them; an expired
opportunity without blockers is `ready` on the readiness page; `run_end_to_end_validation` without any
evidence validates.

## 7. What is not modelled

- `cancel` changes an order that is `pending`, `open` or `partially_filled`; every
  order of this code is created `filled`, so it never changes anything.
- Audit rows, which are inserted and read by nothing that decides.
- The market data that decides a BUY, a stop or a target is left open: any outcome
  can happen.
- The other job types write rows that the desk does not read back; their
  place in the schedule is modelled, their effects are not.
- Strengths, contributions, aliases, mappings, relations and adapters of the intelligence
  components: values without a decision, or network access.
- `persist_replay`, `validate_calibration_evidence`, `assess_eligibility`, `HandleStore`: nothing calls them.
- Model registry, versioning, promotion and champion/challenger: rows inserted under a checksum,
  called by no endpoint or job.
- Features, labels, market scan, research, datasets and training: floating-point computations
  over one series, without shared state.
- HTTP read endpoints, other than the pages named above, the web client and the migrations.
