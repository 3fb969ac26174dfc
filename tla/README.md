# Pump intel: TLA+ models, checks and proofs

This directory holds TLA+ specifications of the market scanner in `src/`, the
TLC configurations that check them on small instances, and TLAPS proofs of the
most important results for every value of the constants.  `PROJECT.json` is the
index: components, runs, the source lines of each definition, the hazards and
the properties that cover them.  Source paths below are relative to
`src/src/pump_intel/`.

Check a module with `tlc -config X.cfg MCx.tla`, prove one with
`tlapm XProofs.tla`.

## 1. The system

Once a day a job reads the newest coins of a token launchpad, stores a snapshot
of each, detects rug pulls, labels tokens and creators, and writes a market
report.  PostgreSQL holds everything; processes share nothing else.  A second,
unrelated process is a poker bot that plays against an arena server.

| Component | State | Operations | Talks to |
|---|---|---|---|
| Scheduler process (`scheduler.py`, `docker-compose.yml`) | next run of two APScheduler jobs, a thread per running job, retry counter | boot, startup catchup, dispatch, retry after 1/5/15 min, stop, kill, crash | starts the daily job; reads the newest report's age |
| Daily job (`jobs/daily_scan.py`) | none of its own | phases 0-5, a transaction each | all services below |
| Listing client (`clients/pump_api.py`) | offset, pages read, coins read | SOL price, pages of the newest coins, by offset | listing API |
| Ingest (`ingestion/service.py`, `normalize.py`) | `tokens`, `token_snapshots`, row locks | upsert tokens and socials, select stale mints, insert snapshots, back-fill volumes | listing client, database |
| Holder enrichment (`ingestion/service.py`, `clients/solana_rpc.py`) | `holder_snapshots`, concentration of the newest snapshot, slots of a semaphore | choose targets, concurrent RPC calls, store, back-fill | Solana RPC, database |
| Rug scan (`services/rug_detection.py`) | `rug_events` | read the newest snapshots, dedup against two hours of events, insert | database |
| Bulk classification (`services/classification_bulk.py`; per token `winner_classification.py`) | `tokens.classification` | one UPDATE over active tokens | reads `rug_events` |
| Scoring (`services/scoring_bulk.py`; per token `scoring.py`) | `tokens.score` | one UPDATE over active tokens | reads `rug_events` |
| Creator reputation (`services/creator_reputation.py`) | `creator_wallets` | one upsert of aggregates | reads classifications, feeds the rug scan |
| Report (`services/daily_report.py`) | `winner_patterns`, `daily_market_reports` | build, replace patterns, upsert report | AI summary between the two |
| Retention (`services/retention.py`) | - | deletes old rows of every table | database |
| Healthcheck (`services/healthcheck.py`) | - | SELECT 1, age of the newest report | database |
| Arena bot (`arena/bot.py`, `arena/client.py`) | `_seen_actions`, `_stop` | join, poll, decide, submit with body fallback | arena server |
| Arena strategy (`arena/strategy.py`) | none | decide: from cards, board, price and listed actions to an action and an amount | the bot |
| HTTP retry (`http.py`) | attempt counter | with_retry | listing API, arena |
| Trade summaries, AI summary, migrations, configuration, logging, credentials | none, or derived columns | pure or I/O | - |

What is hard here:

* **Concurrency.**  `max_instances=1` holds per job id; the cron job, the
  startup catchup and the command line's `run-job` can overlap.  All
  transactions are READ COMMITTED and take no explicit lock.
* **Retry and restart.**  An attempt that fails after some phases have been
  committed is repeated from the start; the container may be killed between any
  two statements and restarts with an empty schedule.
* **Time.**  Staleness, dedup windows, retention, midnight and the misfire and
  stop grace periods all compare clocks read at different moments.
* **Derived data.**  Labels derive from events, counts from labels, the next
  scan's signals from counts.
* **Twice the same logic.**  The bulk statements in SQL and the per-token
  functions in Python claim to compute the same labels and scores.
* **A moving listing.**  Pages are addressed by offset while coins are launched,
  traded to the front and delisted between two requests.
* **A foreign server.**  The arena may move on, refuse, lose or delay
  requests; the bot resends POSTs.

What makes each component correct: section 3, per module.

## 2. Modules

| Module | Role |
|---|---|
| `SnapshotTable` | abstract: what one ingest does to `token_snapshots`, in one step |
| `Ingestion` | the ingest transaction statement by statement, several executions at once; implements `SnapshotTable` |
| `IngestionProofs` | theorems about `Ingestion` |
| `Listing` | the listing client, and the server's listing moving between its requests |
| `ListingProofs` | theorem about `Listing` |
| `Enrichment` | what an execution does with what it has read: snapshots, volume back-fill, RPC calls, holder rows, concentration back-fill |
| `IngestJob` | whole executions of the ingest, one after another: `Listing`, normalisation, `Enrichment`, failures and kills |
| `IngestJobProofs` | theorems about `IngestJob`, with the refinement to `Listing` |
| `Classification` | the bulk CASE and `classify_token`, as operators on a snapshot row |
| `Scoring` | the bulk score and `score_token`, likewise |
| `ScoringProofs` | where the bulk versions agree with the per-token ones, and where not |
| `RugSignals` | the five rug signals of `_signals_for`, as operators on two rows |
| `RugAnalytics` | phase 1: rug scan, classification, scores, creators, with prune and retries, executions overlapping |
| `RugAnalyticsProofs` | theorems about `RugAnalytics` |
| `ReportBook` | abstract: what a daily job does to reports and patterns |
| `DailyReport` | all phases as the report sees them: ingest, date, labels, the SELECTs of the report, patterns, prune, executions overlapping; implements `ReportBook` |
| `DailyReportProofs` | theorems about `DailyReport`, with the refinement |
| `Scheduler` | the process that starts, retries, stops and restarts all this, and the healthcheck |
| `SchedulerProofs` | theorems about `Scheduler` |
| `Strategy` | the bot's `decide`, as an operator |
| `ArenaBot` | the poker bot, `with_retry`, and the server as its environment |
| `ArenaBotProofs` | theorems about `Strategy` and `ArenaBot` |
| `MC*` | constants for TLC |

They compose by abstraction.  `Ingestion` shows that the ingest looks like the
one step of `SnapshotTable`; `RugAnalytics` and `DailyReport` use that one step
for phase 0.  `IngestJob` puts `Listing` and `Enrichment` into one execution: every
step of it is a step of `Listing` or leaves the reading alone, which
`ReadsAsListing` proves.  To the times of the snapshots it does exactly the one
step of phase 0, which `SavesAsIngestion` proves.  `RugAnalytics` extends `Scoring` and `RugSignals`, which
extend `Classification`; `ArenaBot` takes its actions from `Strategy`.
`Scheduler` abstracts an attempt of the job to "stores a report,
or fails before or after it"; the other modules abstract the scheduler to "an
execution starts at any time, is repeated up to `Budget` times, or is killed".
That over-approximates the scheduler: executions start more freely than its
triggers allow.  The definitions marked *Slip* are plausible mistakes that no
specification uses: each property is broken by putting one of them in the
place of the definition it varies, which shows that the property depends on it.

## 3. What is modelled, checked and shown

### Ingestion

State: committed `tokens.last_seen_at` and `token_snapshots`, the row locks, and
for each execution its phase and local variables.  Actions follow
`ingest_latest_coins`: `Fetch` (a listing, one `snapshot_at`), `UpsertToken`
(one INSERT ... ON CONFLICT, which waits for and keeps the row lock),
`SelectRecent` (MAX(snapshot_at) of the listed mints and the clock of the
threshold), `InsertSnapshots` (stale mints only), `Commit`.  `Error` may strike
at any point (rollback, then the retry of `_run_job` or the end), `Crash` too,
and `DeadlockVictim` is PostgreSQL's detector choosing one transaction of a
cycle.  Uncommitted rows are local: others see them only after `Commit`.

Run `ingestion`: two mints, listings in both orders, a scheduled run with one
retry and a manual run without, staleness of two ticks, a clock of two.
* `SnapshotsSpaced`: a staleness period lies between a snapshot and the threshold at
  which the mint's next one was found to be due, although the SELECT locks nothing.
  (The stamps of the two may be closer: a stamp is taken before its transaction, the
  threshold in it.)  The reason is not in the SELECT: the token
  upserts two statements earlier have locked the rows.
* `NothingReadIsOutdated`: what the SELECT returned is still true at the INSERT
  and the COMMIT.
* `LocksAreOwned`: no lock outlives its transaction.
* `ImplementsTable`: the refinement.
* `WaitsEnd`: every chain of waits for row locks ends at a transaction that can take
  its next step or in a cycle that the detector sees.
* `EveryTransactionEnds` (liveness): what fairness makes of it.

Two runs, both lock orders, and a clock that can pass one staleness period are
what each of the conflicts needs: skip while fresh, insert when stale, lock
conflict, deadlock, and a retry that meets its own or another's rows.

### IngestJob (Listing, Enrichment)

`Listing`: a reading has an offset and what it has collected; `Trade`, `Launch`
and `Delist` are the server's moves between two requests.  `Page` is one request
of `iter_coins_pages`, `StopsEarly` a 404 or a body that is no list (which ends the
reading with what it has), `ReadingFails` any error that raises.
`Enrichment`: `Save` is the transaction of the snapshots with
`_backfill_volume_and_ratio`; its start (the back-fill's NOW()) and its threshold
come up to a lag (`Lags`) after the stamp of its rows; `ChooseTargets` and `SkipHolders` are the two ways
into `_enrich_holders`; `Send` and `Answer` are the RPC calls, which share the
slots of the semaphore and end with a number, an unreadable reply or an error;
`Store` writes the holder rows (errors too), `BackfillTop` the concentration of
the newest snapshots.  `IngestJob` starts an execution some time after the last,
lets the listing move, normalises, and may raise or be killed between any two
steps.

Run `ingest_job`: two coins that are accepted and, between them in the listing, one
without a name, pages of two entries, at most two, prices that stay, rise from zero,
fall, and are missing, one slot, one or two targets, replies of every kind,
staleness and gap of two ticks, a window of three, a threshold with its stamp or a
tick later, one or three ticks between executions, a clock of four.
* `OnlyMoversAreMissed`: a reading that reached the end has every coin that did
  not move towards the front, although pages shift between requests.
* `VolumesAreDistances`: after every back-fill each snapshot carries the distance
  from its predecessor exactly if that is near enough and both have a price,
  although rows are rewritten as long as they are in the window and their
  predecessors leave it first.
* `ShownWereCurrent`: the concentration a snapshot shows was measured in its time: it
  is that of a holder row that no later row, that of a failed call included, had
  superseded when the snapshot was taken, and that is older than the snapshot's
  successor; also when one execution wrote the snapshot, another the holder row, and
  a third back-filled.
* `OldRowsKeep` (action): only the newest row of a mint ever changes.
* `JobEnds` (liveness): no slot is lost, and a listing that grows while it is
  read does not keep the reading going.

With three coins and pages of two, one launch or trade moves a coin over the page
border.  Delays of one and three are below and above staleness, gap and window; four
ticks are enough for a row to be written, back-filled, skipped as fresh, followed by
another with its predecessor in the gap or out of it, and to leave the window.  The
listing stands still after tick 1 (`MovesUntil`), since an execution starts from the
tables alone and later ones meet nothing new of it.  For other prices and lags, and
any window, there are the theorems.

### RugAnalytics (Classification, Scoring, RugSignals)

State: committed snapshots with all columns that labels, scores and signals read
(cap, all-time high and its time, bonding progress, volume, ratio, largest
holder, replies, last trade, and which are missing), rug events, classification,
score, creator counts, plus each execution's local and uncommitted writes.
The scan reads three clocks: `TakeCutoff` the process's, for the scan's 72 hours;
`ScanForRugs`, the transaction's first statement, fixes its `NOW()`, which dates the
events and delimits the tokens that are relabelled, and reads the two newest rows of
each mint; `JudgeSignals` reads the creators' counts and computes the five signals, by
the process's clock again.  `RecordEvents` dedups and inserts;
`ReclassifyRead`/`ReclassifyWrite`, `RescoreRead`/`RescoreWrite` and
`CountRugs`/`UpsertWallets` are three statements, each in the step in which it
reads and the step in which it has its row locks; `CommitAnalytics` publishes.
A cast that fails raises (`Raises`), and the transaction with it.  `Prune` deletes
old snapshots and events.  The history variable `lone` holds the executions that
have been the only one since they started; no action reads it.

Run `rug_analytics` (one execution at a time, two tokens of one creator, one
retry, four instants, token symmetry; three rows: a token that does well until
nobody trades it, one that collapses while its largest holder sells, one whose
payload makes the cast fail): `EventsSpaced`, `WalletsCountRugs`, and the
action properties `FlagsAreLabelled`: who commits has labelled every rug on record of
a token in its transaction's 72 hours, and no rug on record loses its label (a token
that leaves the 72 hours between the scan's cutoff and the transaction's is flagged
and keeps its old label, in the code and in the model); `SignalsAreRecorded`: every
signal of what the tables show that lasts from the start of the transaction to its
commit is on record then, whatever was recorded before and is therefore not recorded
again; and `SuspicionIsPermanent`: once a creator is over the limit no prune and no
recovery brings it back under.

Run `rug_overlap` (two executions, one token, two rows): `OwnEventsSpaced` still
holds, and `LoneRunRepairs`: whatever overlapping executions have left in
labels, scores and counts, the next one that is alone puts right when it
commits, and then the bulk results are also those of the per-token functions.
With two executions `EventsSpaced`, `FlagsAreLabelled`, `WalletsCountRugs` and
`SuspicionIsPermanent` do **not** hold; `rug_duplicate` shows it for the first, and
labels, counts and the ratchet fail for the same reason (a statement works on what
was committed before the other execution committed).  They are asserted for
single executions only.
Four instants are one window plus one: an event can be inside the window,
leave it, and be pruned.  For an overlap and a repair three are enough, since
every read is of one transaction's time.

### DailyReport

State: snapshot times, the day each token was last seen and the leaderboard its
label belongs to, `winner_patterns` and `daily_market_reports` per date, an
execution's phase and locals.  `Fetch` has a listing and the stamp; `Ingest` commits
it, with any threshold since, so that an execution that has been overtaken sets
`last_seen_at` back; `DateReport` reads the clock *after* the ingest, as the code
does; `Analyze` gives any tokens any labels, which covers what `RugAnalytics` does in
detail.  The report is built by one SELECT after the other, each of which sees what
is committed by then: `CountCoins`, `RankTop` for the winners and for the rugs (by
label and day, cut at `Top`, whatever the order), `ReadNames`; then `DeletePatterns`
and `CommitPatterns` replace the patterns.  `PersistReport` is the later transaction,
`Prune` the retention.  `Error` and `Crash` may come at any step.  DELETEs of two
executions wait for each other's row locks: in the model both read, and the one that
commits first takes its rows from the other's (`Deleted`), which is what a DELETE that
has waited finds; whoever commits first had the locks first.  `lone` is a history
variable: the executions that have been the only one since they started.

Run `daily_report`: one mint, three days of two ticks, staleness of a day, one
execution with one retry (so that a repeated execution meets the rows of the first).
* `PatternsCoverReport`: a stored report never counts a coin that the patterns
  of its date do not, although they are two transactions.
* `ImplementsBook`: seen through the two tables the job is `ReportBook`: patterns
  of a date only grow until it expires, a report is stored with exactly the coins
  behind the patterns of its date, and a date leaves both tables at once.
* `ReportsOnlyGrow` (action): a repetition never replaces a report by one that
  counts less.  It may rank less: the analytics of the repetition relabel, and a
  coin that is no winner any more leaves the leaderboard.
* `JobEnds` (liveness).

Run `daily_overlap`: two executions of one attempt, one mint, two days of a tick, a
coin that stays fresh over midnight, leaderboards of one place, symmetry of the
executions.
* `ListedAreReported`: a coin listed by a run that has been alone, and labelled a winner
  or a rug, is on that leaderboard or the leaderboard is full; and it is counted; with
  the two exceptions the code has: midnight between ingest and date, and, for the
  count, coins still fresh from the day before.
* `LoneRunAgrees`: when a run that has been alone has stored its report, the report
  counts exactly the coins behind the patterns of its date, and its leaderboards hold
  coins of their labels that were last seen on it, whatever overlapping runs left.
* `ReportsAreTrue`: reports and patterns count only coins that had a snapshot on their
  day, however old the reading was that they come from.

The first run has one execution, for which its properties hold.  With two,
`PatternsCoverReport`, `ImplementsBook` and `ReportsOnlyGrow` do **not**: the later
writer may have read first; and a coin can be on both leaderboards of a report,
relabelled by the other execution between the two SELECTs.  The second run starts
from such states: that nothing is invented, and that the next run alone repairs, is
what survives.

Every set here but a leaderboard treats each mint alone, so one mint shows what can go
wrong with any.  A leaderboard with more candidates than places does not occur in the
runs (`daily_report` has no places, since none of its properties is about them); the
theorem `ListedReachReport` is for any limit, the other theorems for any mints too.
Three dates are needed for a report to be stored, expire, and be pruned while later
ones exist; two for a stamp that goes back to an earlier day.

Snapshots are kept a day longer than they count as fresh (`DailyReportAssumption`;
90 days and one by default).  The configuration allows less: then a prune can take
the last snapshot of a coin that has been seen today, and a rerun ranks it no more.

### Scheduler

State: clock, process (down, up, stopping), `next_run_time` and thread of both
jobs, newest report, the threads a stop has killed.  Time is discrete; `Tick`
waits for urgent actions, so that delays are what the code says: a dispatch
happens within `Lag`, an attempt ends within `MaxRun`, a retry begins after its
delay, a stop lasts at most `StopGrace`.  `Accepts` is APScheduler's
max_instances, coalescing and misfire grace; `Boot` registers the jobs and asks
`ShouldRunAtStartup`; `GracefulStop`, `Stopped`, `Kill` are SIGTERM,
shutdown(wait=True) and the container's SIGKILL; `Crash` comes at any time.

Run `scheduler`: periods scaled down (period and catchup age 6 for 24 h, retries
1 and 3 for 1/5/15 min, misfire grace 1, stop grace 2, attempts up to 1, at most
two failures so that one of three attempts works, clock to 40).
* `DailyReportKept`: a process that is up for a period and a run has a report no
  older than `Period + Lag + LongestRun + MaxRun`.  The clock must pass twice that
  bound (2 x 15) for both jobs' orders to show; 40 does.
* `CatchupServes`: after a restart a missed day is repaired.
* `StopSparesFirstAttempts`: a stop kills no run that has not failed before.

Assumptions: `MaxRun < StopGrace` (a run of the job fits in five minutes) and
`Lag <= Grace` (a late thread is not later than the misfire grace); without them
neither promise can be made.  The clock bound ends the behaviours, so liveness is
stated as bounded safety here, which is also what operators care about.

`Lag <= Grace` also means that the only ticks dropped are those that find their
instance at work; one that is dropped for its lateness costs the day by design.

Runs `single_flight`, `stop_grace`: section 5.

### ArenaBot

State: the server's (the decision each table waits for, the moves it took), the
requests whose sender has given up on them, and the bot's: its place in
`run`/`_tick`/`_submit_with_fallback`, `_seen_actions`, `_stop`.  The server asks
and moves on at any time, takes a body it understands if it is waiting, and
otherwise answers 400.  `Answered`, `Refused`, `Unavailable` (a retryable status)
and `TimesOut` are the outcomes of one POST; after the last two the request may
be lost, have been taken, or arrive later.  `HandleRaises` is an exception of
`_extract_state`, which ends the tick.

The actions a payload lists (`Shown`) and what it says of cards, pot and price
(`Situations`) go through `Decide` of `Strategy`, the translation of `decide` with
every branch; `Handle` picks a situation and posts the action it yields.

Run `arena_bot`: a table with two decisions in one hand and another with one (whose
payload may raise and lists no action), a bet legal only at the first decision, a
made hand with and without a price and one without readable cards, actions listed in
upper and in lower case to a server that tells them apart, two attempts,
two understood body shapes, one delayed request at a time.
* `PendingAreSubmitted`: what a poll returned has been submitted when the tick is
  through.
* `DoubleMovesNeedDoubt`: one decision is played twice, on a later decision, only
  if a request of it timed out or met a retryable status; the body fallback never
  does it alone.
* `OnlyListedActions`: every request, late ones included, plays an action that was
  listed for its decision, in lower case; with none listed, a check.  `decide` compares
  and answers in lower case whatever the list (strategy.py:92, 101), so an action
  listed in upper case is played in lower case, and a server that does not fold case
  (`FoldsCase`) refuses it.
* `NeverResubmitted` (action): what `_submit_with_fallback` returned from is never
  submitted again, however long the server lists it.
* `StopIsHeeded` (liveness).

A late request can hit only a decision that exists, so two decisions and one late
request reach the double move; the second table shows that an abandoned tick
loses nothing.  `CHECK_DEADLOCK FALSE` since the bot really stops.

## 4. Fairness

* `DailyReport`: weak fairness of each execution's `Proceed` (threads are scheduled,
  and every HTTP, RPC, AI and pool call has a time-out).
* `Ingestion`: weak fairness of each execution's steps other than the upserts, and of
  the deadlock detector, which PostgreSQL runs after deadlock_timeout; *strong*
  fairness of `UpsertToken`, which the locks of others enable and disable again:
  PostgreSQL queues those who wait for a row lock, so nobody is passed over for ever.
  A transaction in a cycle of waits has its upsert disabled for good, so no fairness
  of it breaks a deadlock; the detector must.
* Triggers, errors and crashes have none in either.
* `IngestJob`: weak fairness of the execution's next step (`Proceed`: the event loop
  runs, and every request has a time-out).  Nothing is owed by the listing, and
  nobody has to start an execution; `Rest` is the idle step between two, so that
  TLC's deadlock check finds an execution that stops anywhere else.
* `ArenaBot`: weak fairness of the bot's next step as a whole (the event loop runs
  and the client's time-out ends every request).  Nothing is assumed of the
  server or of how requests end, so a server that never answers is covered.
* Safety runs state none.

## 5. Disagreements between code and documentation

* `rug_duplicate`: two executions insert the same rug event inside the dedup
  window (`services/rug_detection.py:229`: read, then insert, no constraint).
* `single_flight`: catchup and cron tick run at once, since they are two job ids
  (`scheduler.py:96`), against README.md:174-176.
* `stop_grace`: a retry begins while the process is stopping and is killed in
  its middle (`scheduler.py:47`), against docker-compose.yml:65-66.
* `arena_no_token`: without an actionId the bot remembers one action per hand and
  skips the later ones (`arena/bot.py:201`), against bot.py:6.  Whether the
  server sends one is not known here; the code provides for both.

Two more have no run.  With no report at all the healthcheck stays green for ever
(`services/healthcheck.py:46`), while config.py:81 says "Healthcheck fails if no
daily_market_reports row newer than this": a deployment whose runs have all failed
since its first start looks healthy.  `Healthy` in `Scheduler` is the translation, in
which it can be read off.  The other is proved, since no action of the daily job calls
the per-token functions: classification_bulk.py:19 says that the bulk CASE
"Implements the same logic as `classify_token`".  `ScoringProofs` shows where it
does (`LabelsAgree`, `RugLabelsAgree`), that a last trade that is not written in
digits only is never "abandoned" in bulk (`FractionsAreNeverAbandoned`), and that a
reply count that is no integer raises in bulk and not per token
(`FractionsRaise`).  A token with such a payload makes the analytics of every
attempt fail for as long as it is active.

## 6. Proofs

`IngestionProofs` proves, from `IngestionAssumption` alone (any runs, mints,
listings, retry budgets, staleness, and clock bound), `TypeCorrect`,
`SpacingHolds`, `ReadsStayCurrent`, `LocksHaveOwners`, `Refinement`, `EveryStepCounts`
and, for finitely many executions, `WaitsAreResolved`.  The
inductive invariant adds three facts to the checked ones: an execution that is
past its upserts has upserted its whole listing; `snapAt <= checked <= now`; and a
non-empty column of snapshots has a newest row, so that comparing the MAX with
the threshold is comparing every row (`NewestDecides`).  Why it is needed:
spacing after a commit follows from what the INSERT compared only if nobody has
committed a row of these mints since; that is `NothingReadIsOutdated`; and that
follows from two executions never both being past the upsert of a mint, which is
`LocksAreOwned` together with the first of the three (`ListsAreExclusive`).  The
refinement maps `Commit` to `IngestAtOnce` and everything else to a clock tick or
a stutter.  `WaitsAreResolved`: a lock has an open owner (`LocksAreOwned`), so a wait
leads from an open transaction to another one; among the sets of executions that
wait only for each other a least one exists, and that is a cycle.
`EveryStepCounts`: each step of an execution lowers its attempts left, then its
phase, then its upserts left, and no step of another execution raises them.

`SchedulerProofs` proves `TypeCorrect` and `FirstAttemptsAreSpared` from
`SchedulerAssumption`, for every retry schedule and number of failures.  The
invariant adds that an attempt is never older than `MaxRun` (Tick waits for it)
and that a first attempt of a stopping process began before the stop (dispatch
needs a process that is up).  A kill comes `StopGrace` after the stop, so a first
attempt would be older than `MaxRun`: impossible since `MaxRun < StopGrace`.

The timed promises, `DailyReportIsKept` and `CatchupIsServed`, rest on `KInv`
(`TimedInvariance`): no wake-up is more than `Lag` behind and no retry sleeps longer
than its delay; the next cron time is at most a period away; with the cron job
idle it comes within a period and an attempt of the newest report or the start, and
the run in progress began as soon (`DailyServed`; `Earliest` counts back from the
attempt at hand over the retries before it); a catchup that found no fresh report
is due, at work, or has led to one (`CatchupServed`).
The length of a run is a sum over the retry
delays, computed by the recursive function `SumTo`; what it computes follows by
induction over the set of numbers for which it does (`SetInduction`, from the
well-foundedness of the naturals in set form).  Hypothesis: `MayFail < Attempts`,
one attempt of each run works; without it no report can be promised.
`HealthcheckStaysGreen` adds that `MaxAge` is no
shorter than a period and a run; by default it is 36 hours, for a period of 24.

`ListingProofs` proves `SteadyCoinsAreRead` for any coins, page size and number of
pages.  The invariant: a coin that has not moved towards the front is still in the
listing, and if its position is before the offset it has been read or has no name
(`Passed`); a server move that pushes a coin over the offset from behind is exactly
one that moves it to the front.

`IngestJobProofs` carries that to the composed job (`ReadsAsListing`, a refinement
that hides the enrichment, and `JobReadsSteadyCoins`), and proves `MeasurementsShow`,
`HistoryIsKept` and `VolumesHold` from `IngestJobAssumption` and the assumptions of
its parts; further `SteadyCoinsAreListed`, `ListedCoinsAreCurrent`,
`RatiosAreClamped`, `FanOutIsNeverStuck` and `JobTypes`.  `KInv`: in an execution whose snapshots are committed every listed
coin has one, and there are no targets before they are chosen.  `VInv`: every row is
`Settled`, its volume and ratio being what its own and its predecessor's prices
say; a back-fill rewrites a row only from the same predecessor, so it writes what
is there, except in the row just inserted.  `SInv`: the rows of a coin are in the order
of their stamps, each taken when the one before was stale at the threshold, so the
test of the newest is a test of all.  `MInv`: every snapshot that shows a
percentage shows its time, and until an execution stores its measurements, all rows it
finds are older than its snapshots.
`JInv`: types, and that free slots and calls under way add up to `Concurrency`,
whatever the calls return; hence a fan-out that waits can always go on.
`EveryStepCounts`: every step lowers the phase, or the pages left, or the calls left
of finitely many targets; together the safety half of `JobEnds`.  `SavesAsIngestion`
ties the job to the two other models of the same code: to the times of the snapshots
`Save` does one ingest (a snapshot of the time noted before, for exactly those of the
listed coins that are stale at its threshold) and both back-fills do nothing.

`ScoringProofs` compares `BulkLabel` with `ClassifyToken` and `BulkScore` with
`ScoreToken` for every row, number of events and time, by cases on the branches;
`Plain` payloads are those whose fields SQL and Python convert alike.

`RugAnalyticsProofs`, in three layers, each inductive over the one before.
*Any executions* (`EInv`): an execution's committed events and its uncommitted ones
are a window apart, since they carry its transaction's time and its read came
before its insert: `OwnEventsStaySpaced`.  *One execution at a time* (`Single`;
`LInv`): what it has computed so far is right about what it sees, hence
`EventsStaySpaced`, `FlagsReachLabels`, `LabelsReachWallets`, and, for finitely many
tokens (the counts are cardinalities), `SuspicionStays`.  *Any executions again*
(`AInv`): of an execution in `lone`, and at each of its steps, what it has recorded,
labelled, scored and counted is what the tables it reads call for, because all
others are idle; what they left behind does not enter.  `LoneRunsRecord` needs no
assumption; `LoneRunsRepair` finitely many tokens, and for the agreement with the
per-token functions plain payloads with a non-negative all-time high.
`AnalyticsTypes` is for any executions, and finitely many tokens.

`DailyReportProofs`, in layers.  *Any executions*: `DailyTypes`; `NothingInvented`,
whose invariant adds to the tables what an execution has read and not yet written
(`Held`): coins of its date are in it only if the snapshots show them, and no prune
takes these before the retention reaches the date; `ListedReachReport` and
`LoneReportsAgree`, from an invariant about executions in `lone` (`Alone`): what one
has read and written is what the tables say, because all others are idle, and what
they left behind does not enter.
*One execution at a time* (`Single`): `PatternsStayAhead`, `ReportsGrow` and
`DailyImplementsBook`.  The invariant `DInv` says that what is stored of the
current day is still behind it (`Agree`: reports and patterns of the day count
only coins that snapshots still show), and that what an execution has read of its day
contains all of that (`Reads`).  `Agree` holds of a day while it
lasts, since prunes spare its snapshots, and of an execution's day from its date
on, since nobody else deletes and nobody else ingests.  The refinement maps the
commit of the patterns to `Collect`, the report's to `Publish` and the prune to
`Expire`.  `EveryStepCounts`: an execution takes at most twelve steps for each of its
attempts, whatever others do.

`ArenaBotProofs` proves of `Strategy` that `Decide` yields the lower-case form of a
listed action whenever there is one, a check when there is none, and that its price is
right (`DecisionIsLegal`, `NothingListedChecks`, `DecisionIsPriced`), by cases on the branches; of `ArenaBot`, without further assumptions,
`RequestsAreListed`, `DoubleMovesAreDoubtful` and `SubmittedOnce`.  The invariant
`BInv`: what the server has taken or may still take of a decision is submitted or
doubtful (`Accounted`), and `_seen_actions` holds the keys of what is submitted;
`TInv` adds the types of the server's side for `BotTypes`.
`TokensSuffice` is `PendingAreSubmitted` under `HasToken`: only then do keys tell
decisions apart, and `arena_no_token` shows what happens otherwise.
`EveryStepCounts`: for finitely many tables each step of a tick lowers the tables
left, then the body shapes, then the attempts, whatever the server does meanwhile.

Every safety and action property of a passing run is thus a theorem.  Only
model-checked: liveness (`EveryTransactionEnds`, both `JobEnds`, `StopIsHeeded`),
which is out of the prover's reach, like ENABLED.  What it rests on besides
fairness is proved: that steps run out (`EveryStepCounts`, once for each of the four)
and, where one can wait, that a wait ends (`WaitsAreResolved`,
`FanOutIsNeverStuck`).  The induction
theorems of the library take an operator as a parameter and cannot be used;
where a recursive function's value matters (`SumTo`), the induction is made over a
set instead.

## 7. Not modelled

* Social links (written in the ingest transaction in the same order as the tokens
  and read by one statistic of the report), trade summaries, and columns that are
  output only: holder count, share of the top five, reputation score, winner counts.
* The order within the report's leaderboards, the cut of the patterns to 25 words,
  the report's statistics, its text and the AI summary's.
* What `normalize_coin` computes: which payloads it drops is modelled, the values
  enter as choices of rows and prices.
* Logging, JSON, configuration parsing, credentials.
* Migrations: their keys and defaults appear in the type invariants.
* `dry_run`, the body shape with a seat number, and the client's read-only calls
  in the arena.
* The per-mint version of rug detection, used by tests only.
* The order in which the rug scan's unordered outer SELECT returns rows.
* The order of tables in the bot's payload: a table behind one whose payload always
  raises is never served, which `PendingAreSubmitted` excuses.

## 8. Plan

Done, in this order: `SnapshotTable`, `Ingestion` and its proofs, `RugAnalytics`,
`DailyReport`, `Scheduler` and its proofs, `ArenaBot`; then `Classification`,
`Scoring` and their comparison, `Strategy`, `Listing`, `Enrichment`, `IngestJob`,
`RugSignals`, `ReportBook`, and the proofs of all of these.

Then overlapping executions in `DailyReport`, and the measures behind the four
liveness properties.

Left, by importance:

1. The order of tables in `ArenaBot`'s payload, and what a table is owed when
   another keeps raising.
2. The rug scan's outer SELECT as a choice of order, and which signals depend on it.
3. A run of `DailyReport` with two executions and more candidates than places: its
   theorems cover any number of both, an instance with all of it has more states than
   a run of minutes reaches.
