# pganalyzer in TLA+

pganalyzer watches one PostgreSQL server. Every few seconds to hours a set of
*collectors* copies statistics into *snapshots* in a local SQLite database, an
*analyzer* reads the snapshots, a *suggester* turns what it finds into rows with
a life of their own, a *notifier* tells people about them, and a web interface
shows it all and lets a user trigger a collection or dismiss a suggestion.

This directory holds a model of that program: of the parts in which several
goroutines, the clock, failures and the database meet, and of what the analysis
and its rules conclude from the data. With it come the model-checking
configurations and machine-checked proofs. The reference is the Go source;
`PROJECT.json` names, for each definition, the lines it stands for.

## 1. Inventory

| Component | State | Operations | Talks to | What is hard | What makes it correct |
|---|---|---|---|---|---|
| Collection coordinator (`internal/collector/coordinator.go`) | `cycle` (a channel with one token), `lastRun` (map under a mutex) | `Collect`, `CollectWithTimeout`, `CollectAll`, `RunCollector`, `GetOrCreateSnapshot` | collectors (one goroutine each), storage; called by the scheduler | several callers, cancellation at any point, partial failure, restart | cycles never overlap; every return gives the token back; a coverage row tells the truth about the tables; nothing is skipped whose data is missing |
| Scheduler (`internal/scheduler`) | `run` (atomic pointer), `manualMu`, `HealthStatus`, per run a stop channel and a wait group | `Start`, `StopWithTimeout`, `TriggerSnapshot`, three loops | coordinator, analyzer, suggester, storage; read by the API and the notifier | racing Start/Stop, Stop timeouts, manual triggers against the loop, reports out of order | a reported success vouches for the data; one manual trigger at a time; a graceful stop leaves no loop |
| Snapshot storage (`internal/storage/sqlite`) | SQLite rows: one write connection, a pool of readers | some 60 queries; each write is a statement or a transaction of its own | everybody | reads and writes of one operation are not one transaction; a snapshot is shared by several cycles, and the current tables by all | ids and `captured_at` agree; what is shown of a success is whole and of one run; purges take only what is old |
| Collectors (`internal/collector/*`) | none (the plan collector keeps plans) | `Collect(ctx, snapshot)` | PostgreSQL client, storage | several transactions per run | all or nothing, as the coverage row says |
| Analyzer (`internal/analyzer`) | none | `Analyze(snapshot)` | storage | each domain comes from another snapshot, possibly stale, while cycles write and purges delete | a domain is usable only if its data is whole and young enough; what was not observed is not taken for gone |
| Suggestion rules (`internal/suggester/rules`) | none | `Evaluate`, `RequiredDomains`, `UnobservedTargets` of 22 rules | analyzer result | thresholds, severities, checks that fail one by one, rules that refine each other's findings | missing data resolves nothing; worse is not judged better; advice can be followed |
| Suggester (`internal/suggester`) | suggestion rows (`active`, `resolved`, `dismissed`) | `Suggest(analysis)`; `DismissSuggestion` from the API | analyzer result, storage | not serialised: the loop and a trigger suggest at once; a dismissal in between | dismissed stays dismissed; only what was looked for is resolved; new issues are not lost |
| Notifier (`internal/notifier`) | notification rows, digest slot, `collectionAlerted` | `Tick` every minute | storage, scheduler health, channels | delivery fails, process dies between delivery and record, flapping | every change is announced at least once, at most once without a crash |
| Query history (`storage/sqlite`, `analyzer/query_window.go`) | samples of each statement's counters | sampling, windows, deltas, periods, purge | collectors, analyzer, verification | counters that are sums of entries, evicted or reset one by one; purges, missed samples | without a loss exactly what ran is counted; with one, at most that and what the other entries held |
| Fix verification (`internal/verify`) | none | `Verify` | query history | windows, lead-in, resets | a verdict settles after its window |
| Migrations (`storage/sqlite/migrations.go`) | `_migrations` rows, schema | `Migrate`, `Rollback` | SQLite | several processes at once, crash between migrations, older binaries | applied versions are a prefix; who has the file open finds what it needs |
| Setup checker (`internal/setup`) | cached report | `Report`, `Refresh` | PostgreSQL | report dated before its checks, requests that wait for the mutex | a report is recent; a refresh checks again |
| Plan collector (`internal/collector/plans`) | stored plans | reuse, recheck | PostgreSQL, storage | plans kept for a day over indexes that come and go; transient errors become kept reasons | no proposal for what exists; a need is proposed in the end |
| Process main (`cmd/pganalyzer`) | root context | signal, start-up, deferred stops | all of the above | order of shutdown | storage closes after its users |
| HTTP API (`internal/api`) | none | lists, pages, trigger, dismissal | storage, scheduler, setup checker | two reads that are not one transaction | a list shows nothing older than what is on record |
| PostgreSQL client, web interface, configuration, logging, metrics, models | none that matters here | | | pure I/O, rendering or values | |

How they interact: the scheduler's collection loop calls
`CollectWithTimeout` on every tick of the shortest collector interval; an HTTP
handler calls `TriggerSnapshot`, which calls `CollectAll` and then analysis and
suggestion in the handler's goroutine. The analysis loop does the same analysis
on its own interval, unsynchronised with either. The notifier polls the
suggestion rows and the scheduler's health. What these goroutines share is the
token, `lastRun`, the health record, the run pointer, and the database.

The hazards this leads to are listed with their lines in `PROJECT.json`, each with
the properties that would notice it going wrong. Two have none, and say why.

## 2. Modules

| Module | Stands for |
|---|---|
| `CollectionCycle` | abstract specification of the coordinator: what its callers are promised |
| `Coordinator` | the coordinator in detail, over the snapshot, coverage and data rows it writes |
| `CoordinatorRefinement` | the refinement mapping from `Coordinator` to `CollectionCycle` |
| `Scheduler` | collection as the scheduler drives it, over `CollectionCycle` |
| `Lifecycle` | starting and stopping the three loops |
| `SuggestionLifecycle` | abstract specification of the suggestions table: what its readers are promised |
| `Suggester` | concurrent Suggests and dismissals, statement by statement |
| `Notifier` | alerts: a tick's reads, its message and its writes, over `SuggestionLifecycle` |
| `Digest` | the notifier's other two checks: the alert about collection itself, and digests |
| `Analyzer` | an analysis, read by read, beside collection and maintenance |
| `Thresholds`, `TableRules`, `IndexRules`, `LoadRules`, `RiskRules`, `ConfigurationRules` | what the analysis flags and the 22 rules report, as operators over measurements |
| `Judgements` | a server that changes, analyses that may lack data, and the suggestions open on it |
| `Workload` | one statement's execution as counters, snapshots, history, windows and verdicts tell it |
| `Views` | what each collector writes, snapshot tables and current tables, and what lists show |
| `IndexPlans` | the plan collector over a table whose indexes come and go |
| `Migrations` | several processes that open and migrate one file |
| `SetupChecker` | the cached setup report |
| `CoordinatorProofs`, `SchedulerProofs`, `LifecycleProofs`, `SuggesterProofs`, `NotifierProofs`, `AnalyzerProofs`, `JudgementProofs`, `StoreProofs` | theorems; `StoreProofs` those of the parts that `MCStore` runs |
| `MCCoordinator`, `MCCoordinatorRefinement`, `MCScheduler`, `MCLifecycle`, `MCSuggester`, `MCNotifier`, `MCAnalyzer`, `MCJudgements`, `MCStore` | model values, intervals, scales and symmetry for TLC |

What composes what: `Scheduler` runs over `CollectionCycle`, which `Coordinator` is shown to
implement; `Notifier` runs over `SuggestionLifecycle`, which `Suggester` is shown to
implement; `Judgements` runs the rule modules through the suggester's reconciliation;
`MCStore` puts the parts side by side that meet only in the database.

Definitions whose comment begins with "Mutant" are not part of any specification: each is a
definition of the code with a plausible mistake, kept to show that the
property named beside it in `PROJECT.json` would notice.

### Coordinator

`cycle` is TRUE while the channel holds its token. `pc[p]` says where caller `p`
is: `waiting` (blocked in the `select` of `Collect` or `RunCollector`), `holding`
(has the token, no snapshot yet), `running` (its collector goroutines exist).
`call[p]` are the locals of the call; `task[p][c]` is the goroutine for collector
`c`: it looks at its context (`CheckContext`), commits its tables in one or two
transactions (`WriteFirst`, `WriteLast`) or fails between any two of them
(`CollectFails`), writes the coverage row (`RecordRun`, under the detached
context, so cancellation does not stop it), and only then sets `lastRun`
(`SetLastRun`). `CollectAll` either takes the token at once or returns
`ErrCollectionInProgress` having changed nothing, which needs no action.

Rows (`captured`, `coverage`, `data`) survive `Restart`; the token, `lastRun` and
the calls do not. `data[s][c]` abstracts the tables of a collector for a
snapshot: untouched, *torn* (they mix two runs, or hold part of one) or *whole*.
`lost` is a history variable: the pairs whose latest run left no coverage row,
because the write failed (it is only logged) or the process died before it. `ran[c]`
is one too: the snapshot of the run that set `lastRun[c]`, and when that run's call
began. Cancellation (`Cancel`) is an environment step at any moment: a deadline, a
client that left, a shutdown.

Properties: `CycleExclusive` (mutual exclusion, and the token is away exactly
while someone is inside a cycle), `CoverageHonest` (a success row stands over
whole tables, also in a snapshot several cycles share), `SkippedIsCovered` (a
collector that is not due still has the row of the very run that set its `lastRun`, a
success recorded between the start of that run's call and `lastRun`, unless that row's
write failed; no older success will do), `CleanResultCovered` (a result without errors means every target ran
in this cycle), `SnapshotSpacing` (ids and capture times agree; scheduled
snapshots keep the grouping window), `CallReturns` (liveness).

`RunCollector` takes any snapshot id and is called by tests only; with it
`SkippedIsCovered` would be about a snapshot the caller chose, so the run that
checks this property leaves it out. It is included for exclusion, refinement and
liveness.

### CollectionCycle and the refinement

`CollectionCycle` hides snapshots, rows, goroutines and the token: a caller is
`out`, `waiting` or `in`; a cycle has targets, finished collectors and errors;
each target either succeeds, which moves its `lastRun`, or is reported; a
scheduled cycle is skipped only when nothing is due. The mapping takes `holding`
and `running` to `in` and a `done` goroutine to a finished collector. Exclusion
is not a variable here but the guard `Free`, which the detailed model must earn
through its token.

### Scheduler

`Scheduler` extends `CollectionCycle`: the loop (`Loop`) and the handlers
(`Triggers`) are its callers. `at[p]` follows `runCollectionLoop` and
`executeCollection` for the loop (`starting`, `select`, `calling`, `reporting`) and
`TriggerSnapshot` for a handler (`idle`, `locked`, `calling`, `reporting`,
`analysing`). `Report` is `updateCollectionHealth`: a step of its own, because the
token has been given back by then. The ticker is a Boolean (a channel with room
for one tick), set at every multiple of `MinInterval`. `broken`, `latest` and
`begun` are history variables.

Properties: `SuccessIsFresh` (a reported success vouches for data younger than each
collector's interval), `OneManualTrigger`, `HealthIsTrue` (without triggers, the
health record tells how the latest collection ended, and a success means that the
latest run of every collector succeeded), `RunsWithinTwoIntervals`,
`CallersReturn`.

### Lifecycle

`run` is the atomic pointer; a `schedulerRun` is a member of `Runs` with its stop
channel (`closed`), wait group (`wg`), context (`ctxDone`) and loops (`loop[r][l]`).
`Start` is `Allocate` (with `wg.Add(3)`), `Install` or `Refuse` (the
compare-and-swap), `Spawn` for each loop, `Started`. `StopWithTimeout` is
`BeginStop` (the swap), `CloseStop`, and `Drained` or `TimeOut`. A loop enters
(the collection loop collects first, the others wait), fires, ends its job, and
exits when its `select` sees the stop channel or the context. A run to which
nobody refers any more may be allocated again, as the garbage collector would
allow; this keeps the model finite without bounding the number of Starts.

Properties: `NoOrphans` (no loop is left that nobody can stop and nobody waits for),
`StopIsSafe` (no channel is closed twice and no wait group goes below zero; a graceful
stop leaves no loop), `LoopsEnd`.

### Suggester

`issues` is what the collected data show at present and changes at any moment.
A Suggest evaluates its rules over it (`Evaluate`: `view[w]` holds which rules ran,
what they found, and which targets a failed check on the server hid), reads the
active rows (`ReadActive`), upserts what was found and then resolves what was looked
for and missed. `UpsertSuggestion` is its two statements, `UpdateRow` or
`UpdateNothing` and then `InsertRow` or `InsertConflicts`. The order in which
findings are written depends on the data and is left open. A statement may fail and
is stepped over (`UpsertFails`, `ResolveFails`); `CutShort` is a failed read, an ended
context or the end of the process, after which Suggest has nothing in memory. A
dismissal is the handler's read and check (`CheckDismissal`) and its UPDATE
(`DismissRow`). `always` and `settles` are history variables.

Properties: `GapIsNoRecovery` (an issue that the data always showed is never
resolved), `SuggestSettles` (the postcondition of a Suggest nobody disturbed),
`ImplementsLifecycle` (refinement of `SuggestionLifecycle`), `TableSettles` (liveness:
what all later Suggests agree on, an issue that stays or one that is gone, is what the
table ends up saying). With two Suggests at once an older analysis may resolve what a
newer one has just reported; nothing in the code or its comments excludes it, and
`TableSettles` says that it does not last.

### Notifier

The suggestions are `SuggestionLifecycle`, which the `suggest` run and
`SuggesterImplements` show the table to implement; they change between any two
steps of a tick. A tick is the two reads of suggestions (`ReadActive`,
`ReadResolved`), the read of the state rows with all decisions (`Evaluate`: `verdict`
holds for each issue the case it falls into, `Present` for the switch over
alertable suggestions, `Absent` for the loop over rows), the silent writes (`Keep`), the
one message for everything else (`Deliver`) and then the writes that record it
(`Record`). Severities are their ranks. Times are ages: `notified` and `cleared`
are how long ago `notified_at` and `cleared_at` are, counted up to the limit they
are compared with. A tick takes less than a unit, because `now` is read once at
its start. A read, a delivery to all channels or a write may fail, and the
process may die between any two steps; nothing but the rows survives (`Rest`).
A write that fails because the storage was closed under a tick that nobody waits
for is a `RecordFails`.

`told`, `toldAge` and `quiet` are what a reader of the messages knows and
what the ticks saw; `stale` marks issues with a lost write, `missed` issues that
got worse without a message. Properties: `LedgerIsTold` (nothing is recorded as
sent that was not), `NothingTooEarly` (neither the end of an issue before its grace
period nor a reminder before its time), and `IssueIsTold`: an issue that
stays alertable with one severity is known in the end. The last one depends on
reminders: when the deletion of a resolved issue's row is lost, the issue's return
looks as if it had never gone, and only a reminder tells of it. With
`RenotifyAfter` 0, which the configuration allows, it does not hold (the mutant
`PresentOnce` is that case).

### Digest

Each tick first asks whether collection still succeeds and then whether a digest is due;
`tick` is where it stands. The alert is remembered in memory (`alerted`, gone with a
`Restart`), the digest's slot in the store (`lastSlot`), written after delivery.
`announced`, `mailed` and `installed` are what the readers of the messages got.
`HealthMessagesAreTrue` says that after each check the last message tells the truth,
through failed deliveries, and that an announced failure is not repeated early;
`DigestsCover` that a slot's digest goes out once unless its record was lost, and
that the period before a slot is covered by some digest if a tick was completed in
the period after it.

### Analyzer

A snapshot is cut (`CreateSnapshot`), collectors store rows (`SaveRows`) and then their
outcome (`RecordSuccess`, `RecordError`), maintenance deletes old snapshots
(`PurgeOldSnapshots`). An analysis (`StartAnalysis`) looks up, domain by domain, the newest
snapshot its collector succeeded in (`FindSnapshot`) and when it was collected (`LookupRun`),
and then reads: three lists, `database_stats` for the cache ratio, the tables with their
bloat, once more without it if that fails, and the domains kept as one row (`ReadRow`), after
which activity and locks read their lists (`ReadLists`: lists that are gone by then read as
empty, lists written over meanwhile are newer than the row). `seen[d]` is
what it read of `d`; nothing keeps the store still meanwhile. The mapping from a rule to
its domains is `Required`.

`RecoveryWasObserved`: a rule only resolves suggestions when all its data was there to be
read and no older than its staleness budget and a cycle. `HistoryStaysHistorical`: nothing
collected after the anchor's own cycle reaches an analysis. `AnalysisSurvives` is
violated (section 5).

### Rules and Judgements

`Thresholds` holds the configured and the fixed limits. The five rule modules hold, for
each rule, the condition under which the analysis and the rule report a target, its
severity, and the targets hidden by a check that failed. A measurement is a value on
both sides of each threshold that applies to it; texts, SQL and metadata of a suggestion
are left out. `Judgements` follows one family of measurements (the rules that share
them): the server changes in one measurement (`Change`), or an analysis that lacks some
domains, checks, baselines or plans reconciles the open suggestions (`Analyze`). What an
analysis may lack, its `Gaps`, includes the snapshot a recent window starts from
(`SlowMeans` then judges the means since the statistics were reset) and the plans and table
reads that failed in the plan collector (`Unread`). `Measures` says what there
is to measure, `Scales` which values a behaviour goes through, and `Ordered` which
measurements can only get better or worse; `ScalesAssumption` asks that a scale goes from good
to bad where that makes sense. Columns of a scan are at most `MaxIndexColumns`, because
`IndexColumns` takes three that are compared for equality and one for a range. Properties:
`GapIsNotRecovery` (lacking data, an analysis resolves nothing that a complete one would
report, but for the six cases of `Unprotected`, where the code has no protection; section 5),
`CompleteAnalysisResolves` (a complete one leaves exactly its findings open, and no two
of them share a subject), `WorseIsNoBetter` (a rise of a measurement in `Ordered` never
removes a finding or lowers its severity), `AdviceServes` (all indexes said to be duplicates dropped
at once, what each was said to duplicate is left and serves what it served, and each scan
worth an index is served by a recommended one; the rule for unused indexes is no part of it,
see section 5). A key of an index is a column with its options, and an included column is
compared with columns only.

### Workload

pg_stat_statements has an entry of the statement for each role and nesting. An entry grows
with `Execute` and is lost to eviction or a reset with `LoseEntries`, alone or with others.
`GetStatStatements` sums them (`Summed`), so a loss may lower the sum to a value that is not
zero. `SampleQueryStats` puts the sum into a snapshot and into the history, unless the sample is
missed; `Maintain` purges both by their retention. `truth` travels with each sample:
what really ran and how long, how often entries were lost, and what the others held at that
time (`kept`). `Windows` and
`GetQueryStatsDelta` are the analyzer's, `Period` and `Verify` those of `internal/verify`.
`WindowsAreReal` and `PeriodsAreReal` bound what is counted: exactly what ran when no entry was
lost in between, and otherwise at most what ran and what the remaining entries held at the
loss, because the code takes the remainder of a lowered sum for new (section 5). A
verification sees the newest `HistoryLimit` samples of its range. `VerdictSettles` says that a verdict does not change once
its window has passed, as long as no history ages out.

### Views

`Steps` is a collector's sequence of reads and writes in the code's order, and a run
works it off; snapshot tables are replaced, current tables upserted and cleaned. The size
history of the risk collector is a step of its own (`RecordHistory`) that no page reads and
whose failure is only logged. A run
may fail at each step or end with the process. `RunsAreWhole`: a snapshot a collector
succeeded in has the rows of one run in all tables, however many runs shared it, unless
a write into it failed or was cut short; a run that could not read has changed nothing.
`PagesAreFresh`: current tables show one run that is no older than the last success on
record, unless their last save failed, and a list shows nothing older than what was on
record when it looked up its snapshot.

### Migrations

A process lists the applied migrations once (`GetAppliedMigrations`) and applies what its
binary has beyond them, one transaction each, `ApplyMigration` or `MigrationConflicts` when
another process was faster. `Backfill` is the migration that copies earlier samples into
the history. `OpeningIsSafe`: records and schema are the same prefix, who has the file
open finds what its binary knows, and of processes that start at once not all give up.
`HistoryHasEachOnce`: a sample is in the history once, unless a binary that does not know
the history saved it.

### SetupChecker and IndexPlans

A request takes the cached report or, under the mutex, makes one; the report is dated
before its checks, which run one after another (`CheckSetup`) while the server may come and
go between them. `ReportsAreRecent`: what is handed out tells the server's state, or the
server changed less than the TTL ago or during this request's checks; a refresh is never
answered with older checks. In `IndexPlans` a run of the plan collector reuses a plan
that is young enough and rechecks its table, or plans anew and judges what it finds; the
table's size and index change between any two reads. `BuiltIsNotProposed`: no proposal for
an index that was there since the run began. `ReuseLosesNothing`: no finding is older
than `replanAfter`, and a need that lasted that long undisturbed is proposed.

## 3. Runs

| Run | Instance | Shows |
|---|---|---|
| `faults` | 2 symmetric callers, 1 two-transaction collector with interval 2, crashes, cancellation, lost coverage writes, window 2, 2 snapshots, time to 2 | `CycleExclusive`, `CoverageHonest`, `SkippedIsCovered`, `SnapshotSpacing` |
| `implements` | 2 callers, 2 collectors with intervals 1 and 2, all entry points, cancellation, fairness | `CleanResultCovered`, `ImplementsCycle`, `CallReturns` |
| `collection` | loop and 2 triggers, 1 collector, failures and cancellation, fairness, time to 2 | `SuccessIsFresh`, `OneManualTrigger`, `CallersReturn` |
| `schedule` | loop alone and prompt, collectors with intervals 2 and 6 that may fail, a cycle takes one unit, time to 14 | `RunsWithinTwoIntervals`, `HealthIsTrue` |
| `races` | 2 owners, 2 runs, 2 loops (one of each kind), fairness | `NoOrphans`, `StopIsSafe`, `LoopsEnd` |
| `suggest` | 2 workers, 2 targets of one rule (one behind a check that may fail), 1 user, 1 fault, fairness | `GapIsNoRecovery`, `SuggestSettles`, `ImplementsLifecycle`, `TableSettles` |
| `alerts` | 1 issue, severities 1 to 3 with a minimum of 2, grace 1, reminders after 2, 2 faults of any kind, fairness | `LedgerIsTold`, `NothingTooEarly`, `IssueIsTold` |
| `analysis` | 6 domains, 2 snapshots, 2 collector runs, 1 failed read, budgets 1, retention 3, time to 4 | `RecoveryWasObserved`, `HistoryStaysHistorical` |
| `judgements` | 14 families, each measurement on both sides of its thresholds, every subset of the family's gaps (domains, checks, baselines, plans, table reads) | `CompleteAnalysisResolves`, `AdviceServes`, `GapIsNotRecovery`, `WorseIsNoBetter` |
| `store` | `Workload`, `Views`, `Migrations`, `Digest`, `SetupChecker`, `IndexPlans` side by side, each with its own bounds | the twelve properties of these modules |
| `grace`, `survives` | as small as they can be | the two findings of section 5 |

Type invariants are not among the properties of the runs: seven of them are theorems.

Bounds and why they are enough.

* `Callers` = 2: exclusion and the order of reports are about pairs; the third
  party in the scheduler's runs is the second trigger, needed for `manualMu`.
* `MaxTime`, intervals and `Window`: time is only compared with intervals, the
  window and other stamps. Intervals 1 and 2 with time to 2 contain "due", "not
  yet due", "due again" and both sides of the window. `schedule` runs to 14 with
  intervals 2 and 6, enough for the longer one to pass twice.
* `MaxSnapshots` = 2: one shared and one later snapshot, or one forced and one
  scheduled. When no number is left, making a snapshot can only fail, which the
  code allows anyway.
* `MultiTx`: two transactions stand for two or more; what matters is one point
  between commits.
* `Runs` = 2: one run installed or being started beside one a timed-out Stop left
  behind. (The safety properties also hold with three, where a third is refused
  meanwhile; that takes more states and shows nothing new.)
* `Keys` = 2, of one rule: one may be found while the other is resolved by the same
  Suggest; rows do not depend on each other otherwise. One severity: it is
  written together with the row, and the theorems cover any number.
* `MaxFaults` = 1 bounds failures in `Suggester` so that liveness can be stated as
  "once failures stop"; the theorems hold for any number of them.
* One issue in `alerts`: issues share the message, which fails for all of them, and
  nothing else. (The invariants also hold with two issues, 2.5 million states.) Three
  severities give one below the minimum and a rise and a fall above it; `MaxFaults`
  = 2 lets a lost write meet a lost message.
* Loops: two kinds matter, the one that works before its first wait and the
  others. Analysis and maintenance are the same loop with different jobs.
* `analysis`: of the operational domains that are kept as one row, one with lists is
  in the instance, beside `database_stats`, which is read twice, and the plans, which have no budget when
  the advisor is off. In each behaviour the collectors of one or two domains succeed
  (`Observed`); domains meet in `Required` only in pairs. Two snapshots let the newest
  be superseded. The retention is the least `BudgetAssumption` allows. The theorems of
  `AnalyzerProofs` hold for all of these.
* `judgements`: a family holds all measurements its rules combine, and no finding depends on
  two families, so one at a time is enough. Values are the thresholds and their
  neighbours. Three indexes on a table let one duplicate another that itself
  duplicates a third.
* `store`: the six parts share no variable, so a behaviour in which one works shows as
  much as one in which they alternate. `Workload`: an hour is the unit in which samples,
  windows and retention differ, an execution costs 1 or 9, which is
  less and more than a verdict's bounds; executions of an hour come before its
  sample. Two entries, one loss and three executions let the sum fall to zero, fall to
  something else, or be made up for before the next sample; three of the four samples a
  range can hold are within `HistoryLimit`. `Views`: five collectors stand for those whose runs have the same steps.
  `Migrations`: a first migration, the backfill and a later one. `Digest`: three periods.
  `IndexPlans`: all queries read one table, because queries share nothing but what is
  read of their table; `ReplanAfter` 2 lets a plan be reused once.

`CHECK_DEADLOCK FALSE` appears only where the behaviour may end: the collection loop
stops for good with nobody else in the model, or time, faults and requests are
used up; elsewhere deadlock is checked.

Fairness. In `Coordinator` and `Scheduler` a goroutine that can run does (weak
fairness), and one blocked on the channel is served in its turn (strong fairness
for `Receive` and `TurnOfLoop`): Go's channels queue their receivers first come,
first served. A collector's `Collect` ends: its queries run under the call's
context or fail. No cancellation is assumed, so `CallReturns` does not lean on
deadlines. In `Lifecycle` jobs end, and the exit of a loop is strongly fair
because `select` chooses at random among its ready cases. In `Suggester` a Suggest
that began goes on, and analyses keep being started (the loop's ticker). In `Notifier`
a tick that began goes on and time passes (strong fairness of `Clock`, because a tick
is under way again and again); that faults end is `MaxFaults`. The other modules state
no liveness and no fairness.

## 4. Proofs

All theorems hold for every value of the constants that satisfies the named
assumptions (`ConstantsAssumption`, `CycleAssumption`, `SchedulerAssumption`,
`LifecycleAssumption`, `SuggesterAssumption`, `NotifierAssumption`, `AnalyzerAssumption`,
`DomainsAssumption`, `BudgetAssumption`, `MigrationsAssumption`, `SetupAssumption`,
`DigestAssumption`, `IndexPlansAssumption`, `ViewsAssumption`, `CollectorsAssumption`,
`WorkloadAssumption`, `ConfiguredAssumption`, `ScalesAssumption`): intervals, windows and retentions are positive, `Never`, `NoRun`,
`NoTime` and `None` are no numbers and no runs, the loop is not a handler, a run has
finitely many loops, domains are distinct, a collector is one whose steps are listed,
executions have a dearest one, the thresholds are ones that `validateThresholds` accepts, and
measurements are of their types on scales from good to bad. Three theorems say more in
their own hypotheses:

* `SkippedAreCovered` asks that nobody calls `RunCollector` (`"one" \notin Ops`), which only
  tests do.
* `HealthAlwaysTrue` asks that there are no manual triggers; with them it is false, as
  section 5 says.
* `StartsWithinTwoIntervals` is of `PromptSpec`, in which the loop is not held up, and asks
  with `Punctual` that neither a trigger nor a cancellation gets in its way, and that the
  ticker's period, the shortest interval, divides the others and is longer than a cycle.

* `TypeCorrect`, `CyclesExclusive`, `CoverageIsHonest` (`CoordinatorProofs`).
  Exclusion is inductive together with the token equivalence. Honesty is not: a
  torn table whose writer fails must still have its error row to come. The
  strengthening says which goroutine accounts for each table that is not what
  its row says, and that a goroutine past its last commit stands over whole
  tables; exclusion is needed so that no other goroutine writes in between.
* `SnapshotsAreSpaced`, `CleanResultsAreCovered`, `SkippedAreCovered`
  (`CoordinatorProofs`), each over the one before. `SpacingInv` adds the order of
  times in a call and that ids are given out in order (`CycleTimes`, `CreatedPrefix`).
  `CleanInv` adds what every finished goroutine has left behind (`RunEvidence`). For the
  third, a collector that is not due owes its row to the cycle that last ran it, so
  `SkipInv` follows that cycle's snapshot (`ran`): it has no older row of a target
  (`FreshSnapshots`, `ForcedFresh`), and targets of a scheduled cycle stay due until their
  `lastRun` is set (`TargetsDue`).
* `CoordinatorImplementsCycle` (`CoordinatorProofs`): every action of
  `Coordinator` maps to an action of `CollectionCycle` or to a stutter. The only
  facts about reachable states it needs are types, exclusion (for `Free`), that
  goroutines exist only for targets of a running call (`TaskOwned`), and that a
  caller at rest has no targets while one that waits in `RunCollector` has some
  (`CallShape`). Crashes are part of it, so TLC's run can do without them.
* `SchedulerTypeCorrect`, `SuccessAlwaysFresh`, `ManualExclusive`
  (`SchedulerProofs`). The invariant behind the second, `FInv`: a running cycle
  has fresh data (`FreshAt`) of the collectors it left out and of those that
  finished without error (`CycleFresh`), and so has a clean result that waits to
  be reported. Freshness is kept by every step because `lastRun` only moves to
  the present (`FreshStep`); a skipped collector is fresh because it was not due.
* `HealthAlwaysTrue` (`SchedulerProofs`): only the loop reports, so between two reports the
  outcome it carries is that of the latest cycle (`ReportedIsLatest`).
  `StartsWithinTwoIntervals`: every tick falls on a multiple of the period (`OnGrid`), and
  `LoopKeepsUp` names the last tick that was acted upon: whatever began before it was
  either run at it or was not due yet, and then is due at the next one.
* `LifecycleTypeCorrect`, `LoopsAreWatched`, `StopAlwaysSafe`
  (`LifecycleProofs`). `LInv` adds who owns which run (`StartFresh`, `CloseOnce`),
  that a Start still spawning is watched too, and that the wait group counts the
  loops that have not ended (`WgCounts`, over finite cardinalities), which is why
  a graceful stop that overtakes the spawning Start is sound.
* `SuggesterTypeCorrect`, `GapsResolveNothing`, `SettlesAlways`,
  `SuggesterImplements` (`SuggesterProofs`). Types need `Work` (a Suggest upserts only
  what it found and holds nothing before it read the table) and `Requested` (a
  dismissal in flight is of a row that exists). `Shown` adds that an issue always
  shown is on nobody's list of what to resolve, because whoever did not find it
  did not look or could not see. `Undisturbed` says, for each issue, how far an
  undisturbed Suggest has come with it.
* `NotifierTypeCorrect`, `LedgerAlwaysTold`, `NeverTooEarly` (`NotifierProofs`). `NInv` rests
  on `Judged`: a pending verdict is still the one its issue's row calls for, because
  only its own write changes the row. With it, `Sending` says that what is being
  recorded was sent, `NotifiedLate` that a row is no older than the message it records,
  and `QuietSince` that an issue was not seen since its row says it is gone, except
  while its return waits to be written.
* `AnalyzerTypeCorrect`, `HistoryAlwaysHistorical`, `RecoveryAlwaysObserved`
  (`AnalyzerProofs`). `AInv` says of the store that rows are of their snapshot's cycle and
  a success stands over rows (`StoreInv`); of the analysis where it is (`Stages`), that a
  resolved snapshot still has its rows or was purged and is then too old for a list to
  be usable (`Covered`), that what was read fits what was resolved (`SeenOf`), and that
  what is usable of the reads so far was seen (`ReadSoFar`). The purge is where it
  could fail: a list that is gone reads as empty, so `BudgetAssumption` asks for a
  retention longer than budget, cycle and analysis together, of the lists behind a row
  (`WithLists`) too. The default configuration has
  a week against hours; the code checks only that the retention is positive.
* `OpenTypeCorrect`, `OpeningAlwaysSafe`, `HistoryIsComplete` (`StoreProofs`, as all that
  follow). `OInv` adds that records are a prefix (`Ordered`), that a process's list is a prefix
  of the records, because only with nobody at the file is one taken back (`Lists`), that
  whoever recorded the latest migration goes on (`Leader`), and what the history holds before
  and after its migration (`HistoryRows`).
* `ReportsAlwaysRecent`. A report on record, and one a request holds, is of the server's
  state at its time unless that changed since (`Found`).
* `HealthMessagesAlwaysTrue` rests on what the process remembers of its alert
  (`AlertRemembered`). `DigestsAlwaysCover` on the slot in the store: slots are multiples
  of the period (`StoredSlot`), what was sent is stored unless the record was lost
  (`SentIsStored`), and the period before the stored slot is covered (`StoredIsCovered`),
  which carries a digest that is late or retried over to the next slot.
* `BuiltNeverProposed`, `ReuseNeverLoses`. `RunInv` says of the run at work, finding by finding,
  what a recheck or a plan has established and whether the table was `calm` since; reuse
  hands exactly that on to the next report (`Holds`).
* `RunsAlwaysWhole`, `PagesAlwaysFresh`. `ViewsInv` says which tables the run at work has
  already written (`RunAtWork`), that successes follow each other in the order of snapshots
  (`Successes`), and of the rows of snapshots, current tables and lists which run they
  are of (`FreshRows`, `WholeRows`, `CurrentRows`, `PageRows`). All steps but a new run's
  are `Tame`: a table keeps its rows or gets the last run's. What is needed of the
  collectors is their shape alone (`Shaped`): each reads everything before it writes, and
  writes a table once.
* `WindowsAlwaysReal`, `PeriodsAlwaysReal`, `VerdictAlwaysSettles`. `Follows` relates any two
  samples: without a loss between them the sum differs by what ran, with one it
  has grown by no more than that and is at most what ran and what was kept. It rests on
  the sum of the entries, a recursive function over them (`SumExists`, `SummedIs`), which a
  lost entry lowers and an execution raises by exactly its cost (`SummedLess`, `SummedMore`). `WorkloadInv` has it of all samples, also those that purges
  left. A period's sum is a recursive function over the samples; `GrowthExists` and
  `GrowthIs` say that it satisfies its equation, and what it adds up to is proved along the
  samples of the period by induction over a set of numbers (`GoesOnTo`), which needs no
  operator as a parameter. A settled verdict reads the same samples later, because new
  ones come after its window (`LateSample`) and nothing before it is purged (`WholeTail`).

* `AdviceAlwaysServes`, `GapIsNeverRecovery`, `CompleteAnalysisAlwaysResolves`,
  `WorseIsNeverBetter` (`JudgementProofs`). Little of this is about behaviours: `LevelsOK`
  keeps each level on its scale, so that a measurement is of its type (`WorldIs`), and the
  rest is about the rules, family by family.
  - Advice: `OfLength` and `RecommendIndexes` are recursive functions over the scans and over
    the number of columns. What they give is proved along the values they pass through
    (`AbsorbsExists`, `OfLengthIs`): proposals come longest first, so one that finds no index it
    is a prefix of is no longer than any, and none becomes a prefix of it (`AbsorbServes`). Of the
    indexes that duplicate each other the one kept comes first in a total order (`BestIndex`).
  - Gaps: whatever a complete analysis reports is reported without the gap's data, or is hidden
    by a prefix, or is one of the six cases (`Stays`); where a severity depends on what is
    missing, the same is said of rule and target (`Says`).
  - Completeness: the findings of an analysis are finitely many and each has its own rule and
    target (`Distinct`), so there are as many subjects as findings; a complete analysis
    hides nothing, so what is open afterwards is what it found (`OpenIsFound`).
  - Worse: a condition that holds of a measurement holds of one further up its scale
    (`MoreIsWorse`), so each finding is found again and is no milder (`NoMilder`).

Only model-checked: the liveness properties (`CallReturns`, `CallersReturn`, `LoopsEnd`,
`TableSettles`, `IssueIsTold`), which the prover cannot state under fairness. Every invariant
and every action property of the runs that are expected to pass is a theorem.

## 5. Where the documentation and the code differ

Two are runs that expect a violation:

* The end of an issue is announced "only after ResolveGrace, and only if it has not
  come back in the meantime" (`notifier.go:190`). An issue that comes back with
  a higher severity is an escalation, and only the write after its delivery resets
  `cleared_at`. If the delivery fails and the issue goes away again, the old clearing
  time counts and the end is announced at once (`grace`). `NothingTooEarly` says what
  remains: the grace period is kept unless a write or such a message was lost.
* "if one analyzer fails, others will still run" (`Analyze`). When the snapshot of
  `database_stats` is purged between its resolution and its read, the overall result is
  nil without an error, and the query statistics are added to it: the analysis panics,
  and with it the process (`survives`).

Others were met while modelling; the models are of what the code does.

* `LastSuccessfulCollection` "is when every collector last succeeded"
  (`scheduler.go:70`). With manual triggers it is not: a collector can fail in a
  manual cycle while its earlier success keeps it from being due, and the next
  scheduled cycle, which runs nothing, counts as a success. `SuccessIsFresh`, which is
  proved, holds in every case, and `HealthIsTrue` without triggers.
* `CollectionStatus` gives "the error from the most recent collection"
  (`scheduler.go:316`). Reports are written after the token was returned, so two
  may be swapped.
* `Interval` is "how often this collector should run" (`collector.go:18`).
  `lastRun` is the end of a run, so at the next tick slightly less than the
  interval has passed: collectors at the ticker's own interval run every second
  tick. They never need more than two intervals (`RunsWithinTwoIntervals`).
* `IsRunning` "returns true if the scheduler is currently running"
  (`scheduler.go:215`). After the context ended and all loops returned it still
  does, and `Start` is refused, until someone calls `Stop`.
* "not seeing them is not the same as them being gone" (`suggester/rule.go:45`), but in six
  cases (`Unprotected`) the code takes what it did not see for what is not there. Without a
  snapshot old enough to start a window from, slow queries are judged by their mean since
  the statistics were reset (`slow_queries.go:62`), which drops a query that only became slow
  lately. A query whose EXPLAIN failed, or a table whose indexes could not be read, leaves no
  proposal in a report that counts as a success (`plans.go:157`, `plans.go:319`), so a
  recommendation all of whose proposals are lost so is resolved. Without the size of the
  cluster a finding about `shared_buffers` is resolved; so are findings of connection
  saturation when only the peak is missing, of disk growth when the history is missing, and
  of evictions when there is no baseline.
* "deadlocks per snapshot" and "temp bytes per snapshot" (`suggester/rule.go:99`) are
  compared with the cumulative counters of `pg_stat_database`.
* "raising a warning threshold cannot make every finding critical" (`suggester/rule.go:178`):
  a bloat warning of 50 per cent or more, or a cache ratio warning of 0.90 or less,
  does make every finding critical.
* "the suggestions never reference an index another suggestion drops"
  (`analyzer/indexes.go:173`) holds among duplicates, which is all `AdviceServes` says of it.
  The retained index may still be dropped by the rule for unused indexes.
* `GetQueryStatsDelta`: "If stats were reset (indicated by negative deltas), uses current
  values as-is" (`storage.go:670`), and "A counter that went down was reset, and counts from
  zero" (`verify.go:206`). The sample is a sum over roles and nestings (`pgx_client.go:124`),
  so it also goes down when one of its entries is evicted or reset, and does not count from
  zero then: what the other entries had counted long before counts as new, in windows and in
  periods (150 falling to 100 counts 100 executions). `WindowsAreReal` and `PeriodsAreReal`
  allow exactly this much; a full reset counts nothing that did not run.
* In `GetQueryStatsDelta` each column is judged by itself, so a reset that one column has made up
  for mixes values of both times; `WindowsAreReal` says what remains.
* The window's newest and oldest snapshot are looked up before their rows are joined
  (`query_window.go:41`); when maintenance deletes the oldest in between, its rows count as zero and
  the window as the time since the last reset.
* "not enough history after the resolution yet" (`verify.go:31`) stays for good when
  the query runs less often than the minimum number of calls in its window. A verdict
  that has settled can be lost when part of its history is purged.
* The list endpoints look for the newest snapshot that carries their data, because the
  newest "is often a partial one" (`handlers/queries.go:208`); the JSON dashboard
  reads the newest one all the same (`handlers/dashboard.go:84`).
* A collector that succeeded and then failed in the same snapshot leaves an error
  there, which hides the rows of the success (the row is replaced, `storage.go:455`).
* A digest covers the period before its slot. A period in which no tick was completed at
  all is in no digest.
* The recovery of collection is told to whoever was told of its failure, unless the process
  restarted in between: the alert is remembered in memory only.
* "could not read the table's indexes" (`plans.go:319`) is kept as the reason why a scan
  has no proposal until the plan is made anew: `recheck` leaves scans with a reason alone.

## 6. Plan

Done: the coordinator with its abstract specification, the scheduler, the life cycle, the
suggester with its abstract specification, alerts and digests, the analyzer, the rules,
the workload's history with verification, the collectors' tables, the plan collector,
migrations and the setup report; and proofs of all their safety properties. What is left,
in this order:

1. Proofs of the abstract specifications themselves, and of what their users may conclude
   through the refinements (that the properties of `Scheduler` and `Notifier`, proved over
   `CollectionCycle` and `SuggestionLifecycle`, hold over `Coordinator` and `Suggester`).
2. Composition: main's deferred calls with `Lifecycle`, the notifier goroutine and the
   storage handle, whose order of shutdown is a hazard without a module of its own.

## 7. Not modelled, and why

Rendering, templates, charts, message layout, logging and metrics: no property is about
them. The wording, SQL and metadata of suggestions, for the same reason. PostgreSQL itself
and the wire client: they answer, answer in part or fail, and all are choices of the
model. Parsing a plan's JSON: a scan has its columns or none. SQLite's internals: a
statement or a committed transaction is one step; connection set-up, pragmas, VACUUM and
the statistics of the database file change no row. Registration of collectors: it ends
before the first call. `AnalyzeWithTimeRange` has no caller. The health records of analysis
and maintenance are two fields that are only shown. Wall-clock jumps: Go's monotonic
clock is used for intervals within a process; `captured_at` across a restart is assumed
not to run backwards.
