# Verification of the Corteris tender collector

This directory holds TLA+ models of Corteris Tender AI, a desktop application
(PySide6, SQLite) that collects public tenders from several sources, keeps them
in a local registry, verifies and scores them. The part with real concurrency,
failure and recovery is the *production tender collector*
(`app/tenders/collector`); it comes first. Source paths below are relative to
the repository.

## 1. Inventory

| Part | State it keeps | Operations | Talks to |
|---|---|---|---|
| **Collection run** (`collector_service.py`, `store.py`) | SQLite: `collector_runs`, `collector_run_leases`, `collector_accepted_pages`, `collector_checkpoints`, `collector_run_providers`, the tender registry | `start_run`, `save_accepted_page`, `get_checkpoint`, `save_batch`, `complete_run` | engine (callbacks for checkpoints and pages), discovery queue, UI worker |
| **Search engine** (`async_engine.py`, `cancellation.py`) | `_SearchLifecycle` (run state, provider snapshots, executions, revision), a semaphore, one task per provider, the cancellation token | `search`, `mark_running`, `accept`, `finish`, page collection | adapters, health monitor, progress dispatcher, checkpoint repository; the token is set from the Qt thread |
| **Provider health** (`health_monitor.py`, `source_monitoring.py`, `run_session.py`) | per-run circuit state; rebuilt from the provider rows of earlier runs | `register_*`, `can_execute`, `restore`, `hydrate_health_monitor` | engine, run rows |
| **Rate limiter and HTTP** (`rate_limiter.py`, `async_http.py`) | per domain: semaphore, last start, blocked-until, requests today | `limit`, `block`, `request` with retries | adapters, cancellation token |
| **Progress dispatcher** (`progress.py`) | bounded queue, consumer task | `publish`, `close` | engine, UI |
| **Aggregator discovery** (`aggregator_discovery.py`) | bounded table of discoveries, attempts | `enqueue`, `resolve`, `mark_failed`, `verify_pending` | adapters, official search |
| **Schedule and collection lifecycle** (`scheduler.py`, `tender_collector_scheduler_controller.py`, `tender_search_ui_controller.py`) | JSON schedule file, in-memory flags, worker thread and generation, lifecycle state | `poll`, `mark_started`, `mark_finished`, `update_settings`, `run_now`, stop, shutdown | run, UI, notifications |
| **Provider control plane** (`provider_settings.py`, `provider_control.py`, `manual_*`, `provider_credentials.py`) | settings file (registrations, adapters with their history, switches), health file (diagnostics, evidence of connection tests), protected store | edit, roll back, switch, test, `settings_snapshot` | Qt thread, check worker, the run it admits |
| **Document storage** (`document_storage.py`) | one blob per checksum, hard links in the folder of each tender, catalogue rows | `download_for_tender`, `find_reusable`, `save_response`, `record_failure` | documents worker and analysis worker of the UI, which share it |
| **Normalisation, verification, deduplication, scoring** | none (functions of a batch) | `normalize`, `deduplicate`, `verify`, `score` | run |
| **Database maintenance, backup** (`app/database`, `app/core/workflow_*`) | database file, backup files with their metadata, lock files | upgrade, backup, rotate, verify, restore | start-up, UI |
| **Launch guard, crash reports** (`app/core`, `bootstrap.py`) | launch history, crash reports | `evaluate`, `begin_launch`, `mark_ready`, `mark_clean_exit`, `capture_current` | start-up |
| **Everything else** (UI widgets, reporting, finance, AI prompts, catalogue) | — | presentation and calculation | — |

What is hard in it: a run spans several transactions and may be stopped, time
out, outlive its lease or die between any two of them; the provider tasks of a
search share one event loop and may be suspended at every publication; the
circuit breaker of a run is a reconstruction from what earlier runs managed to
record; the schedule is a file that several handlers load, change and write;
a file of the document store is reachable through several names; an upgrade of
the database consists of several transactions; evidence about a source lives in
another file than the settings it is about. The full list, line by line, is `"hazards"` in `PROJECT.json`.

## 2. Plan

The order follows what a wrong answer would cost: lost tenders and stuck
collections first, then the sources, then the rest of the application.

| Order | Module | Composes or refines | State |
|---|---|---|---|
| 1 | `CollectorRun` | the tail of `collect()` around a search, seen page by page; refines `RunLedger` (what the tables tell a reader) | written, proved |
| 2 | `CollectorEngine` | refines `SearchRun` (what one search promises its caller) | written, proved |
| 3 | `ProviderHealth` | circuit breaker and its reconstruction from the rows `CollectorRun` records | written, proved |
| 4 | `ScheduledCollection` | schedule, controllers and worker around one run of `CollectorRun` | written, proved |
| 5 | `RequestLimiter` | the requests an adapter makes inside a provider task of `CollectorEngine` | written, proved |
| 6 | `DiscoveryQueue` | passes of the verification over the bounded table the collector fills | written, proved |
| 7 | `SearchProgress` | extends `CollectorEngine` with the dispatcher that publishes its snapshots | written, proved |
| 8 | `DocumentStore` | two download workers over one blob directory | written, proved |
| 9 | `DatabaseMaintenance`, `Startup` | `Startup` extends it: the upgrade inside the start of the application | written, proved |
| 10 | `ManualProvider` | editor, check worker and run over two settings files | written, proved |
| 11 | `Deduplication` | grouping as operators, against a reference definition over all small batches | open |
| 12 | workflow backup (`app/core/workflow_*`) | restore with rollback, retention, automatic schedule | open |

Abstract specifications worth stating beside `SearchRun` and `RunLedger`: an atomic collection
(all accepted items and the checkpoint in one step) that `CollectorRun` does
*not* implement (finding 1 says where); "old database or new database, and a
backup of whatever is gone" for `Startup`, of which `RowsKept` is the part that
matters.

Theorems: the safety invariants and action properties of the runs are proved
(section 6). Worth proving next: refinements of further abstract specifications
in the style of these two, and whatever rows 11 and 12 bring.

## 3. The modules and the code

`PROJECT.json` maps every definition to the lines it stands for. One step of a
model is one piece of code that nothing else can interrupt: a SQLite
transaction, the code between two awaits of one event loop, or one Qt slot.

**`CollectorRun`** — runs `r` over one database and one query scope.
`runStatus`, `lease`/`ttl`, `pages`, `checkpoint`, `outcomes` and `registry` are
tables and survive `Crash`; everything else is what `collect()` and the engine
hold in memory. `StartRun` is `start_run` (an expired lease row is replaced),
`OpenProvider` reads the checkpoint, `AcceptPage` is one `save_accepted_page`
(page row and checkpoint in one transaction), `FailProvider`, `TimeoutProvider`
and `CancelProvider` end the task with or without its items, `Gathered`,
`StopCancelled`, `Deadline` and `StopTasks` are the branches of `search()`,
`SaveBatch`, `FinishRun`, `Report`, `FailBatch` and `FailReport` the tail of
`collect()` with its `except` clause, which is reached from the batch, from
`complete_run` itself, and from building the result, where it completes a run a
second time. `Accept` records an outcome and then merges everything accepted so
far (`Rebuild`, which is `_rebuild_partial`); the constant `Unmergeable` holds the
sets of items on which the deduplication raises, in which case `merged`, and with
it what `SaveBatch` writes, stays behind `outcome` and `kept`. A page carries one
item; `LastPage` is the terminal page. **`RunLedger`** is its abstraction, in which
only tables occur: `Admit`, `AcceptPage`, `Save`, `Close`, `Abandon`, `Amend` (the
second completion) and `Expire` are all that may ever happen to them. It knows the
lease by its holder and the set of runs in time, the checkpoint by its page.

**`CollectorEngine`** — one search at the granularity of awaits: `runState`,
`snap`, `result` and `revision` are `_SearchLifecycle`; `task` says at which await
a provider task is suspended; `stop` is a `task.cancel()` not yet delivered;
`main` is where `search()` is. Publishing a snapshot yields, so `entering` and
`accepting` are states of their own. `Record` is what `accept` does with an
execution it takes: outcome and result first, then the merge of all results
(`merged`), which may raise and then ends the task. `Aggregators` are the providers
whose items never enter the deduplication, and so never make a run PARTIAL.
`Deliver` is `CancelledError` arriving at any await. **`SearchRun`** is its
abstraction: one outcome per provider, items that are never taken back, one end.

**`ProviderHealth`** — `history` is what `list_provider_outcomes` returns, newest
first; `monitor` is `ProviderHealthMonitor._states`; `Hydrated` is
`hydrate_health_monitor` followed by `restore`; `StartRun`, `Refuse`, `Admit`,
`Call`, `Answer`, `Deadline`, `CancelRun`, `Gathered`, `Record` and `Lose` are one
run after the other as far as they touch health. Statuses that the code treats
alike are one value (`success` stands for `empty` too, `circuit_open` for
`unsupported` and `skipped`). The loops over the rows of a provider are sets of
places in `history` (`Meaningful`, `Latest`, `Failing`, `Consecutive`).

**`ScheduledCollection`** — `file` is the JSON schedule, `scheduled` is
`_scheduled_active`, `state`, `worker` and `token` belong to the search
controller, `stage` is the runnable in the thread pool and `signals` the queued
connections back to the GUI thread. A step of the GUI is one slot: `Poll`,
`StartupCheck`, `RunNow`, `SaveSettings`, `Stop`, `Deliver`, `CloseRequest`,
`CloseDone`/`CloseTimeout` (the wait in `shutdown`, which other work of the pool
may outlast when the collector's own runnable is gone), `Quit`. `StartScheduled`
sets the flag before the callback, which may start a run, be rejected or raise;
`stranded` remembers that an exception left the flag set. `StoreFreshness` and
`EndRun` are the thread. Times are relative: `file.nextRun` and `recheck` count
down with `Tick`.

**`RequestLimiter`** — one domain: `permits`, `spacing` (since
`last_started_at`), `blocked`, `count` and `counted` are `_DomainState`; `pc` is
where `AsyncHttpClient.request` is suspended; `acquire` and `wire` are the inner
tasks `acquire_task` and `request_task`, which a cancellation from outside
(`Abandon`, the `asyncio.timeout` of the engine) leaves running. `TryStart` is one
round of the loop in `_wait_for_start` under the domain's lock; the lock is never
held across an await, so it is not modelled as a state. `sent` and `asked` are
history variables for the properties.

**`SearchProgress`** — extends `CollectorEngine`. `pending` is the queue, `deliverer`
the task `_deliver`, `dispatcher` where `close` is; a snapshot is the revision it
shows. `SearchStep` is any step of the search: a new revision is put into the
queue in the same step, a full queue losing its oldest entry. `Take` and
`CallbackReturns` are the subscriber, which may take long, raise or hang; `BeginClose`,
`Closed` and `GiveUp` are `close` with its wait of 0.2 s.

**`DiscoveryQueue`** — `row` is the table, `attempts` the log of tries per
identity, `todo` what is left of the list a pass of `verify_pending` took at its
start. `EnqueueNew` evicts settled rows and may refuse, `EnqueueAgain` is the
`ON CONFLICT` branch, `Resolve` and `Fail` work on the row that exists *now*, and
`ReadBack` is the `get` with which both end, in a transaction of its own: a row
evicted before either of them ends the pass (`Abort`). The application has one
repository object and its transactions hold a lock, so a transaction is one
step; with two objects the `SELECT` and the `UPDATE` of `resolve` would be two.

**`DocumentStore`** — `blob`, `file` and `data` are the file system (a hard link
gives two paths one inode), `row` is the catalogue, `lock` is `_lock`. The steps of
one download are `Fetch`, the answer, `ChooseTarget` and `LookForBlob` *outside*
the lock, then the blob, the link or the copy, and the row inside it; `Crash` may
come between any two. The name of a document is abstracted to "the name all
documents of its folder have", the case in which names must be made unique.

**`DatabaseMaintenance`** — `db` is what an upgrade looks at (kind of keys, audit
columns, tables, version, leftover `_v2` tables, the user's records). Tables may
be missing, present, or `"odd"`: a table of another structure under a name of the
schema, which `CreateTables` leaves alone and `VerifyRejects` finds. `Orphans` are
documents and analyses without a tender, which `CopyRows` leaves behind; `backups` are
files newest first, with or without their metadata. `stage` and `job` say which
durable step of an upgrade, backup, restore or check comes next. `CopyRows` and
`CreateV2` are separate because `executescript` commits the transaction that was
opened before it. **`Startup`** adds the launch history and the order in
`bootstrap`: the safe mode is decided (`evaluate`) before the launch is recorded
(`begin_launch`), the database comes next, the safe-mode dialog and the window
last.

**`ManualProvider`** — one registration. `reg`, `enabled` and `secret` are the
settings file and the protected store, `health` is the health file. An edit is
two steps, `SaveProtocol` (or another one) and `Invalidate`, which may fail. The
check worker goes through `Prepare`, `BindCheck`, `ReadSecret`, `ProbePasses` or
`ProbeFails`, `Reread`, `Compare`, `SaveEvidence`; `UpdateLoad` and `UpdateSave` are
the diagnostics of the built-in sources in the same file. `RunLoad` to `RunAdmit`
are the four reads of `settings_snapshot` for a run. `updated_at` is the number
of the edit, `conf` remembers which edit last changed protocol or adapter.

## 4. What the runs show

| Run | Instance | Question | Distinct states |
|---|---|---|---|
| `run_overlap` | 2 runs, 1 provider, 3 pages, 2 per run, lease of 1 tick, pages that cannot be merged | two processes, expired lease, crashes, hanging provider; the page counter while nobody outlives its lease; refinement of `RunLedger` | 222,133 |
| `engine_core` | `SearchProgress`: 2 providers, one an aggregator, 1 permit, 1 page before the last, queue of 2 | suspension points, cancellation, deadline, delivery of progress; refinement of `SearchRun` | 263,656 |
| `health_circuit` | 1 provider, thresholds 2 and 3, window of 3 rows | does hydration reproduce the monitor, is a provider ever locked out | 96,923 |
| `schedule` | 1 tender, period 2, recheck 1, deadline 2, 4 clicks, closes or crashes | who owns the run, are slots served, does the worker come back | 249,581 |
| `limiter` | 3 requests, 2 permits, 2 starts a day, 2 attempts | permits, spacing, 429, budget, progress | 408,557 |
| `documents` | 2 workers, 2 tenders, 3 documents, 2 bodies, 4 downloads | what is offered for reuse, and that recorded files never change | 2,505,514 |
| `discovery` | 2 passes, 3 identities, 2 candidates, table of 2, 4 discoveries | bound, protection, soundness of matches across stale lists and read-backs | 977,659 |
| `startup` | 2 records, one without its tender, 2 backups kept, 2 faults, 2 requests, history of 3, threshold 2 | upgrade of every older database, also one that `_verify` rejects, backups, restores, crash loops | 2,418,331 |
| `manual_admission` | 2 specifications, history of 1, 5 edits, 2 tests, 1 crash | admission of a source that is edited, tested and used at once | 5,968,165 |

and three runs that end in a counterexample: `run_replay`, `documents_shared`,
`startup_restore` (section 7).

Why these bounds are enough for the question asked. Two runs are enough for
every way one run disturbs another: a lease is held by one, and a checkpoint is
overwritten by whoever commits last; a third run repeats what the second may do.
Three pages with two per run make a run stop at its budget, the next resume
and the one after start again from the first page. Two providers on one permit
give one that waits while the other works and is cancelled; a queue of two is the
smallest in which the end marker and the terminal snapshot fit together, and is
full nearly always. A window of three rows holds a success, a failure streak at
each threshold and a row that pushes another out; ages up to `3 * Cooldown` cover
every timer, older rows are all alike. Four user actions let a stop, a failed
close, a second close and a crash meet in one behaviour. Three requests on two
permits give contention, two starts a day give refusals on both sides of
midnight. Four downloads let a document be fetched, refreshed with another body
and fetched by the second worker in between. A table of two with three
identities evicts, refuses, and evicts a row that a pass still has on its list.
Two faults interrupt an upgrade and the upgrade that repairs it; two backups
kept, with the safety copies of upgrades and restores, make every rotation
delete something. Five edits select a protocol, save two adapters, clear the
second, which a history of one has to cut, and save a third under a number that
must be new. None of the safety results of the passing runs rests on
the bounds: they are theorems (section 6). What the bounds carry are the
liveness properties and the question whether the interesting cases happen.

Bounds in guards: `MaxPages` (pages before the last one, `CollectorEngine`),
`MaxActs` (`ScheduledCollection`), `MaxDelay` (longest delay, `RequestLimiter`),
`MaxDownloads`, `MaxEnqueues`, `MaxFaults` and `MaxUses`, `MaxEdits`, `MaxChecks`,
`MaxClock` and `MaxCrashes`; the age of a row stops at `MaxAge` and the error
counter at `Threshold` (`ProviderHealth`). Each run identity of `CollectorRun` is
used once. `CHECK_DEADLOCK FALSE` is set where the system really stops, or where
a bound stops it: all run identities used, the search closed, all downloads
made. `ScheduledCollection` and `RequestLimiter` never stop, because time does not.

Symmetry is used where only state invariants are checked: `manual_admission`,
whose specifications are compared for equality only.

Beside the listed runs the directory keeps configurations for further instances:
`CollectorRun_timely` (two providers, no process outlives its lease; 1,106,327
states) and `CollectorEngine_core` (3 providers on 2 permits; 984,726 states) pass;
`CollectorRun_stop`, `CollectorRun_merge`, `CollectorEngine_late`, `ProviderHealth_starved`,
`ScheduledCollection_finished`, `RequestLimiter_timeout` and `ManualProvider_secret`
end in the counterexamples section 7 describes.

## 5. Fairness

| Module | Assumed | Why |
|---|---|---|
| `CollectorRun` | `Tick`; the steps of `search()` and of the tail of `collect()` | the deadline is a timer, the tail is straight-line code; providers may hang for ever and crashes may happen at any time |
| `CollectorEngine` | steps of the event loop and of `search()` | asyncio runs what is ready and timers fire; adapters may hang for ever |
| `SearchProgress` | the above; `Take`, `BeginClose`, and `close` ending one way or the other | the task `_deliver` is ready when the queue is not empty, the wait of `close` has a timeout; nothing is assumed of the subscriber, which may never return |
| `ProviderHealth` | `Tick`; strong fairness of starting a run with all providers, of recording it and of the engine's own steps | the schedule starts runs again and again, and a single one may be lost or stopped anywhere, but not every one at the same point |
| `ScheduledCollection` | `Poll`, `Deliver`, `Begin`, `EndRun`, the end of the wait in `shutdown` | Qt fires the timer and delivers queued signals, the pool starts what it was given, a run is bounded by its budgets, the wait has a timeout |
| `RequestLimiter` | `Tick`, the wake-ups and the answers of each request | the loop runs ready tasks; an exchange is bounded by the timeouts of the HTTP client |
| `Startup` | a new start after the process is down, the next database step of a start | the user starts the application again, the pipeline is straight-line code; faults are bounded, so eventually a start meets none |

`DocumentStore`, `DiscoveryQueue` and `ManualProvider` have safety properties only:
their actors do nothing but end.

No property assumes that users act, that runs succeed, or that nothing crashes.

## 6. What is proved

The theorems hold for every value of the constants, under the assumptions the
modules name: `NoRunAssumption` and `BoundsAssumption` (a terminal page, a page
budget and a lease of at least one), `EngineAssumption` (finitely many providers,
at least one permit), `ScheduleAssumption` (intervals of at least
one tick), `LimiterAssumption` (finitely many requests; permits, interval, daily
limit and attempts of at least one — what `RateLimitPolicy` and
`AsyncRetryPolicy` validate), `StoreAssumption` and `NamesAssumption`,
`QueueAssumption` and `NoRowAssumption`, `MaintenanceAssumption` and
`StartupAssumption` (a safe-mode threshold of at least two that the history can
hold), `ProgressAssumption`, `HealthAssumption` (finitely many providers; a
threshold, a window and permits of at least one, the second threshold not below
the first), `ProviderAssumption` (a history and a lifetime of evidence of at
least one). None of the properties is inductive by itself.

**`CollectorRun_proofs`.** `TypeCorrect` and `NoPageSkipped` rest on `PageInv`: the
page a running task asks for next exists, and every page below it was accepted
by some run. The first half is what types need (a resumed task must not count
past `LastPage`), the second is what makes `AcceptedPrefix` survive a page commit
that *lowers* another run's checkpoint: rows of `pages` are never deleted
(`PagesGrow`), so what held for a task when it opened its provider still holds.
`OneRunInsideItsLease` and `CompletedRunsHoldNoLease` rest on `LeaseInv`: a run that
is RUNNING with time left on its lease owns the lease row; `start_run` replaces
only an expired row, and `complete_run` deletes the row only for its owner.
`RecordedOutcomesAreSaved` and `CompletedRunsAreSaved` rest on `SavedInv`, which
follows the pages of a run on their way to the accepted executions, and on
`RegistryInv`, which follows them from there through the merge into the registry;
no outcome row exists before that. The second half holds for a run as long as
none of its pages contradict each other (`Mergeable`), a condition on the page
table that can only become false, so it needs no history. `CountIsExactInTime` rests on `CountInv`: while everybody works inside a
lease at most one run is searching, so the counter a task carries on from is
the one in the row, and the page it adds has no row of this run yet, because
what a run accepted is among the items its task holds (`SavedInv`), and those lie
below the page it asks for. It is a theorem about
behaviours all of whose states satisfy `Timely`, not about single steps.
`TablesTellTheTruth` is the refinement of `RunLedger`. It needs three things
the tables do not show (`ToldInv`): the items a run holds come from pages it
accepted itself, when a search is over every provider has an outcome, and the
row of a run that reports is terminal — so a second completion cannot find its
own lease row. With them each transaction maps to one action (`AcceptPageAccepts`,
`SaveBatchSaves`, `FinishRunCloses`, `FailReportAmends`, ...), everything else to a
stutter.

**`ScheduledCollection_proofs`.** `TypeCorrect`; `OneRunAtATime` and `StopIsFinal`
rest on `Coupling`: a terminal signal is the last one of a run whose thread has
ended, a held worker has an active lifecycle, a closed lifecycle admits no run.
Without it nothing excludes that the delivery of one terminal signal frees the
worker while another is still queued. `FlagMatchesRun` adds that the scheduler's
shutdown clears its flag for good.

**`RequestLimiter_proofs`.** `TypeCorrect` and `PermitsAreConserved` need each other:
that permits stay in range follows from their conservation. `Waiting` says that a
request inside `limit()` has no live `acquire_task`, so every permit is counted
once; `UsersMove` and `PermitMoves` reduce each action to "one request enters the
set of users, leaves it, or neither". `BudgetKept` rests on `Budget` (the counter is
the number of starts of the day, or belongs to an earlier day), `StartsAreSpaced`
on `Silence` (no 429 still asks for more than `blocked` records).

**`SearchProgress_proofs`**, the engine. Everything rests on `SearchInv`, which says what the
variables leave implicit: `search()` waits exactly until the run is terminal,
CancelledError is only sent to tasks of a terminal run, a provider without an
outcome has no result, a task that ended in a running run left an outcome,
and what is merged comes from results on record. With types and `PermitsConserved` it is inductive; the actions of a task reduce to
two lemmas, one for those that offer an execution to `accept` (`AcceptKeeps`) and
one for those that only move (`TaskKeeps`). `TerminalIsSilent` and
`NothingIsDispatched` follow for single steps. `EngineImplementsSearchRun` maps
every step to `Complete`, `CutShort`, `End` or a stutter of `SearchRun`:
`GatheredEnds` needs the last conjunct of `SearchInv` (otherwise the run could end
with a provider still pending), `FinishCutsShort` the third (otherwise `finish`
would drop a result that `SearchRun` keeps).

The dispatcher. `TerminalIsShown` (a subscriber that keeps up gets the
terminal snapshot) needs a queue of at least two. The argument: as long as the
dispatcher is open, the last entry of the queue, or the last one shown, is the
present revision; after a terminal revision nothing is published
(`SilentAfterTerminal` of the engine), so only the end marker can push entries
out, and with two places it cannot push out the entry before it. A queue of one,
which the constructor accepts, loses the terminal snapshot.

**`DiscoveryQueue_proofs`.** The invariant `QueueInv` is the conjunction of types,
`QueueBounded`, `MatchSound` and `AttemptsOwned`: that an eviction makes room
(`RoomIsMade`) needs the bound before it, that a match fits its candidate needs
`EnqueueAgain` to reset the verdict together with the candidate. `judged` takes no
part in it: a row read back late can only be gone, which ends the pass.
`ProtectedRowsStay` follows for single steps.

**`DocumentStore_proofs`.** `TypeCorrect` holds for any assignment of work. The
other two theorems assume `SeparateTenders` — without it they are false, see
`documents_shared`. `Base` says who holds the lock and what a worker knows in which
step; `Sound` says that a blob has the body of its checksum, that a target chosen
and not yet written belongs to nobody, that the inode a copy writes is its own.
`TargetsDiffer` is where `SeparateTenders` enters.

**`ProviderAdmission_proofs`**, manual sources. `ManualInv` looks at every
configuration anybody holds — the settings file, the evidence, the check worker,
a run half-way through its reads — and says (`Coherent`) that the time of the
protocol and the revision together never name two of them, and that the next
revision is unused. The second half is what an edit needs, and it holds
however short the history is cut, because retiring an adapter keeps the newest
revision (`RetiredKeepsTop`). Equal bindings then mean equal configurations,
from which `VerifiedSinceEdit` and `RunsUseWhatWasTested` follow, although the
code compares bindings and never configurations. `InvalidatedForGood` rests on
`Numbered`: what the worker is about to save is newer than what was invalidated.

Health. A monitor is compared with the rows through `AsRows`, which says what a
circuit that was hydrated from them must look like now. `Due` is that
comparison for every provider not yet decided about, however long ago the rows
were read: timers run down as rows age (`TickRows`). `Counted` says that the
monitor counts on from the rows, with at most the one call a run makes.
`AdmissionFollowsRows` follows from `Due`. For `RestoreKeepsCount` the rows of a
run are put in front of the others (`RecordRows`), which moves the place of every
older row by the same amount and may push some out of the window; the failures
after the last success keep their number or lose some (`RestoredCount`).

**`Startup_proofs`.** `DbInv` ties the version to the shape of the database, for the
database and every backup, and says of each stage of an upgrade where the
user's records are: in the old tables, in the new ones, or in the backup made
before (but for the orphans). A database and its backups agree on whether a
table of another structure is among the tables, and where the user can ask for a
backup or a restore there is none, because every way to that place leads through
`_verify`. `VersionIsTruthful` and `RecordsKept` follow; `CrashLoopsSeen` rests on
`GuardInv` (every launch that died is on record as running, interrupted or
crashed, and every record but the newest is settled).

Types are theorems too and no longer checked by the runs. Only model-checked is what needs fairness, which is out of the prover's
reach: `RunEnds`, `SearchReturns`, `AdmissionRecovers`, `AlwaysCalledAgain`,
`DueIsServed`, `CollectorFreed`, `RequestEnds`, `StartCompletes`; and, because
they are false, the properties of the runs that end in a counterexample. No
theorem is an induction over data — the number of rows after a success is the
cardinality of a set of places, not a recursion — and no module uses a
`RECURSIVE` operator.

## 7. Where the code and its documents disagree

Each of these is a run that ends in a counterexample; the quotations are in
`PROJECT.json`, `"findings"`.

1. `run_replay` — a crash after a page commit and before `save_batch` loses the
   items: the next run resumes behind them (contract C-CP-002). The checkpoint
   moves in another transaction than the items.
2. `documents_shared` — two workers on one tender may choose the same file name;
   the second finds the first one's link there and copies its body through it
   into the first one's blob. The documents worker and the full analysis share
   one store, so this takes two clicks on one tender.
3. `startup_restore` — restoring the oldest backup kept: the rotation that follows
   the safety copy deletes the backup before it is read.

Further counterexamples, kept as configurations:

- `CollectorRun_stop` — a stopped collection says the received data was saved; the
  pages accepted from a provider that was still running are dropped, while their
  checkpoint stays.
- `CollectorRun_merge` — two listings of one purchase that contradict each other
  (one with nothing but a publication date, one with nothing but an earlier
  deadline) make `UnifiedTender.__post_init__` raise when they are merged
  (`deduplicator.py:134`, `models.py:242`). The outcome of the provider is on record by then, so the
  run completes as COMPLETED without the items that arrived last, while their
  checkpoint has moved; every later merge of the run fails in the same way. The
  contract (`RM-138_PARALLEL_SEARCH_CONTRACT.md:127`) says that invalid items do not
  corrupt accepted valid ones.
- `CollectorEngine_late` — a page may be committed after the terminal snapshot of a
  timed out search (RM-138), because the token is cancelled after the publication.
- `ProviderHealth_starved` — a provider that only waited for a permit is recorded as
  timed out, and after enough such runs refused "after repeated errors".
- `ScheduledCollection_finished` — a tender whose deadline passed after its last
  evaluation stays due and starts freshness collections.
- `RequestLimiter_timeout` — a provider timeout gives the permit of a request back
  while its exchange goes on; concurrency per domain is then not limited to
  `max_concurrent`. For the same reason `RequestEnds` excepts permits granted to
  abandoned acquisitions.
- `ManualProvider_secret` — a credential replaced while a test is on its way, or just
  before the process dies, leaves a source verified with the old one: the marker
  in the binding covers the presence of a secret, not its value
  (`RM-136_CONNECTION_HEALTH_AUDIT.md`, section 12, wants a changed credential to
  reject the write, and section 9 a compare-and-replace by check ID that the
  caller never asks for).

Behaviour worth knowing, met while modelling, that no document promises
otherwise:

- *Runs and schedule.* A checkpoint is overwritten without looking at its previous
  value, so an overlapping run may lower it (pages are fetched twice, never
  skipped). A completed run can be rewritten as FAILED when building its result
  fails. The startup request is consumed when the collector is busy and never
  retried. A tender stored as due at once (no trusted deadline, a conflict, an
  unknown time zone) makes every poll start a run as soon as the previous one
  ended. A failed write of the outcome, or an exception of the start callback,
  leaves `_scheduled_active` set, so the next manual run gets the scheduled time
  budget. When `shutdown` returns False the window stays open, but
  `_accepting_runs` is never set back: no further run starts, and if the run was
  still in the queue of the pool it was taken out, no signal follows, and the
  lifecycle shows CANCELLING until the application is closed for good. A run that
  fails after its search records no provider rows, so the circuit breaker forgets
  the failures of its calls. A schedule file whose run was cut by
  a shutdown keeps the status "running"; an unreadable one is replaced by
  defaults, and the schedule is off. A 429 on the last attempt blocks nobody.
- *Discovery.* `mark_failed` keeps the official key of an earlier match; a "not
  found" that comes late may overwrite a match; `verify_pending` has no caller
  outside the tests; rows discovered at the same instant are ordered by their
  random ids. When a record is evicted before its verdict, or between the verdict
  and the `get` that follows it, `mark_failed` raises inside the `except` clause and
  the rest of the pass is not verified.
- *Documents.* A body equal to one already stored makes the copy fail with
  `SameFileError` when the target is that very file, and the failure overwrites the
  row of a success; after a refused refresh a document is not offered for reuse
  although its file is there.
- *Database and start.* Writes of another process between the two transactions of
  a rebuild would be lost. A backup without metadata counts for the rotation and
  cannot be restored. Starts that fail again and again rotate the user's own
  backups out. A clean exit overwrites the outcome "crashed" of an uncaught
  exception. The safe-mode dialog comes after the database, so an upgrade that
  fails at every start never shows it, and N crashes need N + 1 starts. The version is stamped before `_verify`: a database with a table of
  another structure fails at every start (and is put back from its backup when an
  upgrade was on its way) but may say it is of the present version; it is never
  used. The rebuild of a legacy database leaves documents and analyses without a
  tender behind; the backup made before has them. A second
  instance of the application marks the first one's launch as interrupted.
- *Manual sources.* The switch survives every edit and works again after the next
  passed test; while no adapter is saved it cannot even be turned off. A failed
  test leaves the evidence of the previous one valid. Verified manual sources are
  admitted by the snapshot, but the factory of the run does not build them. A
  schedule that names one fails once its evidence is older than 15 minutes.

## 8. What is not modelled

- **Data.** Titles, prices, dates, HTML, JSON: a page is its number, an item its
  page, a tender its freshness row, a document its checksum, an adapter its
  fingerprint. Ranking, scoring, verification, currency and deduplication are
  functions of one batch and have no state between runs.
- **`store.py` outside the run**: registry rows, history, user decisions, statistics.
  Only the tables named in section 3 are modelled.
- **Save failures of the schedule file** other than the one in `mark_finished`, where
  the caller's flag depends on it.
- **Other search entry points of the UI** beyond what decides the budget of a run;
  dialogs and notifications.
- **Progress outside the dispatcher**: the phases of `CollectorService` after the
  search call the subscriber directly; a subscriber that swallows `CancelledError`.
- **`BaseException` in the worker threads**: only `Exception` is caught there; the
  models treat the rest as a crash.
- **Several domains in `RequestLimiter`**: domain states share nothing but the lock
  of the dictionary, which is not held across an await that matters.
- **Second instances of the application** in `DiscoveryQueue`, `Startup` and
  `ManualProvider` (there is no single-instance lock): `CollectorRun` is the one
  module about several processes.
- **Database**: `optimize`, `export_copy`, the retries of single file operations.
- **Settings of the sources**: older schema versions and damaged files (decoding
  without concurrency), the commercial catalogue, an unavailable protected store,
  user name and password as two secrets, the network probe itself (its outcome is
  a choice).
- **Workflow backup, AI, reporting, finance, the office tools, the user
  interface**: see `"components"` in `PROJECT.json`, each with its reason. The bulk of
  the repository is of this kind — widgets, documents, calculations of one
  thread — which is why the models cover a small share of its lines.
