# zipf in TLA+

zipf buys keyword data from paid and free APIs, keeps every answer in one SQLite file, and reads
from that file ever after. What must not go wrong is money and durability: an answer is bought
once and kept, nothing is bought without consent or twice, the month's spend stays under a ceiling, and a
queued job is run to an end exactly as often as it should be. Around that core stand the schema, the Search
Console import with its token, and the terminal application, which have hazards of their own. This directory models the part of zipf that decides these things, checks
it with TLC on small instances, and proves its main safety properties with TLAPS for every value of
the constants.

Source paths below are relative to `src/src/zipf/`.

## 1. Inventory

| component | state it keeps | operations | hard behaviour | what makes it correct |
|---|---|---|---|---|
| **fetch** (`fetch.py`) | rows of `raw_response`; `_paid_lock`, `_free_semaphore` of its process | `fetch`: look up, price, ceiling, dry run, credentials, guard, send, validate, persist, project | awaits between check and use; two processes on one file; lost answers; busy database; unforeseen exceptions; cancellation; crash | guards never leak; no error served from cache; a repeat purchase only by overlap; a paid answer is kept; every call ends |
| **monthly ceiling** (`budget.py`) | none: a sum over `raw_response` | `spent_this_month`, `assert_within`, `needs_confirmation` | check-then-spend with no reservation; actual charge above the estimate; a month that turns in mid-call | the overshoot is bounded, and zero for a lone spender |
| **job queue** (`jobs/queue.py`) | the `job` table | `enqueue`, `claim`, `complete`, `fail`, `recover_orphans`, `cancel`, `pending_count` | two runners, cancel against claim, recovery of a live job, writes not guarded by status | no job in two hands; a settled job stays settled; attempts bounded |
| **job runner** (`jobs/runner.py`) | its claimed job, its pass | `run_once`, `run_forever`, `drain`, `_execute` | exception lists, crash between fetch and complete, retry with backoff, a drain that must end | every job settles; drain ends; done means answered |
| **rate limiter** (`ratelimit.py`) | a deque of send times per capability | `acquire` | tasks that wake together; window boundary; bounded wait | the window is never exceeded; only an overtaken acquire waits twice or times out |
| connection (`db/connection.py`) | SQLite handle | `transaction`, `open_rw`, `open_ro` | `BEGIN IMMEDIATE` fails after 5 s; the last commits may be lost with the power; a schema that is not the program's | each queue operation is atomic; a reader is on its own schema |
| migrations (`db/migrate.py`) | `schema_migration` | `migrate`, `pending_names` | two processes and two releases at once; crash between two scripts; a script that can run twice | the schema is what the ledger says; ready means migrated |
| capability registry, prices (`capabilities.py`, `pricing.py`) | table of TTL, price, hooks | lookup | - | data: constants of the models |
| DataForSEO envelope (`sources/dataforseo/client.py`) | - | `validate`, `actual_cost` | error inside a 200 | refused before it is stored |
| projections, rebuild (`projections/`) | `keyword`, `keyword_month`, `domain_keyword`, `gsc_query` | `project`, `rebuild` | replay order against order of arrival; long write lock | rebuild reproduces what projection built |
| prune (`prune.py`) | deletes free, stale rows | `preview`, `prune` | preview outside the transaction | nothing paid, fresh or newest goes |
| planners (`services/volume, ideas, ranks, gap, freshness`) | none: read tables, enqueue | `plan`, `enqueue` | a plan is stale when it is enqueued; a plan queued in part | nothing that was owned is bought |
| confirmation (`confirmation.py`, `cli/paid.py`, `tui/confirm.py`) | a plan and its price on display | `resolve`, `buy`, `confirm` | bill stale when approved; many calls under one price | no job without consent, of the whole |
| Search Console import (`services/gsc.py`) | pages in `raw_response` | `import_queries` | partial failure, resume, midnight | an import is whole, but for a body taken for an empty page; a stored page is not read again |
| Google OAuth (`sources/google_oauth.py`) | token file | authorise, refresh | concurrent refresh, write in place | the refresh token is lost only by two overlapping writers or a death in the middle of a write |
| TUI (`tui/`) | view, filter, sort, marks, cursor, command worker | hosts the runner, runs commands | late messages, jobs and commands between two keys; exclusive workers | what a key acts on is what is shown; commands and runner leave each other alone |
| watchlist (`watchlist.py`) | a set of keywords | `toggle` | none beyond its transaction | only keywords are on it |
| browse, cluster, views (`services/browse, cluster`, `tui/views.py`) | - | queries | - | pure |
| suggest, budget readout, formatting, configuration | - | - | - | loops of independent fetches, or pure |

How they interact: commands (CLI or TUI) call a planner, confirm, and enqueue jobs. A
`JobRunner`, hosted by the TUI in the background or by `zipf jobs run` in the foreground, claims jobs and
calls `fetch` for each; free services call `fetch` directly. `fetch` paces itself with the limiter,
talks to the vendor, appends to `raw_response` and projects the row. The ceiling is a sum over
`raw_response`. The TUI and any number of CLI processes share nothing but the file: asyncio
locks, semaphore and limiter are per process.

The hazards this code is exposed to, each at its line and with the properties that cover it, are
listed in `PROJECT.json`.

## 2. Modules

| module | models | built on |
|---|---|---|
| `SpendLedger` | the promise of the ceiling: approve an estimate against what is spent, later record a charge or drop it; the month turns | abstract |
| `MeteredFetch` | `fetch.py` with `budget.py`, `transaction`, the locks, the vendor | refines `SpendLedger` |
| `JobQueue` | `jobs/queue.py` and `jobs/runner.py`, with fetch left open | - |
| `MeteredJobs` | the runner over fetch | `INSTANCE`s `JobQueue` and `MeteredFetch` |
| `Purchases` | from a typed command to a stored answer: planners, confirmation, queueing, runners of two processes | EXTENDS `SpendLedger` and refines it |
| `RateLimiter` | `ratelimit.py`, one capability in one process | - |
| `Projections` | `projections/`, `prune.py`, the tail of `fetch.py` that stores and projects, `zipf db rebuild` and `prune` | - |
| `Migrations` | `db/migrate.py`, the opening of handles | - |
| `SearchConsole` | `sources/google_oauth.py`, `services/gsc.py` | - |
| `Explorer` | the terminal application's screen: `tui/app.py`, `tui/views.py`, `services/browse.py`, `services/cluster.py`, `watchlist.py` | - |
| `Lists` | the two ways the code makes a list: ORDER BY over rows, and a comprehension over a list | used by `Projections`, `Purchases`, `Explorer` |
| `MC*` | values of the constants for TLC; `MCPeriphery` puts `RateLimiter`, `Explorer`, `Migrations` and `SearchConsole` side by side, one moving at a time | |
| `*_proofs` | theorems (`Periphery_proofs`: of `Migrations`, `SearchConsole`, `RateLimiter` and `Explorer`; `Lists_proofs`: facts about lists and folds that the others cite) | EXTEND the modules they are about |

**MeteredFetch.** `raw` is `raw_response` in rowid order; a row keeps its question, cost and time of
storing, whether its body is a vendor error, and two history fields (`seen`, `force`) that say what
its purchase knew. A *question* stands for a capability with normalised parameters: hashing and
normalisation decide which requests are the same question and nothing else here. `call[c]` is the
frame of a caller's `fetch`. Its `pc` stops only where other code can run: between the cache look-up
and the ceiling check (`check`), because another *process* can store a row there; in the queue for a guard
(`waiting`); at the vendor (`awaiting`); between the row's commit and the projection's (`stored`). Tasks of one
process do not run inside a stretch without an await; `Runs` says so. A free question takes a
slot of `freeSlots`, a paid one `paidLock`. `LIMIT 1` over equal timestamps is a choice among them.
`billed` is the vendor's own count. Faults: no answer (`LoseAnswer`), a busy
database (`PersistBusy`), an exception nobody names (`Escape`: `RateLimitTimeoutError`, a validator or projector that
meets an unforeseen shape), cancellation at an await (`Cancel`), death of the process (`Crash`).

**SpendLedger.** A call of `MeteredFetch` is an approval in flight from the ceiling check to its
row; the mapping is at the end of `MeteredFetch`. `NewMonth` is the month turning, which forgets what was
spent but not what is in flight.

**JobQueue.** Every queue operation is one transaction, so one action. `wait` counts down a job's
backoff (`next_attempt_at`). `runner[h]` is the loop of a `JobRunner` with the *snapshot* of its job:
`fail` decides on the snapshot's attempts, and `complete` and `fail` write by id whatever the row has
become. `Start` is `recover_orphans` at the top of `drain` and `run_forever`. `Strand` is an attempt
that left its job `running`. `Hosting` is what the operator sees to, not a mechanism of the code: with
`exclusive` nobody starts a runner while another is up; with `quiet` any number are up and claim side by side, and
nobody starts one while another has a job in hand; with `free` nothing is promised. What the queue gives by itself, that two runners never
claim the same job, is checked and proved under `quiet`; what `recover_orphans` takes away from it is found under `free`.

**MeteredJobs.** `Settle` translates fetch's outcome as `_execute` does: TERMINAL, RETRYABLE, other
`ZipfError`s (none in the model), and what no list names. A crash takes the runner and its call with it and
leaves both tables.

**Lists.** `InOrder` and `Kept` say what `SortSeq` and `SelectSeq` say, by a CHOOSE and by what is wanted of a list. The prover has no
definition of the library's two, so nothing could be proved of a list made with them.

**RateLimiter.** `sent` is every send time ever; the deque is what follows `dropped`. A pass of the
loop has no await before its sleep and is one action. Sleepers may wake late.

**Projections.** A figure is abstracted to its provenance: each column holds the id of the response whose
figure stands in it, so merges, overwrites and replays leave different states. `Written` is the family of `ON CONFLICT`
rules on `keyword`; the other tables are plain upserts and share `Apply`. `Store` and `Project` are two
transactions, as in `_persist` and `_project_without_losing_bytes`, with other processes between them; `GiveUp` is a
projector that raises, a busy database or a death there. `Rebuild` is one transaction over a closure of projectors.
`PrunePreview` reads outside a transaction and `PruneDelete` selects again inside one, from the
capabilities of the preview. The counts of a preview are separate statements; since a candidate stays one until it is gone
(`PlanStands`, proved), reading them at one moment loses nothing. `applied` and `lastId` are history. The clock is taken to
go forward, as `ORDER BY fetched_at, id` takes it. What a response may hold is cut to what the projectors
tell apart: which figures a record reports, which months, which domains rank. A delete cannot meet a foreign key: nothing
refers to a response no projector reads.

**Purchases.** A *request* is what a job asks: capability, set of keywords (or seeds), domains and depth. `decisions` keeps
every plan that came before the gate with its answer and what the archive held then (`seen`); a job names its decision and its
place in the plan. `owner[k]` is `keyword.raw_id`, so `Measured` is the join of `stale_keywords` and `fresh_keywords`. A command
is planned in one step (nothing in `plan` awaits), may wait in `asking`, and queues one job per step of `EnqueueNext`.
`FirstAnswers` is the gate: below the threshold it is silent, above it `--yes` is offered on the command line and a key in the application. A
runner claims the oldest job, looks in the cache, asks the ceiling and sends; the ledger is `SpendLedger`'s own actions. A command of the
application first stops its runner (`Stop`), because both are workers of Textual's default group and commands are exclusive.

**Migrations.** A migration is its number and its effect is that number at the end of `db.effects`. `ReadLedger` is `_applied`, taken
without a lock; `RunStatements` takes the write lock that the deferred `BEGIN` did not, and fails where a script creates what is there;
`Record` inserts the name and commits. `Idempotent` are scripts that do not fail when they run again (004 and 007 drop and create
triggers). `commits` is every state that was committed, and `PowerFailure` falls back to any of them: `synchronous = NORMAL` with a WAL does
not sync at each commit, so any number of the last ones may be lost, and none from the middle.

**SearchConsole.** The token file is `none`, `empty`, `torn` or `whole`, because `write_text` truncates first and two writers do not
exclude each other. `call[p]` is a command; `read` are the rows its pages came from. `Extent[day]` is how many full pages the window of
that day has. A body is a page (`full`, `short`), what the parser raises on (`bad`), or what it takes for a page with no rows, such as an error
object in a 200 (`hollow`: `payload.get("rows", [])`, `sources/gsc.py:112`). The capability has no `validate` hook, so each is stored before it is parsed and
served from the cache for its TTL: `Take` ends the command on a bad one, and the import, as if it were complete, on a hollow one. `harm` is history: what befell the token file since a writer
last opened it alone.

**Explorer.** The screen is a sequence of keys; what it shows of a key is left out. `Reload` is `_reload_table`, and finds the row of the cursor by
its key. `posted` is one message of the table (a row entered, a header clicked) between its posting and its handler.
`worker` is the command that runs; a new one replaces it, as an exclusive worker does. A `:vol` works on the marks or on something else (`other`: typed
keywords, or `--stale`). Clusters of a gap are found by `QueryOf`, the
abstract `cluster_key`, and shown by their representative. `ranking` is the keyword table by volume, and jobs of the runner change it at any time.
Filtering by LIKE is a set of matched keys per term. The keys of a table are typed by its view (`KeysOf` in `Periphery_proofs`). Views that no key, row or command leads to are left out.

Definitions introduced by `\* Mutant:` are not part of the model: each is a plausible bug in the
definition that follows it, and shows that a property of a run can fail.

## 3. Runs

| run | bounds | shows |
|---|---|---|
| `fetch_processes` | 2 tasks in one process, 1 in another; a paid and a free question; 3 ticks; 2 rows; 1 fault | locks (`PaidSerial`, `GuardsBalanced`), cache (`NoVendorErrorStored`, `RepurchaseOnlyByOverlap`), money (`PaidAnswersKept`) |
| `fetch_tasks` | 2 tasks of one process; 3 questions, one without credentials; 1 fault | `EveryCallReturns`, and `ImplementsLedger`: fetch refines the ledger |
| `ceiling_two_processes` | 2 processes, no fault | `CeilingHolds` **fails** |
| `jobs_quiet` | 2 processes whose runners are up together and start when neither has a job in hand; 2 jobs, 2 attempts, 1 per pass, 2 mishaps | the six properties of the queue, deadlock included |
| `jobs_two_runners` | 3 attempts, 2 per pass, and a runner may be started at any time | `NoDuplicateWork` **fails** |
| `metered_jobs` | 2 processes taking turns, 2 jobs, 2 questions, 1 mishap and 1 fault | `DoneIsAnswered`, `OnePurchasePerQuestion`, `CeilingHolds`, `JobsSettle` |
| `projections` | 2 processes, 9 answers of every kind of projector over 2 keywords, 3 stored rows, 2 instants | derivation (`TablesFollowArchive`, `Provenance`, `IntentPaired`, `NothingLost`), prune (`IdsNeverReused`, `CacheNeverFallsBack`, `PlannedGone`) |
| `purchases` | the application and a command line; 2 keywords, one per call, so that a plan has two batches; ideas of one seed, ranks and gap of one pair, two limits; a vendor that knows of one keyword; 2 decisions, 3 instants, 1 mishap; ceiling 4, threshold 3, overrun 1 | `Overshoot`, `ConsentGiven`, `NothingOwnedIsRebought` |
| `command_stops_runner` | the same with 1 decision and a still clock, a vendor that knows of one keyword or both, with fairness | `QueueDrains` **fails** |
| `periphery` | 3 tasks for 1 slot per window of 2 ticks, 5 sends; a screen of 2 keywords, a domain, a gap, a response of two tables, no view twice on the way back (`Room`), `FewChoices`; 2 processes, releases of 2 and 3 migrations, 1 loss; 2 `gsc` commands, 2 pages, 2 days of 2 ticks, 2 stored pages, 2 consents (`FewConsents`), 1 trouble | `WindowRespected`, `OutrunToSleepAgain`; `SortBelongs`, `OnlyKeywordsChosen`, `CursorFollowsKey`, `MarksOutliveFailure`; `SchemaIsLedger`, `ReadyIsReady`; `RefreshTokenLostOnlyByWriters`, `HolesOnlyFromHollowPages`, `ResumedNotReread` |
| `marks_cleared` | the same | `MarksConsumedByUse` **fails** |
| `crash_purchase` | as `metered_jobs` | `CrashBuysNothingTwice` **fails** |

Why the bounds are enough. Two tasks are what it takes to queue for a lock, and a third caller, of another process, stores
under a look-up that was made (with 2 rows it is one of these at a time that plays out to the end). Two rows of one question are what a repeat
purchase needs; one fault in any place is what a leak or a loss needs, and `PaidAnswersKept` counts
faults so that one fault losing two answers would show. A month of 2 ticks and TTLs of 1 and 2 ticks
put each boundary (fresh at `TTL - 1`, stale at `TTL`, the first tick of a month) inside 3 ticks. The
estimates (2 of a ceiling of 3) let one purchase through and stop a second; the reported charge of 3
exceeds its estimate. Two jobs let one be retried, cancelled or stranded while the other runner has claimed the other, and let two claims meet at one job;
with 1 job per pass a pass ends with a job still ready; 2 attempts allow a retry and an abandonment.
In `metered_jobs` 3 rows are never used up. In the limiter, three tasks over one slot are the
least number in which a task can be overtaken twice and time out. In `projections`, three rows are a
measurement, an attribute and a rediscovery of one keyword, or two answers to a free question and a third that could
be given the id of a deleted one; two instants put an answer on either side of its TTL, and let two answers share one.
In `purchases`, two decisions are two plans that overlap, or one and the
`:vol --stale` after it; volume and ideas live a tick and ranks and gap less, as 30 days and 7 do, so each is fresh at its boundary and
stale after it; two batches of 2 are above the threshold of 3 and any single call is not; two runners with charges of up to 4 under a ceiling of 4 pass it by what
`Overshoot` allows. The vendor knows of one keyword and not of the other, which stays unanswered however often it is paid for; a pull of depth 2 costs 3 and charges 4, so
a deep pull is stored and covers a shallow one. In `periphery`, the day 0 has one full page and day 1 more than MAX_PAGES, so that a short last page, a truncated import, and
an import across midnight occur; two consents make two refresh tokens for the file to mix up; a token lives two ticks, so imports refresh it.
On the screen, the way back is bounded by `Room`: a view is left for another only while it is not already on the way back, which allows
the longest useful one, from a keyword to its response, the domains it wrote and one of them; a job inserts a
keyword above the one the cursor is on. `FewChoices` has a keyword watched only beside no mark and on a short way back, since the watchlist is read by nothing but its own view
and `toggle`, and `toggle` with marks is covered from the marks' side. `FewConsents` has the second consent before the first page is stored; the token and the pages
meet only in whether a page can be asked for. The four parts share nothing but the schema, and the instance moves one while the others are at their
start (the imports start on a migrated schema): nothing is lost by not interleaving them.
Symmetry is used in `projections` and `periphery`, where processes are interchangeable and only safety is checked; in the other runs
there is liveness, or processes play different parts. The type invariants of `JobQueue`, `RateLimiter`, `Migrations` and
`SearchConsole` are proved and no longer checked by a run.

`CHECK_DEADLOCK FALSE` appears where a model stops at its bounds (rows, sends, clock), or where the
system may really stop. `jobs_quiet` checks deadlock.

### Fairness

- `MeteredFetch`: strong fairness of a call's own steps, because asyncio's ready queue and the waiters
  of `Lock` and `Semaphore` are first come, first served, so a call waiting for a guard that is
  released again and again gets it; weak fairness of the vendor's answer, because `TIMEOUT` bounds every
  phase of a request. Nothing is assumed of `Begin`, faults or the clock.
- `JobQueue`: weak fairness of the runner's loop, which has no wait but its poll; of settling a claimed
  job, which `EveryCallReturns` justifies and `metered_jobs` checks without assuming it; of the backoff's clock.
- `RateLimiter`: none; its run checks safety. Within bounded sends every wait ends, so a liveness property
  would hold whatever the code did; that an acquire is told when it is overtaken is in `OutrunToSleepAgain`.
- `Projections`: none. A projection that failed is never retried by the code; only an operator's rebuild repairs it.
- `Purchases`: weak fairness of queueing an approved plan and of a runner that is up, for `QueueDrains` only. Nobody has to answer a question
  or open the application. `Migrations`, `SearchConsole`, `Explorer`: none, safety only.
- No fairness of `Start`: nobody has to start a runner again, so `JobsSettle` excuses a time with no
  runner up, and jobs stranded until the next start. `DrainEnds` excuses a drain that finds a stranded
  job, which is the hazard at `jobs/runner.py:161`: it polls until it is interrupted.

### Findings

1. `jobs_two_runners`: hosting two runners does duplicate work. The second one's `recover_orphans`
   requeues the job the first is executing (`jobs/queue.py:157` against the docstring at line 7).
2. `ceiling_two_processes`: `_paid_lock` does not make check-then-spend safe. The check is made before the lock is
   taken, and the lock is one per process (`fetch.py:268`, against the comment at line 44). How far the
   spend can pass the ceiling is `Overshoot`.
3. `crash_purchase`: a crash between the vendor's answer and `_persist` causes a double purchase
   (`tests/test_jobs.py:4` says it must not). The guard that would prevent it, `vendor_task_id`, is set by no code.
4. `command_stops_runner`: a typed command stops the application's job runner for good. Both are workers of Textual's default group and
   the command is exclusive (`tui/app.py:704` and 242), so what is queued from the application is not bought while it is open, although
   `tui/commands.py:573` says that the app drains continuously.
5. `marks_cleared`: a `:vol` of typed keywords or `--stale` that queues jobs clears the marks of other keywords, which it did not work on
   (`tui/commands.py:383`). The comment at line 62 says that marks are cleared "only when a command actually queued work from them".
   What does hold, that a command which failed, was declined or queued nothing leaves the marks, is `MarksOutliveFailure`.

Read while modelling, and not findings of a run:

- `--force` is planned and not honoured: the help says "Re-buy even keywords that are still fresh." (`cli/main.py:523`), but the job is executed by
  `fetch` without `force` (`jobs/runner.py:79`), so a question asked exactly so before is answered from the cache.
- A response of `ideas` takes over `keyword.raw_id` of every keyword it names, and it is not a measuring capability: a volume that is still fresh looks
  unmeasured and is bought again. `NothingOwnedIsRebought` excepts exactly these keywords (`AlreadyAnswered`), so no property forbids this.
- "a re-run inside the 1-day TTL costs nothing" (`services/gsc.py:4`) holds until midnight, when the window moves. It is free of charge; it is not free of calls.
- An import may finish with a hole: an error object in a 200 has no `rows` and parses to an empty page (`sources/gsc.py:112`), which `services/gsc.py:86` takes for the last, and it is
  stored and served for a day, as `fetch.py:288` says must not happen to an error. A full page with rows that do not parse is short by those as well (`sources/gsc.py:118`). The model has both as
  a hollow body, and `HolesOnlyFromHollowPages` says that nothing else leaves a hole.
- An empty or torn `google_token.json` raises `JSONDecodeError` in every command until `zipf gsc auth` is run again (`sources/google_oauth.py:84`). It takes no death: two
  commands that refresh at once write the same file in place, and one over the other's longer text leaves it torn (`RefreshTokenLostOnlyByWriters`).
- `on_data_table_row_selected` looks the row up by its number in the table of the moment (`tui/app.py:633`), not in the one that was entered; the model does so too.

Also visible in `Projections`: a response projected late, after a newer one of another process, wins
until the next rebuild. "The most recent measurement wins" (`projections/keyword.py:13`) is said of a replay, and
`TablesFollowArchive` says exactly that much. A row and its projection do not commit together either, which `db/connection.py:5` says
they must and `fetch.py:200` says they deliberately do not; the latter is the code.

## 4. Proofs

Every invariant that a passing run checks is proved for every value of the constants, and every action property. What stays with TLC is
liveness.

| theorem | for every |
|---|---|
| `SpendLedger_proofs!OvershootBounded`: `LedgerSpec => []Overshoot` | finite set of spenders, ceiling, charge, overrun |
| `LoneSpenderCeiling`, `OneAtATimeCeiling`: the ceiling is exact | ceiling and charge, with no overrun, for one spender or one in flight at a time |
| `MeteredFetch_proofs!TypeCorrect`, `GuardsNeverLeak`, `PaidCallsSerial` | finite set of callers; hosts, questions, prices, TTLs, bounds |
| `ErrorsNeverStored`, `OnlyOverlapRepurchases`, `NoPaidAnswerLost` | the same |
| `FetchImplementsLedger`: `Spec => ImplementsLedger`; `SpendBounded` | the same, and finite sets of questions and of the charges of each |
| `LoneCallerCeiling`, `AloneCeiling`, `AloneBuysOnce` | the same, under the conditions they name: one caller, or one call at a time; charges as quoted; no force |
| `JobQueue_proofs!TypeCorrect` | hosts, questions, attempts, backoffs, bounds, and however many runners are up |
| `NoDuplicates`, `SnapshotsCurrent`, `AttemptsLimited`, `SettledStaysSettled` | the same, where no runner starts while another has a job in hand (`Hosting # "free"`) |
| `OneRunnerUp` | the same, with `Hosting = "exclusive"` |
| `MeteredJobs_proofs!JobsAreAQueue`, `RunnersAreCallers`, `DoneJobsAnswered` | the constants of both, and however many runners are up |
| `BoughtOncePerQuestion`, `CeilingHeld` | the same, with `Hosting = "exclusive"`; the second with charges as quoted |
| `Projections_proofs!RowidsUnique`, `AnswersKept`, `PrunesAchievePlans` | processes, answers, TTL, bounds |
| `TypeCorrect`, `TablesAreDerived`, `ProvenanceKept`, `ConfidencesPaired`, `KeysNeverLost` | the same |
| `Purchases_proofs!PurchasesImplementLedger`: `Spec => LedgerSpec`; `PurchasesOvershootBounded`, `NothingQueuedWithoutConsent`, `OwnedNeverRebought` | processes, keywords, typed words, prices, threshold, ceiling, TTLs, bounds |
| `Periphery_proofs!MigrationsTypeCorrect`, `SchemaNeverDrifts`, `ReadyMeansMigrated` | processes, releases, scripts that can run twice, losses |
| `OnlyWritersLoseTheToken`, `ImportHolesAreHollow`, `ResumeCostsNothing` | processes, extents, pages, TTL of at least a day, token lifetimes, bounds |
| `NeverAboveLimit`, `TimeoutMeansOutrun` | tasks, limit, window, with `MaxWait = 2 * Window` as in the code |
| `SortAlwaysBelongs`, `CursorStaysOnKey`, `MarksKept`, `KeywordsChosen` | tables, keywords, domains, filters, depth |

Assumptions on constants are the named `ASSUME`s of the modules; every one is evaluated by a passing run. Those of `MeteredFetch` that need a
word: what costs something has a `validate` hook (every paid capability of `capabilities.py` does), what is free is never charged for, and what a vendor may
charge for one question is a finite set, since the ledger needs a largest charge. `Purchases` and `Explorer` have finitely many keywords and domains, as a database has. `JobQueue` stands in
`MeteredJobs` over the rows of fetch, so its row ids are a constant, `RowIds`: one of them where fetch is left open, all numbers there.

- *Ledger.* `Overshoot` is not inductive: with two approvals in flight at the bound, one more charge
  breaks it. The invariant says that while approvals are in flight one of them (the last one made)
  still fits at its worst charge, with room for a whole charge of every spender not in flight. Approving makes the new
  approval that witness, since it was checked against `spent`; recording another one's charge is paid from the room
  that its leaving makes. With one approval in flight at a time that witness is the only one, and the ceiling is exact.
- *Fetch, guards.* `TypeOK /\ GuardsBalanced` is inductive. Each action either keeps the calls inside a guard as
  they are, takes a guard, or releases one and returns; three lemmas do these cases, and the cardinality of
  the free calls inside moves by one with the semaphore. `PaidSerial` follows from the lock's single holder.
- *Fetch, archive.* `RepurchaseOnlyByOverlap` speaks of pairs of stored rows and is decided when the later one is bought. The invariant (`ArchiveInv`) says it of
  calls under way: what a call remembers to have seen is how long the archive was then, and every row of its question up to there is stale or the call forced. Rows
  are only appended, so storing turns the fact about a call into the fact about a row. `NoVendorErrorStored` needs that a call that waits to persist was accepted.
- *Fetch, money.* `PaidAnswersKept` compares the vendor's count with rows and calls that hold an answer. Each action moves one answer from one of these sets to
  another, or loses it and counts a fault, and the lemmas on cardinality say what one move does.
- *Fetch implements the ledger.* An approval in flight is a call between the check and its row. What was spent is a sum over the bills of the month, by a fold over a set;
  `Lists_proofs` and the lemmas on sums prove, by induction over the sizes of sets, that the sum does not depend on the order and grows by the new row's cost. The tick that
  turns the month maps to `NewMonth`, and everything that stores nothing to a stutter or a `Drop`. `SpendBounded` and `AloneCeiling` are then the ledger's theorems.
  `AloneBuysOnce` needs an invariant of its own, that a question whose TTL is longer than the clock has one bill within it and one for each fault (`BillsWithinTTL`).
- *Queue.* `NoDuplicateWork` holds for any number of runners: a claim takes a job that is queued, and a job in hand is `running` (`SnapshotCurrent`) until its
  runner settles it, since a cancel takes only queued ones; `recover_orphans`, which queues again whatever is running, meets no job in hand as long as no runner starts beside one that executes
  (`jobs_two_runners` shows the need). `SnapshotCurrent` is what makes the unguarded `complete` and `fail`
  harmless. `AttemptsBounded` is not inductive: a job that can be claimed again, queued or stranded, must have an
  attempt to spare (`AttemptsToSpare`); a claim spends it, and a crash, which makes a running job claimable, adds one
  to `mishaps`. That a runner executes a job of the table (`InHand`) needs no exclusivity.
- *Runner over fetch.* Each step of the composition is a step of the queue or leaves it alone, and a step of fetch or leaves it alone, so what is proved of either holds
  of both together. The joint invariant says that a call asks the question of the job in its runner's hand. A job is done only when its call returned rows from
  the archive, which loses none. With one runner up at a time there is one call at a time, and `AloneBuysOnce` and `AloneCeiling` apply: it is rule R5, spending in the runner
  alone, that makes fetch's check enough.
- *Limiter.* The invariant keeps the send times ordered, what was dropped older than a window, the deque
  within the limit, and for each sleeper a send that it waits to grow old; a task that finds that send gone and no slot free was
  overtaken, so a second sleep costs one overtaking and a timeout two.
- *Prune.* The invariant says that the last rowid given out is still stored, that ids and times agree in order, and that a
  previewed row that is still there is still a candidate. A delete keeps the first because the largest id is
  superseded by nothing. It keeps the third because the superseder of another plan's row may go, but then something newer
  stays: `NewestExists` finds the newest by well-founded descent. Times and ids agreeing is what lets a prune by `MAX(id)` protect a look-up by
  `fetched_at`.
- *Projections.* `TablesFollowArchive` is not inductive, as it speaks only of tables whose whole archive was applied. The invariant says of every table whose responses
  were applied upwards, all or not, that it is what those say (`Derived`): one more response above them all changes exactly the columns it has figures for (`DerivedGrows`). A
  rebuild is a fold, which `ReplaySteps` unfolds into a sequence of tables, each the projection of one more response. `ReplayUpward` shows that a replay by `fetched_at, id` goes upwards, because ids and
  times agree, and `ClosureCloses` that the projectors replayed share no table with those that are not, so what is cleared is what is restored. For `NothingLost`, each key was written by a response that is never pruned, since only
  unprojected ones are. `Provenance` and `IntentPaired` hold of each row by itself, whatever order responses came in.
- *Purchases.* Each action is an action of the ledger or leaves it alone, so `Spec => LedgerSpec` needs only the ledger's own type invariant, and that charges
  are within the ledger's bounds, which the guards say; `Overshoot` is then the ledger's theorem. For `ConsentGiven` the invariant adds where each shell is in its plan:
  a shell that queues is at a decision that was let through, its next batch is not queued yet and all before it are, and no other shell is at that decision. For
  `NothingOwnedIsRebought` it adds that the owner of a keyword is the last response that named it, so that a plan which finds a keyword without a fresh owner finds it unanswered; that what a decision saw is a
  part of the archive for good; and that each request of a decision asks for nothing it had seen answered.
- *Migrations.* The invariant says that what is committed is always a prefix of the migrations with the ledger to match, in `db` and in every state of
  `commits` that a loss of power may fall back to; that all a process read as applied, or passed since, is committed, and all of a reader's release is; and that an open
  transaction belongs to a process in its loop, at that migration. A process that is behind another fails at a
  script that cannot run twice or, where it can, at `Record`.
- *Search Console.* Whatever token is in the file, or on its way there, is one that was granted. An empty file has a writer in it or one that died there, and two writers are in it together, or a second writes over the first, only where
  `harm` has noted the overlap (`HarmNoted`). For `HolesOnlyFromHollowPages`, what a paging call has read is each page of its window so far,
  full; a page is stored under the question it answers, and is what Search Console says of it unless it is bad or hollow. For `ResumedNotReread`, a call on its way to the network found no fresh page, and on the day of its window
  a page stored for that window is fresh, since the TTL is at least a day.
- *Explorer.* `SortBelongs` is inductive: every change of view goes through `Show`, which drops the sort. For `OnlyKeywordsChosen` the invariant types the screen by its view:
  each view that is open, on the way back or the aim of a command has rows, those rows are the keys of its kind whatever the filter and sort (`RowsAre`), and a gap's clusters are never empty, so
  each has a representative that is a keyword. The other two are action properties of every step.

Only model-checked: liveness (`EveryCallReturns`, `JobsSettle`, `DrainEnds`), because the prover does not reason about fairness and ENABLED. And what the runs find violated is shown by
their counterexamples; the theorems with a condition (`OneAtATimeCeiling`, `NoDuplicates`, `CeilingHeld`) say what it would take.

## 5. What is not modelled, and why

- Layout, wording, colours, configuration, the plan line and the detail pane: nothing changes state, and no property is about them.
- HTTP, the browser and the callback server of OAuth: one step that succeeds or not.
- Request building and parsing of vendor bodies: pure functions of data; what they yield enters as records, bodies as pages, bad or hollow.
- `suggest.expand` and `budget.status`: loops over `fetch` that keep nothing between calls and report each failure. `fetch` itself is modelled.
- Limits of rows on screen (500, 50 of a gap) and the cap on watchlist targets: bounds far above the instance.
- Views nothing leads to (`stale`, `gaps`, `responses`, `visibility`).
- Floats are integers: costs are added and compared only.
- Two processes' limiters are independent, so the vendor may see twice the limit; the model is of one process, as the limiter is.

What remains to be proved is liveness, which stays with TLC, and `Spec => LedgerSpec` for `MeteredJobs`, whose ledger is the
one of the fetch model it contains.
