# Verification of the scraper and WooCommerce synchroniser

TLA+ specifications of the service in `src/`, the TLC configurations that check
them on small instances, and TLAPS proofs of the properties that matter most for
instances of any size.

Contents: [the system](#the-system) · [modules](#modules-and-code) ·
[runs](#what-the-runs-check) · [assumptions](#assumptions) ·
[proofs](#what-is-proved) · [disagreements](#disagreements-between-code-and-documentation) ·
[other observations](#other-observations) · [not modelled](#what-is-not-modelled) ·
[plan](#plan)

## The system

One Go process keeps a WooCommerce shop in step with a supplier's catalogue.
PostgreSQL holds a table `products` and a table `sync_jobs` used as a queue.
A scrape lists the catalogue, compares every product with its row and, where
something changed, writes the row and a job. The engine claims jobs, sends their
products to the shop in batches and records what became of each.

```
 supplier --FetchProducts--> change detector --rows, jobs--> PostgreSQL
                                                               ^   |
 shop <--batch create/update-- pool workers <--tasks-- engine--+---+
                                    |                    (30 s loop, 15 min loop)
                                    +--outcomes, woo_id--> PostgreSQL

 panel --settings--> app_settings, categories --LoadFromDB--> config globals
                                                 |  scheduled scrape only
                        scraper client (categories), normalizer (fixed cost)
 sync_from_woo.go (run by hand) --rows with price 0--> products
```

| Component | State | Operations | What is hard | What makes it correct |
|---|---|---|---|---|
| Tables (`internal/repository`, `internal/domain`) | rows of `products` and `sync_jobs` | claim with `SKIP LOCKED`, write an outcome, reschedule, recover stale rows, upsert | outcomes are written by id, without regard to the row's state | an ended job stays ended; retries are counted once |
| Engine (`internal/sync/engine.go`) | claimed jobs, batches in two pools, the results being recorded, all in memory | `processJobs`, `processBatch`, `handleJobFailure`, `recoverStaleLoop`, `Stop` | lost batches, refused items, a job held by two workers, crashes between statements | one holder per job, every job settles, recorded outcomes are true of the shop |
| Worker pool (`worker_pool.go`) | channel, `closed`, goroutines | `Start`, `Submit`, `Stop` | a send racing with the close, stopping with tasks queued | no panic, `Stop` returns and leaves nobody, no task lost or run twice |
| Change detector (`change_detector.go`) | the row each scrape has read | `ProcessScrapedProducts` | decides on a read made before a network call; overlapping scrapes; a row and its job in two statements | one create job per product, updates have a target, queued changes arrive |
| Shop client (`internal/woo`) | none | batch create, batch update, mapping | lost answers, items matched by index, omitted zero fields | what is sent is what the row says |
| Wiring (`cmd/app/main.go`) | `isScraping`, `isManualScraping`, the 5 seconds before the first scrape, process context | scheduled, manual and test scrape, start, shutdown, migrations | three kinds of scrape with separate guards, every way out of a scrape | a flag is up exactly while a scrape of its kind runs; the composition keeps the properties above |
| Settings (`internal/config`, `static/panel.go`) | tables `app_settings` and `categories`; the globals of `config.go` | `Load`, `LoadFromDB`, `ReloadSettings`, the panel's transaction | two statements without a transaction, a list cut off while it is read, a fallback when the database is away | what was saved is in use at last |
| Scraper client (`internal/scraper/client.go`) | `categories`, cookies, a mutex | `FetchProducts`, `login`, `RefreshSession`, `UpdateCategories` | `categories` is read without the mutex; failed parts are passed over; a login holds the mutex for up to 90 seconds; an expired session | nothing on the shelves is missed; one scrape, one list |
| Normalizer (`normalizer.go`) | fixed cost and rounding | `Normalize`, `GenerateFingerprint`, `SetFixedCost` | its fields are replaced while another scrape normalises | one scrape, one price formula; prices follow the settings |
| Import (`sync_from_woo.go`) | page, attempt | pages of the shop into `products` | three attempts and then a stop; runs beside the service | it can be resumed; its price of 0 does not stay |

Interactions: the scrapes and the engine share nothing but the tables; the scrapes share
the client, the normalizer and the globals of `config.go`, which a scheduled scrape
replaces and a manual one uses as it finds them; the engine
and its pools share the task channels; a worker's calls to the shop happen outside
any transaction. Everything in memory is lost in a crash, and equally in a shutdown.
`Engine.Stop` cancels the loops, then stops the update pool and then the create pool. A
task runs under the context of its pool (`worker_pool.go:30,130`), which `Stop` of the pool
cancels before it waits: from then on its workers record nothing, while those of the
create pool may go on until the update pool has stopped. The model has one action, `Crash`
(`Restart` in the composition), for the end of either kind: some workers may have taken any
number of steps before it, and others none.

## Modules and code

`PROJECT.json` maps each definition to its lines. In short:

- **SyncTables** – the two tables and the shop as functions, and each SQL statement
  as an operator on a table (`ClaimPendingJobs`, `UpdateJobStatus`, `ScheduleRetry`,
  `MarkAsDeadLetter`, `RecoverStaleJobs`, `CreateJob`, `UpsertProduct`,
  `UpdateWooID`). A row's timestamps are one flag: `due` says that the instant the
  row waits for has passed: `scheduled_at` for a PENDING row, 15 minutes after the
  claim for a RUNNING one. `Elapse` is time passing for one row. The content of a
  product is a version number: the fingerprint in the row, the price and the stock in
  the shop are the version they were taken from.
- **SyncEngine** – extends SyncTables with the engine's memory: `claimed` (between
  claim and submit), `queue` (the two channels) and `worker` (one record per pool
  goroutine, with its position in `processBatch`). One action per statement or call:
  `ClaimJobs`, `SubmitBatch`, `TakeTask`, `LoadProduct`, `CallWoo`, `RecordFailure`,
  `StoreWooId`, `MarkSuccess`, `AbortJob`, `RecoverStale`. A claim is the in-memory job: its id and
  the retry count it was claimed with, which is what `handleJobFailure` decides on.
  Any statement or call may fail (`Fault`), with the code's reaction: a claim
  committed but unanswered, a load that fails its job, an outcome that stays
  unwritten, a batch call whose answer is lost after the shop took some of it.
- **JobLifecycle** – what the queue promises to a single job, without tables, workers or
  failures. `SyncEngine!ImplementsLifecycle` states the refinement for the engine,
  `SyncPipeline!JobsLive` for the composition.
- **WorkerPool** – the pool alone, down to the two halves of `Submit` and of `Stop`, and
  a `guarded` flag: whether the callers hold the engine's `runMutex`.
- **ChangeDetector** – scrapes that list the supplier's catalogue (perhaps missing
  products), read a row, and write it: `FindProduct`, `WriteNew` (the transaction),
  `WriteChanged` and `EnqueueUpdate` (two statements).
- **SyncPipeline** – composes SyncEngine and ChangeDetector over one set of tables, in one
  process: every step is a step of one of them, and a restart is a step of both. Its
  only variable of its own, `unqueued`, is history: the products whose row changed
  since a job was last inserted for them.
- **CatalogueScan** – the three nested loops of `FetchProducts` as a record `Scan`
  (categories left, main page, lazy part, `foundOnThisMainPage`, what was kept) and the
  operators that advance it: `PartAnswered` for an answer, `PartFailed` for a request that
  failed, `NextPart` and `NextMainPage` for the loops. `OnSale` is the reference: the
  products on the shelves that have a price.
- **ScrapeControl** – extends CatalogueScan with the process around the scrapes: `Boot`,
  `Shutdown`, `Exit`; the panel (`updateSettings`) and the supplier (`SessionExpires`); the
  starter, the ticker and the button with their flags (`StartScheduled`, `StartManual`,
  `Release`); `LoadFromDB` in its two statements (`ReadFixedCost`, `ReadCategories`), what
  the scheduled scrape does with it (`UpdateCategories`, `SetFixedCost`), `RefreshSession`,
  `Login`, one action per request (`PageArrives`, `PageFails`) and one per product
  (`ProcessProduct`). Settings are versions; version 0 is what the process has without a
  database. `Seen` is the client's list as a goroutine without its mutex finds it
  while it is replaced: the old one, the new one, or one with the length of the other.
- **WooImport** – the import program: pages, attempts, the stop with a page to resume
  from, rows without SKU, the upsert of a price of 0 with its fingerprint.
- **ScrapeService** – composes ScrapeControl and WooImport over one `products` table,
  with the fairness and the two liveness properties.
- **MCSyncEngine**, **MCSyncPipeline**, **MCScrapeService** – symmetry sets, and the
  catalogue, for TLC. WorkerPool is checked as it stands.
- **SyncEngineProofs** (types), **SyncEngineSafety** (holders), **SyncEngineRecords** (what is
  recorded and what reaches the shop), **SyncEngineLifecycle** (the refinement),
  **SyncPipelineProofs** (all of these for the composition), **WorkerPoolProofs**,
  **ScrapeServiceProofs**, **ScrapeServiceScans** – theorems.

SyncPipeline and ScrapeService look at the same rows from two sides. The first keeps a
scrape's products as versions and follows them to the shop; the second keeps what a price is
made of and follows it back to the settings. The lookup and write of a product are one
step in ScrapeService (`ProcessProduct`) and up to three in ChangeDetector.

An answer of the shop is a sequence with an entry for each item sent. `CallWoo` reads it as
`doBatchRequest` does: by index, into a set of refused source ids (`FailedIDs`) and a set of
source ids with a woo_id (`SKUToWooID`); the result loop then sees nothing but these two
sets, a create being a success when it is in the second and an update when it is not
in the first.

SyncEngine on its own also has `EnqueueCreate` and `EnqueueUpdate`, which stand for the
change detector: a new product with its create job, an update job for a product the shop
has. SyncPipeline replaces them by the detector's real steps.

## What the runs check

Model values are products and goroutines; all other bounds are numbers in the `.cfg`.

| Run | Question | Bounds | Distinct states |
|---|---|---|---|
| `engine_prompt` | Is a job in one pair of hands, is what is recorded true of the shop, does an ended job stay ended? | 1 product, 3 jobs, 2 update workers and 1 create worker, batches of 2, 1 failure, 1 restart | 349,891 |
| `engine_lifecycle` | Does the engine refine the lifecycle of a job? Are the outcomes of a batch of two given to the right products? | 2 products, 3 jobs, create batches of 2, update batches of 1, 1 failure, 1 restart | 480,896 |
| `engine_settles` | Does every job end, with refused items and refused batches? | 3 products, 3 jobs, batches of 1, one worker per pool | 108,326 |
| `engine_recovers` | Does every job end, with failures and a restart? | 2 products, 2 jobs, create batches of 2, 2 failures, 1 restart | 100,382 |
| `engine_late` | (violation) Does an ended job stay ended when a batch outlasts 15 minutes? | 1 job, 1 create worker | |
| `pool` | No panic, no lost or doubled task, `Stop` returns and is final, accepted tasks run | 2 goroutines, 3 callers, 7 submissions, with and without the mutex | 23,439 |
| `pipeline_races` | Two scrapes racing with the engine: one create job per row, updates have a target, queued changes arrive, every job lives the lifecycle | 1 product, 2 contents, 2 jobs, 3 scrapes, 1 failure, 1 restart | 785,164 |
| `pipeline_reorder` | (violation) Do queued changes arrive with two update workers? | 1 product, 2 contents, 2 changes, 3 jobs, 3 scrapes, 2 update workers | |
| `pipeline_stale_create` | (violation) Does the shop follow the table? | 1 product, 2 scrapes | |
| `pipeline_zero_stock` | (violation) Does an update carry the stock? | as above, the second content sold out | |
| `pipeline_details` | (violation) Do details that are fetched once stay? | as above, without a sold-out content | |
| `scraping` | Flags, one configuration per scheduled scrape, complete scans, an import that can be resumed; do saved settings and their prices arrive? | 1 category, 2 products, 2 lazy parts, 1 save, 1 failure, 1 button, 2 attempts | 313,674 |

Why these bounds reach the interesting cases:

- Two update workers and three jobs of one product (`engine_prompt`) allow two jobs of one
  product in one batch and in two batches at a time, a job that is retried, one that dies,
  and one that is recovered while another worker is busy with its product. `MaxRetries = 2`
  makes the first failure a retry and the second a dead letter.
- A channel holds twice as many tasks as there are workers. Three batches for one worker
  (`engine_settles`) overfill it, seven submissions for two goroutines (`pool`) exceed
  channel and goroutines together.
- The failures of the shop's answer (refused items) are not counted by `MaxFaults`: they may
  happen to any item of any batch. `MaxFaults` counts failing statements, failing calls
  and lost answers.
- Two contents are enough for a stale write to be visible. In `pipeline_races` the two job
  rows are the create job and one update job, and there is one update worker, so a second
  change cannot be queued there; what happens with more changes, jobs and workers is
  the subject of the theorem ChangesArrive and of `pipeline_reorder`.
- In `scraping` the priceless product lies in the first lazy part and the priced one in the
  second, so a part of which nothing is kept must not end its page; with `LastLazyPart = 1`
  the page ends by its bound, with `LastMainPage = 1` a second, empty page ends the category.
  The one save makes two versions besides the fallback, so that a manual scrape
  may overlap a reload with either. The one failure may be a cut-off list, a fallback, a
  failed login, a failed or expired request, a failed statement or a shutdown; after a
  cut-off list, the list a scrape sees may be torn. Longer lists, repeated categories
  and more pages and failures are covered by the theorems, not by the run.
- Deadlock is checked in every run. `processJobs` polls for ever, so the engine always has a
  step; so does the ticker of the scheduled scrapes; a pool that has stopped, or has panicked, has nothing left to do and stutters
  (`Over`).

Each property has a mutant of the code in `PROJECT.json` under which its run fails; the
mutated operators stand above the ones they mutate, marked "Mutant".

## Assumptions

**The clock.** `Prompt` is a constant. With it, the instant a row waits for does not pass
while some part of the engine still holds the job: a batch is over within 15 minutes of
its claim, and a retry does not fall due before the batch that scheduled it has ended.
The code does not enforce either; the call to the shop has a timeout, and a
backoff is 30 seconds or more by default, but a batch also loads its products one by one and waits in the
channel behind other batches. `engine_late` drops the assumption and shows what
follows. All other engine and pipeline runs make it, and so do the theorems about holders,
ended jobs and lifecycles; the others do not (see [proofs](#what-is-proved)).

**Fairness.** Only `engine_settles`, `engine_recovers`, `pool` and `scraping` use any. `ClaimJobs`,
`SubmitBatch` and `RecoverStale` are weakly fair because the two tickers of the engine fire
for ever and the loops do not block (`Submit` does not). A worker is weakly fair because a
goroutine that can run is scheduled. `Tick` is weakly fair because time passes. In `pool` the
goroutines and the second halves of `Submit` and `Stop` are fair; nobody has to call
anything. In `scraping` the start of a scheduled scrape is weakly fair because the ticker
fires for ever, and the steps of a scrape because its goroutine runs on and every request,
login and statement ends: the HTTP client has a timeout, the browser a context with a
deadline. The two steps that need the client's mutex are strongly fair: a manual scrape
may take it again and again, and Go's mutex hands it over to a goroutine that has
waited longer than a millisecond. Nobody has to press the button, to restart the process or to
go on with the import; the properties hold while the process is up. Nothing is assumed of the shop, of the supplier, or of new jobs.

**The shop.** It refuses a SKU it already has and an id it does not know, may refuse anything
else, and applies the items it accepts in their order. A request whose answer is lost took
effect for any subset of its items, at once. A request that takes effect after the
process that sent it has died is not modelled.

**The supplier.** `ScanAssumption`: no empty lazy part hides a later one, no empty main page a
later page, and no category has more pages than the loops ask for (61, of 6 parts). The
loops rest on this. The catalogue does not change during a scan.

**Settings.** A saved list of categories is not empty (`ControlAssumption`): the
`categories` table is filled at the first start, and a start that finds it empty would save
the fallback list. Fixed cost and rounding are one value, since they are read and
replaced together.

**The database.** Each statement is atomic, and so is the transaction in
`ProcessScrapedProducts`. A statement that fails has no effect, except that the claim may be
committed and its answer lost. The lookup and the write of one product are one step
in ScrapeService.

## What is proved

For every value of the constants that satisfies the named assumptions
(`TablesAssumption`, `EngineAssumption`, `PipelineAssumption`, `PoolAssumption`,
`ScanAssumption`, `ControlAssumption`, `ImportAssumption`):

| Theorem | Module | Statement |
|---|---|---|
| TypeCorrect | SyncEngineProofs | `Spec => []TypeOK` |
| HolderIsUnique | SyncEngineSafety | with `Prompt`, `Spec => []OneHolder` |
| EndedIsEnded | SyncEngineSafety | with `Prompt`, `Spec => TerminalIsFinal` |
| RecordsAreReal | SyncEngineRecords | `Spec => []RecordedIsReal` |
| EngineLifecycle | SyncEngineLifecycle | with `Prompt`, `Spec /\ []Untwinned => ImplementsLifecycle` |
| EngineLifecycleSingly | SyncEngineLifecycle | with `Prompt` and `UpdateBatchSize = 1`, `Spec => ImplementsLifecycle` |
| OneCreateJob | SyncPipelineProofs | `Spec => []OneCreateJobPerRow` |
| UpdatesAim | SyncPipelineProofs | `Spec => []UpdatesHaveATarget` |
| RecordsStayReal | SyncPipelineProofs | `Spec => []Engine!RecordedIsReal` |
| TypeCorrect | SyncPipelineProofs | `Spec => []TypeOK` |
| ChangesArrive | SyncPipelineProofs | `Spec /\ []OneLoader => []QueuedChangesArrive` |
| ChangesArriveAlone | SyncPipelineProofs | with at most one update worker, `Spec => []QueuedChangesArrive` |
| HoldersApart | SyncPipelineProofs | with `Prompt`, `Spec => []Engine!OneHolder` |
| EndedStays | SyncPipelineProofs | with `Prompt`, `Spec => Engine!TerminalIsFinal` |
| ServiceLifecycle | SyncPipelineProofs | with `Prompt`, `Spec /\ []Untwinned => JobsLive` |
| ServiceLifecycleSingly | SyncPipelineProofs | with `Prompt` and `UpdateBatchSize = 1`, `Spec => JobsLive` |
| TypeCorrect | ScrapeServiceProofs | `Spec => []ServiceTypeOK` |
| Guarded | ScrapeServiceProofs | `Spec => []OneGuarded` |
| Configuration | ScrapeServiceProofs | `Spec => []OneConfiguration` |
| ScansComplete | ScrapeServiceScans | `Spec => Complete` |
| ImportCanResume | ScrapeServiceScans | `Spec => []ResumeLosesNothing` |
| TypeCorrect | WorkerPoolProofs | `Spec => []TypeOK` |
| PanicFree | WorkerPoolProofs | `Spec => []NoPanic` |
| StopLeavesNobody | WorkerPoolProofs | `Spec => []StopIsFinal` |
| TasksOnce | WorkerPoolProofs | `Spec => []EachTaskOnce` |

Two of the conditions are about states, not constants. `Untwinned` says that no batch of the
update pool holds two jobs of one product; `OneLoader` says that no two update workers
are between their loads and their calls with items of one product. The code enforces
neither, and [Duplicates](#duplicates) and [Reordering](#reordering) say what happens without
them. Each has a setting that guarantees it, which is what the theorems ending in `Singly` and
`Alone` prove: `SYNC_UPDATE_BATCH_SIZE = 1` and `SYNC_UPDATE_WORKER_COUNT = 1`.

The arguments:

- **Types of the engine.** `TypeOK` is not inductive: to load a product the claimed row
  must exist and name one. `TypeInv` adds that rows that exist name a product (`Named`),
  that every claim in memory is of an existing row (`AllPresent`; no statement deletes
  a row), and that the result loops have results (`Sound`). The lemmas on `Owner` say
  which claim answers for a product when the list grows at its end (loading) and
  shrinks at its front (recording); they rest on `Last` being the maximum of a finite
  set of positions, proved by well-foundedness of `<`.
- **One holder.** `HoldInv` follows each claim from the claim statement through the
  channel to the worker that records its outcome. What is held is not due, and it is RUNNING
  or, in the result loop, already has the outcome it will be given again. Since
  the claim statement takes only due PENDING rows, the stale loop only due RUNNING rows, and a
  prompt clock sets no flag on a held row, no held row is given to anybody else;
  so claims in the engine's hands, in the channels and with the workers stay apart
  (`Apart`). A worker writes only rows it holds, which is why the rows of the others
  stay as `HoldInv` wants them. The case that makes the invariant subtle is a batch
  with two jobs of one product: the row of the surviving job is written twice, and after the
  first time it is no longer RUNNING.
- **Ended is ended.** From `HoldInv`: an outcome is written only to a row that is RUNNING, or
  that has that very outcome. The other statements name the state they start from.
- **Records are real.** `RecordInv` follows a product from the job to the row:
  a job that exists is of a product with a row (`RowsKnown`), an item was loaded under the
  product of its claim, and once the answer is there every product outside the failures is in
  the shop (`Taken`, part of `Honest`). The middle part says that the maps keyed by
  source id lose nothing that matters: whichever claim the map keeps for a product, the
  claim's row is of that product. `Grows` says what the other actors may do meanwhile:
  a product never leaves the shop, a row never changes its product. No clock
  assumption is needed, and batches may repeat a product.
- **The lifecycle.** The abstract job counts its attempts; the engine decides on the
  retry count of a claim made long before. `AttemptInv` says that a claim in anybody's hands
  is of a RUNNING row with the retry count of the claim (`Open`), so what
  `handleJobFailure` decides from memory is right for the row. It rests on `HoldInv`: nobody
  else writes the row. What is new is that a holder writes it once and then no longer holds it
  (`HandsOnly` and `HandsAttempts`); this is where a batch with two jobs of one product
  fails, since its second turn writes a row that is no longer RUNNING. `CreatesDiffer` shows
  that batches of the create pool never hold two: the create job is inserted with the row, and
  `KindInv` keeps the pools' claims apart by type. `UpdatesDiffer` does so for
  update batches of one. `Moves` is the abstract step of one row, `Goes` the
  concrete step of all; the refinement maps a row to its state and retry count.
- **Queued changes arrive.** `ArrivalInv` speaks of a product whose row has not changed since a job
  was last inserted for it, and of its last job (`Latest`). `InOrder` makes the last
  job the one with the greatest id: rows get free ids in the order in which they are inserted.
  `Arrives` follows that job. The batch that has loaded it carries the version of the row
  (`LoadedFresh`), because the row has not changed since. Once the shop has accepted it
  (`AcceptedFresh`), and so once it is SUCCESS, the product is `Fresh`: the shop has the
  version of the row, and no update worker between load and call carries another. An older
  job of the product could spoil this in one way only: its item was loaded before the change
  and is sent after it, by a second worker. `OneLoader` excludes that. No clock is needed: a
  job that is claimed a second time is loaded from the same row.
- **The service.** SyncPipelineProofs instantiates SyncEngineLifecycle, and with it all that is
  proved of the engine, as `Proved`. The engine's steps are the same there (`SameEngine`); of
  the steps of a scrape, each engine invariant asks only for `Feeds`: rows keep their
  woo_id, and at most one job is inserted, with a free id and for a product that has a row.
- **Rows and create jobs.** `OneEach` counts the create jobs of a product, one with a row and none
  without. The engine leaves product and type of every job alone (`Neutral`). Among the
  scrapes only the transaction inserts create jobs, and `Hands` gives the rest: a scrape
  that took the plain path had found a row, and rows are not deleted, so its upsert
  makes no row without a job.
- **Updates have a target.** `RecordInv` survives every step of the engine and every step of a
  scrape, so a stored woo_id is one the shop gave. `Hands` adds that
  a scrape on the plain path had found a woo_id, which no statement takes away.
- **Flags.** `RunInv` adds to `OneGuarded` which steps belong to a kind of scrape and that nothing
  runs while the process is down. One lemma for a step inside a scrape, one for its end.
- **One configuration.** `ConfigInv`: between the reload and the end of a scheduled scrape only that
  scrape may replace anything, because of its flag, so what it found in use at `Login` stays; a
  torn list can be seen only while some scheduled scrape replaces it, which is none but itself.
- **Complete scans.** `Covers` says that a scan without a failure has everything in front
  of its place: all of the categories behind it, all earlier pages of the present one, all
  earlier parts of the page (`OnShelfTo`). The place moves by a part (`ShelfGrows`), to the
  next page, when the present one has no further part by its bound or by `ScanAssumption`, or to
  the next category likewise.
- **The import.** `Resumes`: the rows of the present page are handled or still to do, and
  of every page before it all are handled.
- **The pool.** `TypeInv` counts the callers between the two halves of `Submit`, so that
  accepted tasks stay within the submissions. `Stages` orders `closed`, `cancelled` and
  `shut`; `Alone` says a guarded caller between the halves of a call holds the mutex, so no
  other caller can close the channel meanwhile; `Drained` says a stopped pool has no
  live goroutine. `Placed` says that every accepted task is in exactly one of channel,
  goroutines and ended tasks, that the channel repeats none, and that no two
  goroutines have the same one.

Only model-checked: the liveness properties (`EveryJobSettles`, `StopReturns`,
`AcceptedRuns`, `SettingsArrive`, `PricesFollowSettings`), which depend on fairness and are out
of the prover's reach. Every other property of a passing run is stated by a theorem. The five
violation runs show what is false of the code: `TerminalIsFinal` without the clock assumption,
`QueuedChangesArrive` with two update workers, and three properties that no passing run checks.

## Disagreements between code and documentation

1. `engine_late`. `IsTerminal` is documented as "no further transitions".
   `RecoverStaleJobs` takes a job back after 15 minutes although its batch is still being
   processed, and the job is claimed and submitted a second time. The first batch ends it
   SUCCESS. The shop refuses the second create, whose SKU it has, and `ScheduleRetry`, which
   does not look at the state, sets the ended job to PENDING. In the run both batches are one
   worker's, the second waiting in the channel behind the first; with more workers the second
   may be another's.
2. `pipeline_reorder`. A product changes twice, and each change has its update job. One worker
   loads the product before the second change, another after it, and the first calls the shop
   last. Both jobs are SUCCESS, the row has the newer content and counts as unchanged,
   and the shop has the older one ([Reordering](#reordering)).
3. `pipeline_stale_create`. A scrape that reads a row before its `woo_id` is stored takes the
   product for a new one: the transaction updates the row, sees that it was not
   created, and adds no job. The create job, which loaded the row before that, leaves the
   old content in the shop. From then on the fingerprints agree and the shop keeps the old
   price until the product changes again. The property leaves out the moment in which a
   scrape has written a row and is about to insert its job, when every change has the row ahead
   of the shop.
4. `pipeline_zero_stock`. `stock_quantity` is `omitempty`, so the update of a product
   that sold out does not mention its stock, although `MapToUpdate` is documented to
   send price and stock.
5. `pipeline_details`. Details are to be fetched once (`change_detector.go:74`). When a product that
   is in the shop changes, they are not fetched again, because `detail_fetched_at` is
   set; the upsert writes the empty details of the scrape over those in the row and keeps
   `detail_fetched_at`, so nothing brings them back.

## Other observations

### Duplicates

Two update jobs of one product may be claimed into one batch. `sourceIDToJob` keeps the
last one, and the loop over the products visits the product twice. If the shop
refuses it, `handleJobFailure` runs twice for one claim and `ScheduleRetry` adds two to
`retry_count`, which can pass MaxRetries while the job is PENDING; the other job
of the pair gets no outcome and waits for the stale loop. `ImplementsLifecycle` does not
hold then; its run, and `pipeline_races`, have update batches of one, and the theorem states the
condition (`Untwinned`). `OneHolder`, `TerminalIsFinal` and `RecordedIsReal` are checked with
such batches and hold; their theorems, and ChangesArrive, allow any batch size.

### Reordering

With two workers on the update pool `QueuedChangesArrive` does not hold: one worker loads
the product, a scrape changes it and queues a second job, the other worker loads and sends
the new content, and the first worker sends the old content last. TLC finds this in 33
steps (`pipeline_reorder`). `pipeline_races`, where the property holds, has one update worker; the
service has ten by default (`SYNC_UPDATE_WORKER_COUNT`). The theorem ChangesArrive shows that this
is the only way in which a queued change is lost.

### Smaller ones

- `CanTransitionTo` (`domain/state.go:33`) has no caller, and allows neither
  RUNNING to PENDING nor RUNNING to DEAD_LETTER, which the statements do. No statement
  writes FAILED.
- `Submit` can send to a closed channel when its callers do not hold a common mutex. The
  engine's do; `NoPanic` is stated for them, and its mutant is the unguarded caller.
- A change whose row was written and whose update job was not (a failing insert, or the end of
  the process between the two) is lost until the product changes again:
  the next scrape finds equal fingerprints. `unqueued` keeps this case and the stale
  create out of `QueuedChangesArrive`, which shows there is no third way.
- When `UpdateWooID` fails, the job is SUCCESS and the product has no `woo_id`; later changes
  are taken for a new product's and get no job.
- A create whose answer is lost is retried, and the shop refuses the SKU it already has;
  the job ends in DEAD_LETTER.
- The supplier's session is renewed at the start and by the button only. Once it has
  expired every request fails, every failure is passed over, and a scheduled scrape ends
  regularly with nothing; `PricesFollowSettings` is stated for as long as the session is accepted.
- `README.md:7` promises scraping with retry; `retryMax` and `retryBackoff` of the client
  (`client.go:37`) are set and never read.
- The normalizer is made with the fixed cost of the environment, though `config.go:147` says
  "read from the database only"; a manual scrape before the first scheduled one prices by it.
- `LoadFromDB` does not ask for `rows.Err()` after its loop over the categories;
  the panel's `getSettings`, which reads the same table, does. The list is whole again with the next
  scheduled scrape (`SettingsArrive`).
- The import writes a price of 0. The next scrape of the product corrects the row and
  queues an update, but an update job that is pending meanwhile sends the 0 to the shop.
  Rows whose upsert failed are passed over, so resuming from the page the program names
  does not repeat them. Its first page is 219, while the comment below says that it starts
  from page 1 (`sync_from_woo.go:81`).
- The fallback list names the category 1585 twice (`config.go:295`); its products are fetched
  twice, with the coefficient of the first entry. A product in two categories of different
  coefficients changes its price twice in every scrape.
- `CoefficientType` and `FixedProfit` of a category are stored and read, and no price depends
  on them. The panel's `/api/reload` reloads nothing. `pkg/httpclient` and
  `internal/metrics` have no caller.
- The migrations create neither `app_settings` nor `categories`, and none of them runs
  once `products` exists.

## What is not modelled

- The arithmetic of `NextRetryDelay` (a retry is due at some later time) and of prices (a price is
  the pair of settings it is made from), `buildBatches` as list arithmetic: a batch is any
  set of the right size. A batch size of 0, for which `buildBatches` panics, is excluded by
  `EngineAssumption` and `PipelineAssumption`.
- Answers of the shop shorter than the request. The code would count an update without an
  entry as a success and a create without one as a failure.
- Dry-run mode (no job is claimed in it), starting an engine a second time (main never does),
  `FetchPendingJobs` and the other repository functions without a caller.
- The test scrape as an actor of ScrapeService: it has a client and a constant category of its
  own, no flag, and touches none of the shared settings. SyncPipeline lets any number of scrapes
  run together, which covers its effect on the tables.
- Products of one scrape that are listed twice, with two prices. In ScrapeService products are
  processed in any order; in ChangeDetector a list has each once.
- Reading past the end of a torn slice. A list that is read while it is replaced may have the
  pointer of the short one and the length of the long one; `Seen` cuts this to the shorter
  length, where Go would read other memory.
- Reading the environment, the row of defaults for an empty `app_settings`, and the first fill of an
  empty `categories`.
- The migrations: schema text run once at a start. The tables they make are SyncTables.
- The browser login beyond its outcome, the parsing of pages, the backup handler (reads
  only), metrics and logging (nobody reads them back), the HTML of the panel, the HTTP retry
  client (no caller).

## Plan

Done, in the order of importance: tables and engine, lifecycle, pool, detector, pipeline;
scans, settings, flags, import and their composition; the theorems above.

Left to model: the backoff in 64-bit arithmetic and the migration loop with a crash
between two files, each as a module of its own; short answers and batches of size 0; lists that
name a product twice.

Nothing is left to prove of the present properties but what the prover cannot do. Each module to
be added has an invariant worth a theorem: a delay within its bounds for every retry count, no
table half made after a migration that failed.
