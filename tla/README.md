# Verification of the Nettiauto crawler

TLA+ models, TLC runs and TLAPS proofs for `autokauppa-analysis`: a worker that crawls
Nettiauto search pages and detail pages through Graphile Worker job queues into Postgres,
an API that serves analytics over the result, and a web UI. `PROJECT.json` maps every
definition to the lines it models.

## 1. Inventory of the system

The program is a TypeScript monorepo. What keeps state and can go wrong in time is the worker, the
persistence layer it shares with the API, the API's caches and controls, and a few parts of the web UI.

| Component | Code | State | Operations | What makes it correct | Module |
|---|---|---|---|---|---|
| Crawl runs | `apps/worker/src/nettiauto-crawl-execution.ts`, `packages/domain/src/persistence.ts` | `crawl_runs`, `source_search_queries`, jobs of queue `nettiauto` | schedule, collect a search page, enqueue the next page, complete, recover stale runs, pause a query | one live run per query; a terminal run is not reopened; every run ends; a failing source pauses the query | `CrawlRun`, `RunLifecycle` |
| Listing availability | `persistence.ts` | `listings.current_availability`, `last_confirmed_at`, availability events, sightings | persist a listing card, reconcile after a complete run | a listing is stale and later removed only after complete runs that missed it | `ListingAvailability` |
| Listing history | `persistence.ts`, `normalized-storage.ts`, `gallery-storage.ts`, `listing-images.ts` | raw records, snapshots, details, packed payloads, galleries | persist a card, persist a detail page, merge a gallery | what was observed when, whatever the order of persistence | `ListingHistory` |
| Detail backfill | `nettiauto-detail-backfill-task.ts`, `apps/api/src/detail-backfill-control.ts` | `detail_backfill_runs`, `detail_backfill_targets`, control and detail jobs | create, seed, pump, execute a target, retry, block, probe, pause, resume, rebuild, cancel, maintain | every selected target is accounted for once; a finished run is final; at most a batch is dispatched; a run never strands; one live run | `DetailBackfill`, `BackfillLedger`, `BackfillAdmission` |
| Queue lock recovery | `nettiauto-queue-lock-recovery.ts` | locks of Graphile's queue `nettiauto` | unlock the workers whose lock is old | a dead process does not block the queue; a slow one is executed twice | in the modules of its jobs |
| Work queues | `crawl-work-queue.ts`, `nettiauto-graphile-task.ts` | job keys and attempts | enqueue search, detail and hero jobs | one job per key, retries bounded | in the modules of its jobs |
| Source pacing and fetch | `nettiauto-source.ts`, `nettiauto-fetch-policy.ts` | a promise chain, a client | serialize and space requests, time out, abort | every request ends, whatever happened before it | `SourceFetch` |
| Hero image archive | `hero-image-archiver.ts`, `nettiauto-hero-backfill-task.ts` | files, `listing_hero_images`, jobs | sweep in batches, archive | every listing is looked at; a hero stands and has its file | `HeroArchive` |
| Storage migration | `packages/domain/src/storage.ts`, `tasks/backfill_*.ts`, triggers of migration 0015 | `storage_migration_progress`, both representations of a row | process a batch, continue, verify | readers notice nothing; nothing is left behind; the chain ends | `StorageMigration` |
| Analytics cache | `apps/api/src/analytics-cache.ts` | entries, loads under way | get, refresh, prune | every request is answered, bounded size | `ResponseCache` |
| Rate limiter, admin sessions | `apps/api/src/rate-limit.ts`, `packages/domain/src/auth.ts` | windows per client, a cookie | check, prune, log in and out | passwords per time, sessions by password only | `ApiAccess` |
| Manual crawl scheduling | `apps/api/src/manual-crawl-scheduler.ts`, `nettiauto-crawler-control.ts` | control jobs, query pause flags | schedule now, pause, resume | - | `CrawlRun` |
| Parser | `packages/domain/src/nettiauto.ts` | none | parse search and detail pages, upgrade stored ones | two paths, one result | `DetailPages` |
| Product queries | `packages/domain/src/product.ts`, `research.ts`, `vehicle-categories.ts` | none | filters, pages, counts, facets, charts, series, comparisons | the answers to one question agree | `MarketQueries`, `MarketSeries` |
| Database schema | `packages/db` | tables, constraints, triggers | - | its constraints are part of the models | variables of the modules |
| Web application | `apps/web` | polling, the filter form, addresses, `localStorage` | poll, choose, follow a link, save | what is shown is what is true or was meant | `CrawlerDashboard`, `FilterForm`, `FilterLinks`, `SavedWorkspace` |
| Schemas | `packages/schemas` | none | read and write filters, stored workspaces | two forms, one filter | `FilterLinks`, `SavedWorkspace` |
| Configuration, logging, UI package | `packages/config`, `logging`, `ui` | none | parse, format | - | not modelled |
| Scripts and infrastructure | `scripts`, `infra`, `.github` | none of the running program | offline audits, deployment | - | not modelled |

How they interact: cron and the admin API put jobs into Postgres; Graphile Worker executes
them, one at a time in each named queue (`nettiauto`, `nettiauto-backfill-control`,
`nettiauto-hero-images`, ...); a job is a sequence of separate statements and transactions on the
tables above and may add further jobs; the admin API changes runs and queries in its own transactions
and adds control jobs on the same job keys. Nothing is coordinated in memory, so every hard behaviour
of the worker is an interleaving of statements: a status read before other statements run, an update
that does not repeat its condition, a job replaced under its key, an execution whose lock was taken
away, a process that dies between two statements. In the API and the browser it is an interleaving of
callbacks: handlers of promises, timers, answers that overtake one another.

## 2. Modules and plan

| Part | Modules | Run |
|---|---|---|
| the crawler's jobs | `DetailBackfill` with `BackfillLedger`, `CrawlRun` with `RunLifecycle`, `ListingAvailability` | `backfill_*`, `crawl_*`, `availability` |
| components with faults and timers | `ResponseCache`, `StorageMigration`, `ApiAccess`, `SourceFetch`, `CrawlerDashboard`, `BackfillAdmission`, put together by `MCServices` | `services` |
| records and the questions about them | `ListingHistory`, `MarketQueries`, `MarketSeries`, `HeroArchive`, `DetailPages`, `SavedWorkspace`, `FilterForm`, `FilterLinks`, put together by `MCRecords` | `records` |
| proofs about the crawler | `DetailBackfillTypes`, `DetailBackfillProofs`, `DetailBackfillAccounting`, `CrawlRunProofs`, `ListingAvailabilityProofs` | - |
| proofs about the components and their compositions | `ServicesProofs`, `ListingHistoryProofs`, `RecordsProofs` | - |

Left: the cohorts of `research.ts` as a third way to ask the questions of `MarketQueries`; the coalescing of
manual schedules. Every safety property that a passing run checks is proved as well, for every instance.

## 3. DetailBackfill

One managed run: `run` is the row of `detail_backfill_runs`, `row` the target ledger
`detail_backfill_targets`, `job` and `holder` the Graphile jobs of the targets and the lock of the
queue `nettiauto`, `worker` the executions of detail jobs, `ctl` the one job that runs in the control
queue, `pumpJob` and `cancelJob` the jobs that wait there under the two keys of the run, and `maint`
the maintenance task between its read and its `addJob`. `evidence` and `sighted` are what other tables
say about the listings; `crawler` is the configuration of the worker (`CRAWLER_ENABLED` and not `CRAWLER_PAUSED`). `probing`, `asked` and `spent` are history and steer nothing but the bounds.

Each database statement or transaction of the code is an action, named after the function it belongs
to: `PumpRead` ... `PumpRequeue` for `pumpDetailBackfill`, `Resume` for `resumeDetailBackfill`,
`TakeCancel` ... `CancelMark` for `cancelDetailBackfill`, `DetailContext` ... `DetailComplete` for
`executeManagedDetailBackfillJob`, `MaintainRead` and `MaintainQueue` for `maintainDetailBackfills`,
`Operator...` for the transactions of the admin API. Between two of them any other actor may act.
`ControlFails`, `DetailFails` and `DetailDies` are thrown errors and dying processes; `RecoverSlowLock`
is the recovery that takes the lock of a live but slow execution, after which a target is executed twice.

`SwitchCrawler` is a deployment that turns the crawler off or on. While it is off a pump or a resume is taken and consumed
without effect, a detail job ends as `crawler_off`, and a cancellation and the maintenance go on
(`nettiauto-detail-backfill-task.ts:49-73`). A switch off counts as a command; a switch on is free.

Time is a choice: cooldowns end, retries become due and dispatches grow old at any moment.

| Run | Question | Bounds |
|---|---|---|
| `backfill_faults` | Is no target of a created run lost or counted twice, does a completed run have an answer for every listing of the full backlog, is never more than a batch dispatched, and does the run implement `BackfillLedger`, under duplicate executions, lost jobs and a command? | 2 listings, batch of 1, 2 workers, 2 attempts, 1 command, 1 fault; 4.8 million states |
| `backfill_liveness` | Does a cancellation complete whether or not the crawler is on; does every run end or stay paused and a dispatched target come back unless the crawler stays off; does a run that is over stay as it is? | 1 listing, 1 command, 1 fault, 1 block |
| `backfill_probe`, `backfill_rebuild`, `backfill_pause`, `backfill_resume` | The four documented promises the code does not keep, section 8. | the smallest that show them |

Two listings with a batch of one make every capacity decision happen (a queued and a waiting target);
two attempts give a retry and a last attempt; one fault at any step, together with one command at any
step, covers every pair of a failed statement and a racing command. Longer sequences of
commands are checked only for the finality of a run, by its proof, which bounds nothing.

`FairSpec` assumes what the deployment gives: Graphile runs a job that is ready (`WF` of the control
queue, of taking a detail job and of every step of a worker), cron fires the maintenance every five
minutes, the lock recovery runs, and time passes. Faults, commands and blocks are bounded by
`MaxFaults`, `MaxCommands` and `MaxBlocks` and never forced. Nothing is assumed of the crawler's switch. While it is off
no pump settles a run, so `RunSettles` and `DispatchReturns` have the premise `CrawlerStaysOn`, that it is on for good in
the end: pumps that were consumed before strand nothing, because the maintenance adds others. `ResumeTakesEffect`, which
is violated, has the stronger premise that it was never off, so that the violation is not that of a consumed resume.

Proved, for any listings, workers, limits and bounds:

- `TypeCorrect`: every behaviour keeps `TypeOK`: no counter of the run goes below zero and no row
  is kept after its last attempt. `TypeOK` is inductive as it stands; `DetailBackfillTypes` has one
  lemma per action.
- `TerminalCorrect` and `TerminalIsFinal`: a run that is over has no target and never changes again.
  The strengthening `TerminalInv` says why: only the seeding transaction adds rows and it rechecks the
  status, only the cancellation ends a run from outside and it has emptied the ledger before.
- `TargetsAreConserved` and `FinishedRunsAccount`: outcomes and ledger of a created run add up to its targets, until it
  is cancelled, and at its end the outcomes alone. The invariant `BalanceInv` counts targets that the cancellation has
  deleted and not yet written to `cancelled_count`; `RouteInv` says why a created run is never seeded again: a resume
  rebuilds only a run with missing targets, and until it is cancelled the balance rules them out.
- `BackfillKeepsLedger`: a created run implements the abstract `BackfillLedger`, which knows pending targets, a tally
  of outcomes and a phase, and no jobs, workers, retries, blocks or faults: a target is pending until it is accounted
  for under one outcome and never comes back, a run ends by itself only when nothing is pending, a cancellation is final.
  The refinement shows the `run` row as phase and tally and the ledger as the pending targets. Each action is an
  `Account`, `Finish`, `Cancel`, `Drop`, `Withdraw` or a stutter; a seeding, which the abstract run does not have,
  is excluded by `RouteInv`, and `BalanceInv` bounds what `Withdraw` may count.
- `CompletedIsAnswered`: a created run over the full backlog that ends as completed has an answer, an enrichment
  or an unavailable page, for every listing that still has an enabled query. `AnswerInv` says that an execution counts an
  outcome only after it has stored it, and that a target that has left the ledger of a run without failures has an answer or is
  one no query shows. The same property is violated for runs of an earlier version (`backfill_rebuild`, section 8),
  whose rebuild leaves the ledger empty.
- `BatchIsBound`: no more than a batch is dispatched. `BatchInv` adds the room that the pump has counted and not
  claimed yet; late executions can only lower the count.

Only model-checked: the liveness properties. `FinishedRunsAccount` is proved and not run: `BackfillLedger` says more.

## 4. CrawlRun

The runs of one source query: `run` has the rows of `crawl_runs` (status, announced pages,
reserved detail jobs, age), `fetched` the successful `source_fetches`, `latest` and
`query` the row of `source_search_queries`, `job` and `holder` the page jobs and the queue lock, `worker`
the executions of `collectSearchResultPage`, `sched` the executions of the scheduling task by cron and by
the admin. As before a statement or transaction is an action, named after its place: `RecoverRead`,
`Recover`, `ReadSchedulable`, `CreateRun`, `EnqueueFirst` for the scheduler; `PageContext`, `PageFetch`,
`PagePersist`, `PageReserve`, `EndPage`, `NextPage`, `PageCatch` for a page. `Complete` is the whole
transaction `completeCrawlRun`, with its early return for a run that is over and the classification.

Abstractions: a cadence is due, two hours pass or a pause ends at any moment, but no single step lasts
two hours; the share of the announced listings that a run saw is a choice when the run completes;
network errors and 5xx answers are one response, "transient". Manual schedules are not coalesced under
their job key. Legacy tasks for jobs queued before they were replaced are left out.

| Run | Question | Bounds |
|---|---|---|
| `crawl_schedulers` | Do racing schedulers, retries and failures keep to the abstract life cycle, and does a run always have somebody to go on with it when nothing fails? | 2 runs, 2 schedulers, 1 worker, 2 pages, 1 command, 1 fault; 1.9 million states |
| `crawl_liveness` | Does every run end while the crawler is on, and has a completed run all its pages, under duplicate executions and retried pages? | 1 run, 2 workers, 2 pages, 1 command, 1 fault |
| `crawl_block` | A documented promise the code does not keep, section 8. | 1 run, 1 fault |

`RunLifecycle` is what the crawler promises, without jobs, pages or failures: one run at a time, an ended
run stays ended, the query points to the last completed one. `CrawlRun` implements it with
`status <- [r |-> run[r].status]`; TLC checks the refinement as a property, and
`CrawlImplementsLifecycle` proves it for every number of runs, workers, pages and faults: each action
is a `Create`, a `Finish` or a stutter, and `createCrawlRunForSourceQuery` finds no running run because it
looks under the lock of the query. `OneRunPerQuery` follows, `CrawlTypeCorrect` is the type invariant
both rest on; it says, too, that the reservations of a run stay within its limit.

Two more theorems of `CrawlRunProofs` hold for every number of runs, pages, tries and workers:

- `CompleteRunsAreCovered`: `CompletedCovered`. `SerialInv` says that an execution has the lock of the queue
  until a slow one loses it, so no other execution is behind it; `CoverInv` adds that the run of a page that is being
  fetched or stored is not complete, without which the announced pages could rise behind a completion.
- `NoRunIsStranded`: `NoStrandedRun`. The invariant `CalmInv` holds until the first fault and has four parts:
  an execution still has the locked job it was started for (`Held`); a run without a job has just been created, and
  one scheduler is about to add its first (`Fresh`); an execution that is about to end leaves another job, a further try
  or an ended run behind (`Onward`); and so every running run has a job (`Carried`).

Fairness: the scheduler's steps and page steps go on, jobs that are ready are taken, the lock recovery
runs and a run grows old. Only model-checked: `RunEnds`.

Observed while modelling:

- `persistSearchResultPage` updates the run whatever its status. When the lock of a slow page was
  recovered, its late write may raise the page total of a run that another worker has completed, so
  `CompletedCovered` is stated for behaviours without such a recovery (`spent.slow`).
- The pages of a run are fetched one after another, as each enqueues the next, also when two workers run.

## 5. ListingAvailability

The current availability of listings as evidence from pages and complete runs: `avail` and `confirmed` are
the columns of `listings`, `sighted` the `listing_sightings` of a run, `marked` the time of the `marked_stale`
event of a run, `run` the rows of `crawl_runs` with query, status and start, `now` the clock, `worker`
the page executions. The source has one query of current and one of sold listings, which share the
listings and the queue but not the lock of a query, so they interleave.

A page is persisted in one transaction that stamps its listings with the time at which it began: `BeginPersist`
takes the stamp, `PersistPage` is the commit, with the upsert of every card. The completion of a run of
current listings is split where its statements take their snapshots: `BeginComplete` reads the candidates for
removal, `MarkRemoved` updates them and reads the candidates for staleness, `MarkStaleAndCommit`
updates those and commits; between them pages of the sold query, and after a recovered lock pages of
any query, are persisted. Row locks are guards of `PersistPage`. `StartRun` and `EndIncomplete` stand for all of
`CrawlRun`: any run may end incomplete at any moment, a complete end follows an execution.

The run `availability` checks five properties with three runs, two workers, one listing and a clock of three
ticks (5.5 million states). Three runs are the fewest that remove a listing: one that sights it and two
that miss it; three ticks order a sighting and two later runs, or make any two of them equal; listings do not
influence each other. What it shows:

- `EvidenceDecides`: while jobs run one at a time the availability counts the complete runs that missed the
  listing since it was last confirmed. The code keeps no such count.
- `SightingsConfirm`, `LatestObservationWins`: late and reordered pages neither confirm a listing before the
  run that sighted it nor take back what a later page has found.
- `OnlyCompleteRunsInfer`: no other step makes a listing stale or removed (ADR 0005).
- `SoldStands`: a sold page persisted in the middle of the reconciliation is not overwritten.

All five and the type invariant are proved in `ListingAvailabilityProofs` for any number of runs, listings, workers and ticks. The invariant has
four parts, each checked by TLC before it was proved: `TypeInv`; `OrderInv`, the order of the stamps;
`ClosingInv`, that at most one transaction completes a run of current listings and removes only what an
earlier one marked; and `SerialInv`, which holds until the lock of a slow job is recovered: what the
completion has read is still so, a page is persisted before anything later is stamped, and behind every
availability stand the runs it counts.

Observed while modelling:

- The updates of the reconciliation repeat only the condition on the availability. After a slow lock
  was recovered, a page of the same query that confirms a listing between the read and the update
  leaves it marked stale although it was just seen; `EvidenceDecides` is therefore stated without
  such a recovery (`slow`). `SoldStands` needs no such condition.
- With one clock the condition that the run itself has not sighted a listing follows from the one on its
  last confirmation (`SightingsConfirm`). Pages are stamped by the worker's clock and runs by the
  database's, so with a skew it is that condition that protects the listings. A skew is not modelled.
- A listing whose label is unknown is never marked stale or removed.
- The current query is paged newest first without a snapshot: a removal during a crawl shifts a listing to a
  page that was fetched already, so a complete run can miss a listing that was there throughout. The model
  lets a page show any listings and so includes it; the second complete run required by ADR 0005 is the
  code's answer to it.
- Only one query of each kind exists (`DEFAULT_NETTIAUTO_SOURCE_QUERIES`); the model has no more.

## 6. Services: components with faults and timers

`MCServices` is a sum: a behaviour is one of one component, chosen by `part`, while the others rest in a
state in which none of the actions whose fairness is assumed is enabled. The components share no
state in the code either; what one takes from another is part of its own environment (a backfill run that
ends, a listing that is written). The run `services` therefore checks each on its own instance.

| Module | State and actions | Property | Instance |
|---|---|---|---|
| `ResponseCache` | `order` and `slot` are the map, `object` the entries, which a load keeps although the map has lost them; `Get`, `Settled` (the then or catch handler) and `Finally` are separate microtasks | `EntriesAccounted`: no entry too many once loads end, none whose requests are never answered | 3 keys, 2 loads at once, capacity 1 |
| `StorageMigration` | `kept` and `moved` are the two representations of a row, `progress` the locked row, `chain` the continuation jobs, `batch` and `writer` open transactions, split where they wait for rows or the table | `MigrationKeepsReads`, `StageLeavesNothing`, `MigrationEnds` | 3 rows, batches of 2, one transaction of an old worker, one batch that dies; for each of the three stages |
| `ApiAccess` | `windows` in the order of the map with `count` and `left`, `session` of a browser | `LoginsBounded`: at most twice the limit within any window, a session only from a right password | 3 addresses, 2 entries, limit 1 |
| `SourceFetch` | `call` of each job, `line` the promise chain of the browser service, `client` the lazily loaded one | `FetchSettles`: every request of a job ends | 3 jobs, each of the three transports |
| `CrawlerDashboard` | `timers`, `poll`, `command` requests of the admin, `shown` against `truth` | `OneChain`, `DashboardConverges` | one change of each part, one failure |
| `BackfillAdmission` | `live` runs, the `startJob` under its key, the `control` queue; the start command in its two reads | `OneLiveRun` | 2 attempts |

Fairness: jobs run, promises settle, timers fire, and every request of the browser has an answer or fails
(the dashboard's requests have no timeout of their own: the browser's is assumed). The source need not
answer. `StorageMigration` assumes strong fairness of its batch, for the table lock it waits for: later
statements queue up behind it, while the model lets a new writer begin in any state without it.

What the properties do not promise, as the code does not:

- `OneLiveRun` excepts four ways past the admission (`slipped`): a start job that dies after it
  has created its run is tried again, and so is one that throws then, because the answer to its commit is lost or its
  connection fails to close; `attempts < max_attempts` hides a start job on its last attempt from the
  start command; and the command asks for runs before it asks for jobs, each at its own moment. With two live
  runs the dashboard and the commands see the newest only.
- A load whose finally handler comes after another request has made a new entry for its key clears the promise of that
  entry (`analytics-cache.ts:125`), so that two loads of one key run at a time; if the older of them fails after the
  newer has filled a third entry, its catch handler deletes that value (`analytics-cache.ts:118`). A value can so be lost to a
  failure although `docs/demand-driven-analytics-cache.md:16` says that it is retained. It takes two failures of one
  key and a request between two microtasks; the next request loads the value again.
- An `impit` client that failed to load fails every request until the worker is restarted
  (`nettiauto-source.ts:115`); the requests end, which is what `FetchSettles` says.

All these properties but those of liveness, `MigrationEnds`, `FetchSettles` and `DashboardConverges`, are proved in
`ServicesProofs`, each for its component's own specification and any instance; its last section,
`ServicesTypeCorrect` and `ServicesAreSafe`, carries them over to the composition, where a step is one of one component
and leaves the variables of the others unchanged. The invariants behind them:

- `OnePollingChain`, of `OneChain`: the property together with its types is inductive, as every handler that ends a poll sets
  the next timer unless the page was left.
- `StagesLeaveNothing` and `MigrationsKeepReads`: `StorageInv` relates the cursor to the rows behind it. What a
  batch has read is still stored (`BatchSound`), although writers wait to change other rows (`WritersSound`); rows the cursor
  has passed are done or counted as failed, and rows that the batch left out are done or come after it in a full batch
  (`DetailsSound`, `ErrorsSound`); and a completed raw stage, whose constraint is then validated, has no inline row
  (`RawSound`). Why no row is forgotten is an argument about the least row a batch did not pick.
- `PasswordsLimited`, of `LoginsBounded`: the invariant `Held` of one client splits the passwords checked within a window's
  length into those since its current window began, which that window's count bounds, and those before, of which there are at
  most as many as the limit, because two windows take longer than `LoginWindow`. The sweep of the full map, in insertion
  order, is a recursive function; the proof makes its table (`Iterated`) and shows that what survives keeps its windows.
- `EntriesAlwaysAccounted`: `CacheInv` says which loads an entry may still expect. A load has a key and, while
  it loads, an entry that no other key holds (`LoadSound`); the promise of an entry is that of a load of its key
  (`RefreshSound`). The bound on the number of entries rests on what eviction leaves: no more than the
  capacity, or nothing but the key that is asked for and entries with a load under way, of which there are no more than loads.
- `OneRunAtATime`, of `OneLiveRun`: the invariant counts what may still become a run: a waiting start job and one that executes
  are `Creators`, and `live + Creators <= 1` until a start slips past the admission.
- `RequestsAreSerialized`, which no run checks: the browser session runs one request at a time. `SourceInv` says
  that a request that runs is at the head of the promise chain.

The constants are assumed to be what the code has: limits and times are positive numbers, keys and loads of the cache are finite
sets.

## 7. Records and the questions about them

`MCRecords` is a sum like `MCServices`, of safety properties only, with 1.1 million states; its symmetry is over the
assets and the photos, which are compared for equality and never ordered or chosen.

| Module | State and actions | Property | Instance |
|---|---|---|---|
| `ListingHistory` | `pages` persisted so far, with the times of their fetches in any order; `snapshots`, `latest`, `details`, `payloads`, `bundle` and `inline` galleries; `PersistCard`, `PersistDetail`, `BackfillAssets` | `PagesAreHistory`, `EnrichmentIsEvidence`, `NewestStands` | 3 pages, 3 times, 2 cards, 2 detail pages, 2 assets |
| `MarketQueries` | a `stock` of listings and a `question`, a filter of all 18 fields; every statement is an operator over them | `AnswersAgree`, `KeysSuffice`, `ComparablesLinked` | all stocks of 3 out of 8 listings chosen at the bounds, 54 filters, 6 completed runs |
| `MarketSeries` | snapshots and completed runs of a listing | `StrategiesAgree`: lookups and joined periods give the same series | 3 times, 3 snapshots, 2 runs |
| `HeroArchive` | `gallery`, `hero`, `files`, `sweep` and `archive` jobs, two archivers, `enabled` and the deployments that change it | `SweepCovers`, `HeroesStand` | 2 listings, the first with or without a gallery when the sweep begins, batches of 1, 2 photos |
| `DetailPages` | the boxes of a page and its JSON-LD | `ParsersAgree`: parsed today, with older classes, or stored by v2 and upgraded | 2 boxes of 8 texts |
| `SavedWorkspace` | one value of `localStorage`, what each tab has rendered | `SavedReadable`: the stored value stays within its schema | 2 tabs, 3 cars, 4 writes |
| `FilterForm` | the selected make and model, requests for models with their answers under way | `OptionsMatchMake` | 2 makes, 3 requests |
| `FilterLinks` | `address`, and the scope a link was to lead to | `LinksKeepScope` | two filters, sorts, pages, both paths, a comparison |

In `ListingHistory` a page gives values of fields, in three groups: what only cards tell (the offer), what both tell (the
vehicle: mileage, year, fuel, transmission, body, colour) and what only detail pages tell. A card replaces all of them; a
detail page is merged over the newest snapshot of its time, over the fields of its card too (`persistence.ts:1435`), and adds a
snapshot when that changes something. `PagesAreHistory` says what a reader may take from the result: for every time and
field what was told last by then, by whichever kind of page, when pages are persisted in the order of their fetches.
`EnrichmentIsEvidence` says of pages in any order that a detail page changes what is known from its own time up to the
next observation and at no other time.

The statements of a question are compared with one another, as there is no other reference: a page of a search
with its count, the facets with the search they lead to, each bar of a chart with the search by its bounds, the
summary and the front page with the counts of searches. Each pair repeats a condition in another place
or another language. Values are chosen next to the bounds (caps of mileage, ends of a week, equal sort keys, labels
in two languages, unknown ones), because that is where two conditions differ. Medians and percentiles are left out.

Two comparisons are of two languages, and the model has both sides:

- Comparable cars (`product.ts:431-525`). `Within` is the condition of the SQL, with the exact 20%, here in fifths of a
  kilometre; `LeastKm` and `MostKm` are the numbers in the link, rounded down and up in JavaScript. `CategorySql` looks a
  label up in the arms of the generated `case`, `NormalizeVehicleCategory` in the table and then among the categories.
  `ComparablesLinked` says that the link loses no car the statement counts. The rounding of doubles is taken to be
  exact; for the mileages from 125 000 to 2 000 000, where 20% decide, this was confirmed by computing them all.
  `lower(trim(...))` and `trim().toLowerCase()` are one function, `Lower`, as they agree on the labels of the source. The
  assumption `MarketCategories` on the table is that its categories differ in lower case and that one which is also a label
  stands for itself, as in `vehicle-categories.ts`.
- The keys of the three caches (`api-app.ts:588-631`) and the statements behind their answers. `SnapshotKey` has the 15
  fields of the code, `TimeSeriesKey` `from`, `to` and `interval` besides, `FacetsKey` make and model; `Matches` reads the
  filter field by field, `WindowRuns` and `NewestRuns` the period of a series, `FacetsOf` what facets depend on.
  `KeysSuffice` compares any question that was asked with any other. Each of the 18 fields decides an answer on the
  instance: a key without it violates the property.

Proved in `ListingHistoryProofs` and `RecordsProofs`, for any instance, and carried over to the composition by
`RecordsTypeCorrect` and `RecordsAreSafe`:

- `HistoryOfPages`, `NewestAlwaysStands`, `DetailsAreEvidence`: `HistoryInv` ties every stored row to a page. A snapshot is of a page,
  with its time and its payload: one with the hash of a card holds that card (`SnapshotsSound`); the detail row is that of a newest detail page
  (`DetailsSound`); an asset is of a page that has it and of none before another that has it (`GallerySound`); no payload is
  left without a row. While pages come in order every time and field has the value told last (`PagesKept`).
  Assumed is that the hash of an enriched snapshot, an md5 of the hash before it and the
  raw record, is no card's.
- `SavedStaysReadable`: `SavedInv` adds that what a tab shows parses as well, since a click changes what is shown, which
  another tab may have replaced by then. Assumed is that the comparison may have no more cars than the shortlist.
- `OptionsFollowMake`: `FormInv` adds that a request for models under way is the last one, and of the selected make.
- `SweepReachesAll`, `HeroesNeverChange`: `HeroInv` adds that, until a job of the sweep was declined, every listing it is meant for
  was asked for, has a hero or comes after a waiting job, and that a photo about to be inserted is a file already.
- `LinksAlwaysKeepScope`: `LinkInv` adds that the listing page compares nothing (`ListingsAlone`). Assumed is that the first page is
  among the pages, and that the empty string, which stands for a parameter left out, is not.
- `StrategiesAlwaysAgree`: for histories and runs of any length. The two strategies agree because the last snapshot before a run
  is in the one period that contains its time; both are shown to exist without induction, as the greatest element of a set.
- `KeysAlwaysSuffice`, `ComparablesAlwaysLinked`, `AnswersAlwaysAgree`: the stock does not change, so the types are the invariant,
  and the work is in the operators. `KeysDecide` shows of each statement which fields it reads. `NormalizersAgree` is that the
  two lookups of a category give the same, `LinkBounds` that the rounded bounds include the exact ones. A sorted page is found by ranks: the rank of a listing in the total order is a bijection with
  the numbers up to their count (`RanksFill`), so the pages cut it without gap or overlap (`PagesCover`), and the bars of
  a chart cut a range in the same way (`QuotientIs`). Assumed of the listings to choose from is what the schema and
  `persistence.ts` keep: an availability of the three, prices and times as numbers, and a first sighting not after the
  last.

- `ParsersAlwaysAgree`: for pages of any number of boxes and any texts. The parsers fold over the boxes, and
  three facts about such folds carry the proof. Each fold has a table of its intermediate results (`Pushes`,
  `FieldsTable`, `HalfTables`). The table of a page depends only on the field of each box, which is the same with the halves
  reversed (`SameFields`, `ReversedFields`). And `HalvesValue`: the first field of a label is still its first when the fields
  are divided into two lists by their labels and appended again, as an upgrade does, because all fields of a label go
  into the same list in their order. What else the upgrade keeps is bounded a second time by the same bounds.

What the properties do not promise, as the code does not:

- `NewestStands` speaks of galleries with one newest page: pages of the same time may come either way.
- `tasks/backfill_nettiauto_image_assets.ts` inserts inline assets although the gallery may be in a bundle already;
  reading such a gallery throws (`gallery-storage.ts:27`), and a hero batch that meets it fails as a whole. The
  order of the tasks in `docs/storage-v4-rollout.md` avoids it. `HeroArchive` includes it; a sweep whose job has given up
  covers nothing.
- With `HERO_IMAGE_ARCHIVE_ENABLED` false, its default, a job of the sweep ends successfully and queues nothing
  (`nettiauto-hero-backfill-task.ts:29`), so a sweep that met the archive switched off is over and covers nothing either
  (`declined`); it has to be queued again.
- The link to comparable cars shows nothing when its years are not in the filter's schema, 1886 to 2100, while the year of a listing
  is any number the parser found: `ComparablesLinked` is about the years strictly between.
- Two tabs that save at the same time lose a change; and addresses over 6000 characters make a stored
  workspace unreadable, which is outside the model.
- The chart by mileage has at most 80 bars of 25 000 km, one less than the range has: with cars in every bar, those at
  exactly 2 000 000 km are left out. The instance has fewer bars.
- A detail page that tells nothing new still adds a snapshot when its listing's last card is not its own
  (`persistence.ts:1323`), more than `docs/adr/0003` describes.

## 8. Findings

| Run | Code | What it shows |
|---|---|---|
| `backfill_probe` | `nettiauto-detail-backfill-task.ts:484` | After the cooldown the first pump sends one probe, the next one fills the batch while the probe is unanswered. |
| `backfill_rebuild` | `detail-backfill-control.ts:270` | A legacy run whose rebuild is interrupted by a pause is completed on the next resume without fetching anything. |
| `backfill_pause` | `nettiauto-detail-backfill-task.ts:753` | A block that arrives after a pause replaces the pause, and the run goes on after the cooldown. |
| `backfill_resume` | `nettiauto-detail-backfill-task.ts:825` | A maintenance pass between its read and its `addJob` replaces the job of a resume: the run stays paused. |
| `crawl_block` | `nettiauto-crawl-execution.ts:416` | A failure between ending a run for an unusual body and pausing its query leaves the query unpaused. |

`PROJECT.json` quotes the line of the documentation or user interface each of them contradicts.

## 9. Bounds, deadlock and what is not covered

Every counter that could grow is bounded by a constant of the module (`MaxCommands`, `MaxFaults`,
`MaxBlocks`, `MaxPage`, `MaxTime`, `MaxStorageFaults`, `MaxChanges`, `MaxFailures`, `MaxLive`, `MaxPages`,
`MaxWrites`, `MaxRequests`) in a guard of the environment; the proofs do not depend on their values.
Symmetry is used in safety runs only. Deadlock is not checked: a backfill that is over, a crawler that an operator left
off, a history that has used up its runs and a component that has used up its bounds have nothing left to do.
That nothing waits forever before that is checked by the liveness properties.

Proved, and therefore not run a second time: the type invariants of the crawler and of the records, that a query never has two running
runs, and that requests of the browser session are serialized. Proved besides the run: every invariant, action property and
refinement of a passing run. The proofs take from the constants only the named assumptions of the modules that
declare them; TLC evaluates those on every run.

Out of the prover's reach, and left to TLC: liveness under fairness, `ENABLED`, and induction over data.
That leaves `RunSettles`, `CancelCompletes`, `DispatchReturns`, `RunEnds`, `MigrationEnds`, `FetchSettles` and
`DashboardConverges`, which are liveness, and the violations of section 8. Where a safety proof needed an
induction over numbers (`ParsersAlwaysAgree` is the longest case), it argues by a least counterexample instead: `LeastOf` gives the least element of a set of numbers from
the well-foundedness of their order, and `Iterated` the table of a recursive function.

Not modelled: the HTML of the parser, percentiles and the diagnostics of the crawler, which only read; the
recognition of interstitial pages and the headers of requests; configuration, logging and the component library, which
keep no state; the legacy crawl tasks kept for jobs of an older version; rendering; scripts and infrastructure,
which are not part of the running program.
