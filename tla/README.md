# CartLedger, specified

TLA+ models of the concurrent and failure-prone parts of CartLedger, the TLC
runs that check them, and TLAPS proofs of what matters most. CartLedger is a
self-hosted Go server over SQLite: a household uploads receipt photos, a worker
pool has a language model extract the line items, people correct them, and
lists, prices and enrichment are built on the result. Most of the code is
sequential CRUD in SQL. What is hard is the little that is not: goroutines and
HTTP handlers that write the same rows, in-memory queues over durable rows, a
breaker shared by all households, statements of one handler that are not one
transaction, a connection pool whose connections differ, and a process that may
die at any point.

Paths below are relative to the repository; `receipt.go` is
`internal/worker/receipt.go` and `receipts.go` is `internal/api/receipts.go`.

## Inventory

| Component | State | Operations | Talks to | Hard because | What makes it correct |
|---|---|---|---|---|---|
| Receipt worker queue (`receipt.go`) | channel `jobs`, dedupe map `queued`, wait group, `accepting` | `Submit`, `Resubmit`, `process`, `Shutdown` | called by handlers and boot | a send, a count and a key in three structures with three owners; shutdown against running jobs | one job per receipt, keys and counts exact, nothing lost by a clean stop, shutdown returns |
| Receipt pipeline (`receipts.go`, `processJob`, `RequeuePending`) | `receipts.status`, `line_items`, image files | scan, reprocess, line items, repair, edit, delete, extraction, boot requeue | queue, guard, files, hub | every handler reads, decides and writes in separate statements; errors of lone UPDATEs are dropped | a scan is extracted once and is never lost in a crash |
| LLM guard (`internal/llm`) | breaker (memory), `llm_usage_monthly` | budget check, `Allow`, `OnSuccess`, `OnRateLimit`, `OnOtherError`, record usage | workers, repair previews | answers arrive after the breaker's state has changed; check and charge are apart | trips on evidence only, backs off, bounded overshoot |
| Product catalogue (`products.go`, `matching.go`, `receipts_barcode.go`, `internal/prices`, `internal/identifiers`) | products, lines, price rows, purchase counts, GTINs | create, update, merge, delete, match, accept, repair, barcode | matching, pipeline | decisions before transactions, `ON DELETE` rules that depend on the connection | price rows have their line and product; a GTIN finds the product that shows it |
| Product matching (`internal/matcher`, `aliases.go`, `internal/storecodes`) | aliases, store codes, rules, a session's candidates | match, learn, merge, rules, backfill | scan worker, import | a session remembers what it has read; learning and looking up normalise differently | what is learned is found, nothing deleted is |
| Spreadsheet import (`import_spreadsheet.go`, `internal/spreadsheet`) | staged session in memory and on disk, preview cache, batches | upload, preview, transform, commit, delete, janitor | matching | requests share the session without a lock; a commit is many transactions | a batch counts its receipts; a retry repeats nothing; the disk is given back |
| Accounts (`bootstrap.go`, `auth.go`, `invites.go`, `password.go`, `internal/auth`) | users, invites, reset tokens, the bootstrap token in table and memory, cookies | setup, join, invite, reset, change, CLI reset, janitor | mail, web client | tokens used in one statement and honoured in another; whole seconds | a token works once; a session ends with its password and not before |
| List locks (`internal/locks`, `lists_lock.go`, `useListLock.ts`) | holder per list, banner per page | acquire, touch, release, take over, sweep, implicit acquire in write handlers | hub, list handlers | events leave after the mutex, two sections in release, refusals that return nil | a live hold is lost only rightly; banners name the holder |
| WebSocket hub and list pages (`internal/ws`, `useWebSocket.ts`) | clients per household, buffers, the page's query | register, unregister, broadcast, refetch | all publishers | slow clients, removal in another goroutine, events that pass refetches | a page that stays connected misses nothing and comes to show the list |
| Enrichment jobs (`internal/enrichment/runner`) | job rows, channel, poller | queue, run, retry, recover, sweep | providers, hub | row and channel describe the same work; cancelled contexts | one active job per key, bounded attempts, a queued job is run |
| Backups (`internal/backup/runner.go`, `internal/db/backups.go`) | rows, temporary files, archives | start, run, prune, delete, reconcile, sweep | boot, CLI | three stores without a common commit, two processes | a complete row has its archive; the newest are kept |
| Staged restore (`internal/backup/restore.go`) | staged archive, database and its log, files moved aside | upload, stage, apply at boot, restore command | boot | a boot that is cut short between renames, and the next one | what is served is whole; the old database stays |
| Server lifecycle (`cmd/server/serve.go`) | none of its own | boot order, HTTP stop, worker stop | all | order of boot steps, two deadlines | what the components say of boot and stop |
| Image retention, image store, database handle | files, `deleted_at`, pool pragmas | sweep, save, `Open` | pipeline, catalogue | runs beside jobs; pragmas belong to one connection | takes only originals |
| Shopping lists, enrichment suggestions | rows | CRUD | locks, hub, catalogue | little beyond locks and events | - |
| Prices and units, analytics, model and provider clients, rate limits, rendering | - | arithmetic, queries, I/O | - | sequential, or data only | - |

## Modules

| Module | Models |
|---|---|
| `ExtractionService` | the abstract promise of the worker: a receipt is idle, waiting or extracted by one goroutine, and accepted only while idle |
| `ReceiptQueue` | the queue: `Submit`, `process`, `Shutdown`, process death. Refines `ExtractionService` (`ImplementsService`) |
| `ReceiptPipeline` | handlers, jobs, retention, boot, shutdown and crash over rows and files. EXTENDS `ReceiptQueue` and refines it (`ImplementsQueue`) |
| `EnrichmentJobs` | the enrichment's job rows around a worker whose code repeats the receipt worker's. EXTENDS `ReceiptQueue` too and refines it (`ImplementsQueue`) |
| `LlmGuard` | breaker and budget with their callers |
| `ListLock` | lock store, handlers, events and the pages' hook |
| `WsHub`, `ListSync` | the hub; list handlers, events and refetching pages composed with it |
| `Backups` | runs of server and CLI, prune, delete, boot; a restore is one step |
| `StagedRestore` | that restore, file by file |
| `Catalogue` | products, lines, prices, counts and GTINs under their handlers |
| `Matching` | the engine's stages, sessions, and what is learned |
| `SpreadsheetImport` | staging, edits, previews, commits, janitor |
| `Accounts` | setup, invites, resets, passwords, sessions |
| `MC*` | symmetry and function-valued constants for TLC |
| `*_proofs` | the theorems about the module of that name, and more: `ReceiptQueue_proofs` has those of `ExtractionService`, `ReceiptPipeline_proofs` of `LlmGuard`, `ListLock_proofs` of `WsHub` and `ListSync`, `Backups_proofs` of `StagedRestore`; `ImportMatching_proofs` is about `SpreadsheetImport` and `Matching` |

What they have in common: one action per statement, transaction or critical
section that other actors can observe; a handler that spans several is a record
with a program counter; a crash loses what is memory and keeps rows and files;
ids and tokens are random, so none comes twice; variables called history exist
for the properties alone.

### ReceiptQueue

`Submit` is one critical section, but the goroutines do not take its mutex, so
it is two steps: `Enqueue` (LoadOrStore and the send, of which nobody sees one
without the other, because every reader of the map holds the mutex too or
deletes a key it owns) and `CountJob` (`wg.Add`). `adding` is the mutex while it
matters. A refusal changes nothing (`Refused`). A goroutine goes idle ->
running -> forgotten (`queued.Delete` done, `wg.Done` not) -> idle. `pool` is
the process: down, open, waiting (Shutdown's select), clean or late (its two
branches), stopped. The channel is closed exactly when `pool` is neither down
nor open. `Die` is a crash, a kill or the end of main at any point; `wg.Done` at
zero panics, which is `Die` too, so `Finish` requires a count. The idempotency
of Shutdown (a second caller waits for the first) is left out: only main calls
it, once.

### ReceiptPipeline

`Reprocess` is read, guard, flip, submit, rollback. A job's `stage` follows
`processJob`: load images, call the model, commit or fail, release. The whole
extraction is one transaction, so its rows appear with its status
(`CommitItems`); `'processing'` is written inside it and never committed.
Statuses written outside a transaction go through `Update`, which does nothing
to a missing row and may fail unseen when `DbMayFail`. Line items are reduced
to where they come from (`LineState`). `touched` and `leftover` are history:
the receipts that a handler other than Scan has worked on, and the
rows that this boot gave up. Resubmit's look at the files and its Submit are one
step: only the files could change between the two, and a job whose files are
gone fails at its load. The reads of boot and Resubmit are assumed to succeed.
What a line item does to products and prices is `Catalogue`'s.

### EnrichmentJobs

What `ReceiptQueue` calls a receipt is here the id of a job row. `QueueJob` looks
for an active row and inserts its own in two steps, and a unique index settles
the race; `PollRead` and `PollSubmit` are `RequeueReady`. A goroutine marks its
row running, looks the product up, and finishes the row, gives it back after a
rate limit, or fails to say anything (a cancelled context). `Recover` is what
boot does to rows left running: those that are old enough go back or, with their
attempts spent, end. `lost` is history. The status `'cancelled'` is never written.

### LlmGuard

A call goes idle -> checked (budget) -> sent or probe (`Allow`) -> billing
(success reported) -> idle. As in the code, an answer is handled alike whoever
was the probe. Time is a `Tick`; an instant is kept as its age, capped where no
guard can tell larger values apart. `recent` and `sinceProbe` are history.

### ListLock, WsHub, ListSync

Lists have nothing in common, so there is one. Each store operation is a step,
the event that follows its mutex another (`pc = "tell"`), and `ReleaseLock` is
its two critical sections. `requireLock`'s refusal does not stop the handler,
as in the code. A tab mounts, beats, writes, hears events (in the order of the
hub) and answers; `crossed` marks changes that were announced in an overlap.
In `WsHub` the hub's goroutine moves messages to bounded buffers; a full one
means a message missed and an eviction by another goroutine. `ListSync` puts
the list handlers (commit, then broadcast) and the page's query with its
invalidations on top. An invalidation starts the query anew only in a tab that
has data (react-query's `cancelRefetch`); a first query is let run. A tab may
leave the page while its query runs, lose its data, fail a query, and show a
check before it is answered, which cancels the query (`BeginToggle`) and starts
it when the answer is there (`EndToggle`). `Update` and `ReorderItems` commit
without an event (`ChangeUntold`). `steady` and `untold` say which pages the
property `SteadySeesAll` is about.

### Backups, StagedRestore

Server and CLI run the same steps on rows in SQLite, `VACUUM INTO` files and
archives, and each may be killed between any two. A restored database brings
its own table back. Boot reconciles rows left running and sweeps files that no
row names, reading the directory first. `StagedRestore` has the files: an upload
writes, validates and marks; a boot moves the database, then its log, extracts
and clears; each may be the last thing a process does, and the next boot goes on
from there. The operator's `restore` command runs while the server is stopped
(docs/ops/migration-recovery.md).

### Catalogue, Matching

`ForeignKeys` is the set of settings the pragma may have on the connection a
transaction gets: db.Open sets it on one connection of the pool. Handlers that
read before their transaction keep what they saw in `pending` (`Catalogue`) or
in a session (`Matching`). In `Matching` a stage yields the set of the answers
SQL may give, since it gives no order among equals, and scores and conditions are
constants. Each statement of the code inside a transaction is a helper on a
record of tables, so the actions are compositions of helpers, as in the code.

In `Matching` the lines of a receipt or of an import group are one transaction
`tx`: it works on a copy of the tables (`Ingest`, line by line) which the commit
puts in place (`CommitReceipt`), and the matcher reads `db`, as the code's reads
`w.db`. The worker has written its receipt before it opens the session, and a
group with a store has read in its transaction by then, which then cannot write
if anybody else has: both hold the write lock (`Open`). A group without a store
opens its session first (`OpenAhead`) and gets the lock later (`Begin`). While a
transaction holds the lock nobody else writes. `late` is history: the rules
whose last write found their product gone.

### SpreadsheetImport

The staged session is shared by pointer and takes no lock, so each read and
write of it is a step: the revision a preview is labelled with, the chain it is
computed from, and the cache it is put into are all apart. A commit is one
transaction per group between the row of its batch and that row's completion.

### Accounts

Passwords are numbers of writes, time is whole seconds, and bcrypt is the time
between two steps of a handler. `server` is what the process remembers of the
bootstrap token, `db.setup` the row. A client is a browser with a cookie or an
operator's shell (`ClearUsers`, `CliReset`). Throttles only refuse and are left out.

## Runs

| Run | Checks | Bounds |
|---|---|---|
| `receipt_queue` | `Bookkeeping`, `CleanMeansDone`, `ImplementsService`, `JobsEnd`, `ShutdownReturns` | 4 receipts, 2 goroutines, capacity 2: both goroutines busy while the queue is full and one more is refused |
| `receipt_pipeline` | `PipelineSound`, `ScanExtractsOnce`, `BootAdoptsPending`, `ImplementsQueue` | 2 receipts, 1 goroutine, capacity 1, 1 request, `RequeueCap` 2, refused calls, failing writes: a boot meets a row without images and a full queue, a request every stage of a job. With 2 receipts the cap is not exceeded; the theorem is for any cap |
| `enrichment_jobs` | `EnrichSound`, `QueuedIsRun`, `ImplementsQueue` | 2 rows of one key, 1 goroutine, capacity 1, 2 requests, 2 attempts, failing statements |
| `llm_guard` | `GuardSound`, `OvershootBounded`, `BreakerLawful` | 1 worker, 2 previews, 2 households, budget and bill 2, threshold 2, window 2, cooldown 1 to 3: trip, back-off and cap, late answers of both kinds |
| `list_lock` | `LockSound`, `HoldLostRightly` | 2 users with a tab each, 2 requests, a limit of 1, 1 restart, every operation |
| `list_sync` | `SyncSound`, `SteadySeesAll` | 1 page, 2 messages, broadcast 1, buffer 2, wire 1, 1 item, 1 request: each channel can be full, and a first query, a check and every write meet the event of another |
| `backups` | `BackupSound`, `KeepsNewest`, `RunningEnds` | 2 backups, 1 kept, 1 restore, 2 boots, server and CLI |
| `staged_restore` | `RestoreSound`, `OldSurvives`, `Boots` | 3 uploads, 2 of them valid, 3 seconds, 3 stops, failing files |
| `catalogue` | `CatalogueSound`, `UpcIsOwned`, `GtinNotStolen` | 2 products, 2 lines of a receipt, 2 GTINs, 1 request beside the others, both settings of the pragma |
| `matching` | `MatchSound`, `SessionAgrees`, `Settles`, `StoresApart`, `MergeRemembers` | 2 products, 1 store and the global scope, 2 names, one with "&", 2 keys, a code, a rule, a receipt of any number of lines, both settings. There is one store, so the other scope of `StoresApart` is the global one (the theorem is for any) |
| `spreadsheet_import` | `ImportSound`, `RetryRepeatsNothing`, `DiskReclaimed` | 2 clients, 1 group, 1 edit, 2 batches, 2 uploads. With 2 edits, and the safety properties with 2 groups, TLC finds no error either (some minutes) |
| `accounts` | `AccountsSound`, `BootstrapHonest`, `SessionsHold`, `TokenStable` | 3 users and addresses, 2 invites, a reset, 2 bootstrap tokens, 2 clients, 3 seconds, 4 requests |

`CHECK_DEADLOCK FALSE` stands in every configuration because the server really
may stop, because ids are used once, and because bounds end a behaviour.
Besides the sizes of the constant sets the bounds are the constants called
`Max...`, `...Cap` and `Retain` (those in capitals in the code's configuration
are parameters there too), and the caps on ages. `usage` is bounded by the
budget and the callers (`OvershootBounded`).

What the runs show:

* **Queue.** Dedupe, wait group and drain agree in every interleaving but the
  one race of `DoneFindsCount` below, and nothing that handlers, boot and either
  worker do steps outside the queue's protocol. A receipt that only Scan has
  touched survives any crash and is extracted once, even when writes fail.
* **Enrichment.** No two active jobs of a key, a running row has its goroutine
  or is one that an ended run or process has left, losses are bounded by the
  attempts, and a queued job is run although `Submit`'s refusals are ignored.
* **Guard.** Late answers cannot free or lose the probe slot, so the fallback
  for a forgotten slot in `Allow` is dead; the breaker never opens on fewer 429s
  than the threshold inside one window.
* **Locks and pages.** A stale release never takes a fresh hold away. A message
  is missed only by a page that is then removed. Events, queries and checks shown
  ahead of their answers cannot pass each other so that a steady page keeps
  showing an old list, if it was told of the change. It is not told by `Update`
  and `ReorderItems`, by frames it cannot read, and by an event that joins its
  first query after that has read; then it is old until it reads again.
* **Backups and restore.** A complete row has its whole archive, unless a
  restored table brought the row back; the prune removes a backup only for newer
  ones; a running row ends. After any sequence of crashes the server serves one
  whole database, unless the operator's command was cut short, and boots again.
  The log beside it is its own, with an exception that matters: when a boot dies,
  or its rename fails, after it has moved the old database and before it has
  moved the old log (restore.go:375-390), the next boot extracts the archive next
  to that log (`torn`); so does a command, which leaves the log where it is.
* **Catalogue and matching.** With foreign keys enforced or not: price rows hang
  on a line and a living product, the purchase count covers them, a shown GTIN is
  owned. A fresh match finds no product that is gone, except by a rule last
  written for it after it had gone: neither a delete nor a merge leaves one
  behind. The session of a store answers at every line as the engine does, whose
  reads do not see the receipt's own lines either. A committed receipt changes no
  answer in its store that a code, a rule or an alias gave, and its lines are
  found again: with the product they got, or, where several of its lines share a
  new name or code, with that of one of them.
* **Import.** A finished batch counts its receipts whichever groups failed; a
  repeated commit repeats nothing unless told to; disk space comes back.
* **Accounts.** One account per address, invites and resets work once,
  whoever sets or uses a password stays logged in until it is set again, and a
  bootstrap token that was pasted keeps working until it has made a user.

### Fairness

* `WorkersFair`: a goroutine that can step does, and the submitter inside
  `Submit` goes on. The Go scheduler gives the first; every model call has a
  timeout, which gives the end of a run. `JobsEnd` uses it.
* `ShutdownFair` is only the shutdown's own goroutine: its context expires and
  its drain loop never blocks. `ShutdownReturns` uses nothing about the
  workers, since a call may outlive the deadline.
* `GuardFairness` (for `ClearsOnCooldown` alone): time passes, calls are
  answered, users keep trying.
* `EnrichFairness`: lookups time out after 15 s, the ticker ticks and the clock
  goes on. Strong for the submission of a row by the poll, which takes rows in
  the order they are due, so that the one that waits is the first at last; and
  strong for the statements of a job, which do not fail for ever.
* `BackupFairness`, and `ServerStep` and `CommandEnds` in `StagedRestore`: a run
  goes on while its process lives, and the server is started again
  (`restart: unless-stopped`, docker-compose.yml:22).
* `SpreadsheetImport`: handlers end, time passes, the janitor's ticker ticks.
* `ListLock`'s fairness (handlers end, intervals fire) belongs to the
  specification; its two properties are safety.

### Observations

Where the code does not do what a comment or a document says of it, the module
states the sentence as a property and a configuration beside the runs finds the
counterexample (`tlc -config X.cfg M`). These are not runs of the project: they
end with a violation.

| Configuration | What the code does |
|---|---|
| `ReceiptDoneFindsCount` | `Submit` sends (receipt.go:227) before it counts (228). A goroutine that finishes the job first calls `wg.Done` at zero, which panics; "Every job sitting in w.jobs carries an open wg count" (210). Rare: the submitter must stay descheduled for a whole job. The theorem `DoneRacesOnlyAdd` says it is the only such race |
| `ReceiptNoDoubleExtraction` | A retry that reads 'pending' while the job runs flips 'pending' to 'pending' (receipts.go:898) and is enqueued when that job has just released the receipt: its rows are stored twice (against 852-855) |
| `ReceiptAcceptedHasJob` | A retry between a failed job's status write and its release of the key is answered 202 (receipts.go:917) and has no job (against 826); the receipt stays pending until the next boot |
| `ReceiptTerminalStays` | A retry that is refused or rolled back writes 'error' over a receipt matched since it was read (receipts.go:871, 926); the drain and a failed job do likewise (against 853) |
| `ReceiptNoOrphanLines` | A receipt deleted during its job gets its line items back as orphans (receipt.go:953): foreign keys are on for one connection of the pool only (sqlite.go:30) |
| `LlmClearsOnCooldown` | A half-open probe that ends in an error other than a 429 keeps its slot (breaker.go:183), and the breaker refuses until a restart (against guarded.go:56) |
| `LlmOvershootByWorkers` | Repair previews run in HTTP requests, so the worker's concurrency (guarded.go:65) does not bound the overshoot; `OvershootBounded` is the bound that holds |
| `ListRefusedWritesNothing` | `requireLock` returns the nil of `c.JSON` after its 409 (lists_lock.go:190, against 170), and its callers write to the list all the same |
| `ListOwnerBeats` | A tab that takes over after a refused acquire has no heartbeat (useListLock.ts:168-173): its hold expires under a page that shows it |
| `ListBroadcastsAreSeen` | `Update` (lists.go:901) and `ReorderItems` (lists.go:1696) commit and broadcast nothing, the counterexample; frames joined by newlines (hub.go:168-173) fail `JSON.parse`, a page opened before the socket does not listen, and an event that arrives during a tab's first query joins it (against PLAN.md:1097) |
| `EnrichBacksOff` | A rate limit gives its attempt back, so the delay computed from the attempts (service.go:865) never grows (against docs/food-product-enrichment-implementation-plan.md:569) |
| `CatalogueCascadeReaches` | On a connection without foreign keys, identifiers and aliases of a deleted product stay, and its GTIN answers 409 ("CASCADE handles any remaining FKs", products.go:1376) |
| `CataloguePricesFollow` | Accepting suggestions, creating lines and repairing use a store read before the transaction: the price rows do not follow the line |
| `MatchingLearned` | An alias is stored under `NormalizeProductName`, where "&" is "and" (aliases.go:62), and looked up under `Normalize` (engine.go:81): a name with "&" is never found exactly (against PLAN.md:1811) |
| `MatchingMergeKeepsCodes` | A merge moves aliases and rules, not store codes |
| `ImportCommitsUnseen` | Commit compares the revision (import_spreadsheet.go:1144) before it reads the chain: a transform in between is committed unseen (against 1137) |
| `AccountsOldSessionsEnd` | A session of the same second, or of a login under way, outlives a password change (middleware.go:244) |

Two boots within a second share the name of the file they move the database to,
so the old one is overwritten (`OldIsKept` in `StagedRestore`, against
restore.go:308; put it in place of `OldSurvives` in `StagedRestore.cfg`). A rule
may be written for a product that is gone, and every receipt it hits then fails
at its prices (`RulesAreLive` in `Matching`; put it in place of `MatchSound
SessionAgrees` in `Matching.cfg`). The lines of a receipt do not see what the
ones before them have taught (session.go:15-19, receipt.go:816): a line matched
by its code may teach a name to its product while a later line of the same name,
without a code, is matched by similarity to another, whose alias is then not
written; the same receipt scanned again is matched differently, which is why
`Settles` lets a product of the receipt's other lines take the name.

Met while reading, and stated by no property:

* `Shutdown`'s callers are told that in-flight jobs are marked pending
  (receipt.go:373, serve.go:162); only buffered ones are, and the rest are
  pending because nothing was committed. breaker.go:35-37 says a non-429 error
  resets the counter; `OnOtherError` (180-185) says and does the opposite.
* `RequeuePending` has a cap and no order, so rows without images can starve
  the rest at every boot.
* A restore brings back the archive's own table: rows of newer backups vanish
  and the boot sweep deletes their archives. The sweep also removes the
  temporary file of a CLI backup in progress (serve.go:317). An archive kept as
  "still usable" after a failed last UPDATE is served only once a row says so.
  `restore --force` after an unclean stop leaves the old log next to the new
  database, and keeps no copy.
* Merges fail on a connection with foreign keys if the product has unit
  conversions or is a suggestion. Deleting or repairing a receipt does not
  refresh purchase statistics.
* An enrichment row left running less than 30 minutes before a restart blocks
  its key until the next one; `QueueJob` submits a waiting row before it is due.
* Concurrent resends of an invite leave two live ones. A crash between the two
  statements of `ConfirmReset` uses the token up and changes nothing. The time of
  a password change is taken before the statement, so it may go backwards.
* A page that reconnects does not refetch: it is old until the next event.
* `SetupMark` failing leaves the bootstrap token's row pending beside users; only
  the token in memory is cleared (`BootstrapHonest`).
* Concurrent transforms of an import can lose an edit; a preview's revision may
  be newer than its data; a failed duplicate check is only logged; a crash
  leaves a batch with counters at zero.

## Proofs

All theorems hold for every value of the constants under the assumptions
`...Assumption` of their modules: finite sets of goroutines, callers, clients
and lines, positive capacities, `NoJob` no receipt, a product's name scoring
full marks against itself, and so on. Every inductive invariant named below was
an invariant of the component's run before it was proved. The theorems cover all
safety and action properties of the runs and the three refinements.

* **Service.** `ServiceIsExclusive`: an abstract service that accepts only idle
  receipts never runs one twice. With the two refinements below it carries over
  to queue and pipeline; `QueueIsExclusive` is that carried over to the queue.
* **Queue.** `QueueTypeCorrect`, `BookkeepingAlways`, `CleanShutdown`,
  `DoneRacesOnlyAdd`, `ClosedNeverSends`, `QueueImplementsService`. `QueueInv` is
  inductive: types; idle and exited goroutines hold no job, running ones do; no
  `Submit` is between its steps unless the pool is open; the parts of
  `Bookkeeping`; `CleanMeansDone`. The count needs the cardinality of the
  goroutines that owe a Done, one lemma for joining and one for leaving that
  set. No part is inductive alone: one job per receipt needs the dedupe map to
  be exact, `CleanMeansDone` needs the count and that nobody adds after the
  close. The refinement maps `waiting` to the buffered receipts and `runner` to
  the goroutines' jobs, action by action.
* **Pipeline.** `PipelineTypeCorrect`, `PipelineImplementsQueue` (every action is
  a queue step or leaves the queue alone, so `QueueInv` is there for all that
  follows), `PipelineIsSound`, `ScannedOnceExtractedOnce`, `BootAdopts`. The
  middle two rest on `FreshOK`: for a receipt that nobody has touched, what its
  row, files, lines and scan must be at each stage of its one job. The boot needs
  `BootShape`: what is still to requeue has no job unless it was put there by
  this boot, and the condition `~DbMayFail`: a retry whose failing UPDATE was
  lost may leave any status.
* **Enrichment.** `EnrichImplementsQueue`, `EnrichmentIsSound`. On top of
  `QueueInv`: a goroutine at the stage of a lookup runs the job it holds, and
  nobody else does; its row says running or is deleted; a row that says so
  without a goroutine has lost a run; attempts count what was lost and the run
  under way, and a queued row has one left. The read of a request that found no
  active row is settled by the unique index.
* **Guard.** `GuardIsSound`, `OvershootIsBounded`, `BreakerIsLawful`. Probe slot
  and types are inductive together. The overshoot counts, per household, what has
  been billed and what may still be. The lawful trip ties `failures` to the ages
  in `recent`, the growing back-off `sinceProbe` to the cooldown the next probe
  waits for.
* **Locks.** `LockIsSound`, `HoldsAreLostRightly`. `LInv`: types; a release that
  has seen its own user as holder still does, or nobody holds, or changes have
  crossed; the holder has been told or a request is about to tell it.
* **Hub and pages.** `HubIsSound`, `SyncIsSound`, `SteadyTabsSeeAll`. `HubInv`
  adds to its two properties that a socket still joining has missed nothing and
  was never closed. `SyncInv` adds that a call's local variables fit its program
  counter (what it is about to announce is in the rows) and `Reaches`: while the
  list is there, a listening tab in touch that was told of everything either
  shows the list as it is, or will read it anew (a query, or a check still to be
  answered), or has something on its way: a call before its broadcast, a message
  with the hub, a frame in the buffer or on the wire. Nothing less is inductive,
  since a message passes through all four and may be overtaken by a refetch. An
  event that joins a first query is harmless if that has not read yet or has read
  the change; the third case is what `untold` is for. A tab with a check on its
  way has data, so the answer always starts the query.
* **Backups.** `BackupIsSound`, `NewestAreKept`. A row may come back from a
  restored table, so `BackupInv` says of every table, live, staged or in an
  archive, that what it calls complete has an archive that no run will write
  again (`Done`).
  The prune works on what it read (`old`) while an admin deletes: `PruneOK`
  counts the rows newer than all it has still to delete, deleted ones included.
* **Restore.** `RestoreIsSound`, `OldDoesSurvive`. `RestoreInv` says what each
  step of the boot relies on (`Applying`), that what is not whole is being
  written, was cut by a command, or has a staged archive to be written from
  again (`Recoverable`), and that a log is its own database's but between the two
  moves (`OwnLog`); uploads end with the server and the command runs alone. What
  is proved of the log is what `RestoreSound` says, with `torn` as its exception.
* **Catalogue.** `CatalogueIsSound`, `UpcsAreOwned`, `GtinsAreNotStolen`. The
  invariant is `Good(db)` (tables in type, price rows backed, counts covering,
  GTINs identified) and that what a request found before its transaction is of
  the right type. The helpers are proved to keep `Good` one by one, for a
  connection with and without foreign keys, and the actions compose them.
* **Matching.** `MatchingIsSound`, `SessionsAgree`, `LinesSettle`,
  `StoresStayApart`, `MergesRemember`. `MatchInv`: types; a rule gives a living
  product or is in `late` (`RulesHeld`); the open transaction differs from the
  tables only by what its lines have taught, each where nothing was, and those
  lines were matched on the tables as they still are (`Held`); the candidates of
  a store's session are those of the tables, since nobody writes beside its
  transaction (`Fresh`). `SessionsAgree` follows from `Fresh`, and `LinesSettle`
  from `Held` at the commit. The rest of the work is in lemmas about the stages:
  which stage answers, and which tables, scopes and keys it reads.
* **Import.** `ImportIsSound`, `RetriesRepeatNothing`. `ImportInv`: a commit among
  its groups owns its batch, has counted its receipts and has only groups left
  that are not in them (`OwnsBatch`); what it keeps has no double in the batches
  that had ended when it began (`NoDouble`), which stays true because nobody
  writes to those; every commit that has begun finds a row for its batch
  (`SlotsOK`) and the revisions in flight fit the bound (`RevisionOK`), which are
  about the model's bounds.
* **Accounts.** `AccountsAreSound`, `TokenIsStable`, `SessionsDoHold`,
  `BootstrapIsHonest`. Sessions need that every password change lies behind the
  clock and that no session of the present password is older than its change;
  one account per invite that an invite which is gone was not used, since the
  janitor deletes only those; and the honest bootstrap (`TokenHeld`) that who
  makes a token has the lock and finds none held, that with users there is a setup
  on its way to clear it, and that without users there is no invite to join by. The
  theorem is about the token in memory, not about the row that a failed last
  write leaves.

Only model-checked: the liveness properties (`JobsEnd`, `ShutdownReturns`,
`QueuedIsRun`, `RunningEnds`, `Boots`, `DiskReclaimed`), which rest on fairness
and are out of the prover's reach. The disagreements of the code with
its own documents (Observations) are counterexamples, which TLC finds.

## Not modelled

* Prices, units, analytics: decimal arithmetic on single rows and read-only
  queries. Whether a price row exists is `Catalogue`'s.
* Model and provider clients, spreadsheet parsing, image processing: I/O and
  data. A caller sees a success, a rate limit or another error.
* Throttles, rate limits, metrics, the admin flag, mails, routing, TLS.
* `LinkListItem` (review.go:355-428): it may set a line's product with one
  UPDATE, which looks for neither the product nor a price row, and then checks an
  item of a list off and broadcasts it. The line's price row, if it has one, is
  left as it is, of the product the line was matched to before (the divergence
  `PricesFollow` already shows); the line itself stays, so the price rows keep
  the backing `RowsAreBacked` asks for. On a connection without foreign keys the
  line may name a product that is gone.
* In `Catalogue`: which store a receipt has, groups, images, links, unit
  conversions, nutrition; the states of suggestion rows (single updates). In
  `Matching`: amounts. In `ListLock`: everything of an item but that it is written.
* A torn slice header or map race in the import's shared session, which the Go
  memory model leaves undefined: reads and writes of it are taken as atomic.
* Files that a crash leaves between saving images and inserting the receipt:
  nothing refers to them.
* Windows, where the backup's file lock is a no-op.

## Plan

1. The relation of `Backups` and `StagedRestore`: that the files implement the one
   step by which `Backups` restores.
2. Suggestion rows and links in `Catalogue`, with the race of `DeleteLink` and
   `Accept`.
3. Stores of receipts, so that `PricesFollow` and its exceptions can be stated
   as a property that holds.
