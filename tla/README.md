# TLA+ model of the notification dispatcher

This directory holds TLA+ models of the dispatch engine of
`ricirt/event-driven-arch`, and the TLC configurations that check them. The
engine comprises:

- the in-memory priority queue;
- the worker pool;
- the retry and scheduled pollers;
- the intake and cancel paths of `NotificationService` and their HTTP handlers;
- the PostgreSQL repository and the in-memory mock the service tests use;
- the per-channel rate limiter and the webhook provider;
- graceful shutdown.

`PROJECT.json` lists every component, every run, the mutant of each checked
property, the source lines each definition models, the findings and the hazards.

## 1. Inventory

### Components, their state and their operations

| Component | Source | State | Operations |
|---|---|---|---|
| Notification rows (repository) | `internal/repository/mock_notification_repo.go` (pg part, lines 187-515), migration | one row per notification, with `status`, `retry_count`, `max_retries`, `next_retry_at`, `scheduled_at`, `idempotency_key` (UNIQUE), `batch_id`; a `batches` row holds the counters | `Create`, `GetByID`, `GetByIdempotencyKey`, `UpdateStatus`, `MarkSent`, `MarkFailed`, `ScheduleRetry`, `Cancel`, `FindDueRetries`, `FindDueScheduled`, `CreateBatch` (one transaction), `GetBatch`, `UpdateBatchCounts`, `List`. Each is a single SQL statement; every UPDATE is blind (`WHERE id = $1` only). |
| Priority queue | `unnamed/part_002` | three buffered channels: high 1000, normal 5000, low 2000 | `Enqueue` is non-blocking and returns `ErrQueueFull` when full. `Dequeue` first does a non-blocking receive on high, then a select over the three tiers and `ctx.Done()`. |
| Worker | `unnamed/part_005` | none between items; the fetched copy of the row while handling one | `Run`: loop over `Dequeue` and `process`. `process`: `GetByID`, skip if cancelled, `UpdateStatus(processing)`, `limiter.Wait`, `provider.Send`, then `MarkSent` (plus a batch-count goroutine) or `handleFailure`. `handleFailure`: `MarkFailed` if `retry_count >= max_retries`, else `ScheduleRetry(retry_count+1, now+backoff)`. |
| Worker pool | `unnamed/part_006` | 15 identical workers and a WaitGroup | `Start`, `Wait` |
| Retry poller / scheduled poller | `internal/worker/retry_worker.go`, `scheduler_worker.go` | a ticker | On each tick: the due-query (an error skips the tick), then for each row `Enqueue` (skipped if full) followed by a blind `UpdateStatus(queued)`. |
| Service | `unnamed/part_007` | none | `Create`: validate, idempotency lookup, build, insert, then `enqueue` (Enqueue followed by `UpdateStatus(queued)`). `CreateBatch`: insert in one transaction, then enqueue each row. `Cancel`: `GetByID`, a switch on status, then `repo.Cancel`. |
| Rate limiter, provider | `internal/provider/webhook.go` | one token bucket per channel | `Wait` takes a token, refilled at the rate up to a burst equal to the rate; it fails on a cancelled context, and on every call when the burst is 0. `Send` is an HTTP POST, and anything other than 202 is an error. |
| main | `unnamed/part_001` | the workers' context | start-up; on SIGTERM: `srv.Shutdown`, then `cancelWorkers()`, then `pool.Wait()` |
| HTTP handlers, middleware, config, metrics | `internal/api`, `internal/config`, `internal/metrics`, `part_004` | none | request decoding and error mapping; env parsing; counters |

### Interactions

- The service, the pollers and the workers share two things:
  - the store, through single-statement calls;
  - the queue, through channel send and receive.
- A queue item carries only the id and priority. The worker re-reads the row, so every decision is made on a copy that can be stale by the time it is written back.
- Intake and the pollers enqueue first and write `queued` afterwards. Cancel reads, decides, and writes in a separate statement.
- All background goroutines share `workerCtx`. Once it is cancelled, every repository call, limiter wait and provider call made with it fails.

### Hard behaviours

- **Interleavings over the store.** There are up to 15 workers, 2 pollers and any number of request handlers.
- **Blind writes.** Every status write can land after another actor's later write.
- **Repository errors.** Any repository call can fail, leaving a step half done. For example, a row is enqueued but not marked queued.
- **Shutdown.** The queue lives only in memory.
- **Timeouts.** The provider call can time out after the provider accepted.
- **Ticker-driven re-admission.** The pollers re-admit rows on every tick, and the queue's buffers are bounded.

### What makes each component correct

- **Row lifecycle (spec 3):**
  - sent and cancelled never change;
  - retry_count never decreases;
  - a cancel acknowledged with 204 stops further dispatch;
  - a row is permanently failed after max_retries + 1 attempts.
- **Worker and pollers:**
  - a row is never handled twice at once;
  - a row is delivered at most once;
  - retry_count counts provider failures;
  - every due row is eventually re-admitted;
- **Shutdown:** `pool.Wait` returns; no row is left in a status from which nothing re-admits it (spec 8.8).
- **Queue:** a high item is never passed over for a lower one when a consumer is ready (spec 4.1); FIFO within a tier, and a full tier refuses the item.
- **Intake:** one row per idempotency key, and a repeat returns that row (spec 8.2); a batch is all-or-nothing (spec 8.5).
- **Retries:** `next_retry_at` follows the backoff list (spec 8.3); a notification reaches the provider twice only after a lost reply.

## 2. Plan

Modules, most important first:

1. **`Dispatch`** (done). The row lifecycle driven by intake, cancel, the workers, the two pollers and shutdown/restart. This is where all the races between blind writes live.
2. **`PriorityQueue`** (done, section 4). The two-step `Dequeue` with several consumers and producers, checked against the abstract queue `PriorityQueueSpec` through `INSTANCE ... WITH` and a refinement mapping. FIFO tiers hold; the strict cross-tier contract of spec 4.1 does not.
3. **`Intake`** (done, section 5). Create with idempotency keys against a store with a UNIQUE constraint; CreateBatch as one transaction followed by the per-row enqueues; GetBatch; the batch counters refreshed by `UpdateBatchCounts`. Both repositories: PostgreSQL and the mock of the service tests.
4. **`Listing`** (done, section 6). `GET /notifications`: `parseListFilter`, `buildListWhere`, and the count and page statements of `List`, with a client walking the pages while rows are committed and moved on.
5. **`Delivery`** (done, section 7). One channel's send path over discrete time: the token bucket, `Send` with a reply that can be lost after the provider accepted, the backoff, the retry ticker and poll loop, and intake's status write. It is checked against spec 8.3's `next_retry_at` formula and spec 1's duplicate rule.

Abstract specifications worth stating:
- the queue contract (module 2);
- an abstract "row lifecycle" machine (spec 3's transition table), with `Dispatch` shown to refine it once the blind-write findings are set aside by a fixed variant (conditional UPDATEs).

## 3. The `Dispatch` module

### State

| Variable | Meaning in the code |
|---|---|
| `status`, `retryCount` | the row's `status` and `retry_count` columns; `"absent"` means before the INSERT |
| `nextRetry` | `next_retry_at`, abstracted to `"none"` (NULL), `"pending"` (in the future) or `"due"` |
| `schedDue` | whether `scheduled_at <= NOW()` |
| `queue` | the three channels, as sequences bounded by `Capacity` |
| `ipc` | where each notification's POST handler is |
| `cpc` | where each notification's DELETE handler is |
| `wpc`, `witem`, `wrc` | where each worker is, the id it dequeued, and the `retry_count` of the copy it fetched |
| `ppc`, `plist`, `pcur` | where each poller is, the rows its query returned and not yet handled, and the row it is about to mark |
| `phase` | `serving`, then `draining` after `srv.Shutdown`, then `stopped` after `cancelWorkers()` |
| `failures`, `deliveries`, `cancelAcked` | ghost variables: provider errors, provider acceptances, and DELETEs that returned 204 |

### Actions

Every repository call is one action, and between two calls any other actor can step:
- Intake: `Create`, `IntakeEnqueue`, `IntakeMarkQueued`.
- Cancel: `CancelRead`, `CancelWrite`.
- Worker: `DequeueHigh`, `DequeueSelect`, `Fetch`, `MarkProcessing`, `LimiterWait`, `Send`, `MarkSent`, `HandleFailure`.
- Pollers: `PollTick`, `PollEnqueue`, `PollMarkQueued`.
- Time: `RetryTimePasses`, `ScheduledTimePasses`.
- Process: `StopHTTP`, `CancelWorkers`, `Restart`.

Failure handling:
- **`RepoMayFail`.** When TRUE, every repository call can also fail.
- **A cancelled context** fails every call made with it. A call that fails takes the code's error path (return or continue).

Restart:
- **A restarted process** starts with an empty queue and the rows as persisted.

### Runs

| Run | Expect | Checks | Bounds |
|---|---|---|---|
| `safety` | pass | `AtMostOnceDelivery`, `NoDoubleDispatch`, `RetryCountTracksFailures` | 2 rows (one high immediate, one normal scheduled), 2 workers (symmetric), a DELETE for the immediate row, buffers of 1, `MaxRetries = 2`, no repository errors, no shutdown |
| `liveness` | pass | `DueRowsReadmitted`, `ShutdownCompletes` under `FairSpec` | 1 worker, no cancels, `MaxRetries = 2`, no repository errors, repeated SIGTERM and restart |
| `cancel` | violation | `CancelStopsDispatch` | finding 1 |
| `lost` | violation | `NoWorkLostOnShutdown` | finding 2 |
| `duplicate` | violation | `AtMostOnceDelivery` with repository errors | finding 3 |
| `budget` | violation | `RetryBudgetSpent` | finding 4 |

`DueRowsReadmitted` says that a failed row with retries left, and a scheduled row, eventually leaves that status, or the workers' context is cancelled first: the pollers run only while the process runs, and a restart does not re-admit those rows by itself. `ShutdownCompletes` says that once the workers' context is cancelled, `pool.Wait` returns. Both are checked in one run, so the shutdown steps are fair-scheduled alongside the pollers.

**Why these bounds are enough:**
- **`MaxRetries = 2` in `safety` and `liveness`.** This is the smallest value at which the retry poller ever finds a row. With 1, a failed row already has `retry_count = max_retries` (finding 4).
- **Two rows** give one row per poller, and two priorities.
- **Two workers** are enough for two copies of a row to be handled at once.
- **Buffers of one** make `ErrQueueFull` reachable.

**Ghost counters.** `AttemptBound` caps the ghost counters and does not guard any action. A row whose status write keeps failing is re-sent without end, so the counters saturate at the bound. The properties only compare them with values below it.

**Mutants.** Every property of a passing run has a mutant in `PROJECT.json`: a plausible bug in one mapped definition that TLC must then catch. Examples:
- a due-query without its status filter;
- ScheduleRetry without the `+1`;
- the budget test written with `>`;
- the worker loop continuing instead of returning on `!ok`.

### Findings (each a violation run)

1. **`part_005:90`.** The worker's check for cancelled and its write of `processing` are separate steps. A DELETE that returns 204 in between is overwritten, and the notification is sent. This contradicts spec 8.4 and scenario 7. The same property is also broken, without this race, by the intake's blind write (hazard below).
2. **`part_001:108`.** Shutdown drops the buffered items. Their rows stay `queued`, and no poller selects `queued` rows. This contradicts spec 8.8.
3. **`scheduler_worker.go:72`.** A failed `UpdateStatus(queued)` after Enqueue leaves the row due. It is enqueued again and delivered twice.
4. **`mock_notification_repo.go:345`.** `retry_count < max_retries` in the due-query means only `max_retries` attempts are made. The row stays failed with `next_retry_at` set, and `MarkFailed` is unreachable without duplicates. This contradicts spec 4.5 and scenario 5 (four attempts, then `next_retry_at = null`).

### Hazards seen while modelling, without a violation run of their own

- **`part_007:193` (same at `retry_worker.go:72`, `scheduler_worker.go:72`).** The write of `queued` after Enqueue is blind. A cancel, or a `MarkSent`, committed before it is overwritten, so cancelled becomes queued again. A poller's write landing after `MarkSent` moves sent to queued. Spec 3 invariant 5 says terminal statuses never change; spec 4.6 calls the race benign. The cancel case is caught by `CancelStopsDispatch` (the cancelled row is then sent). The write can also land after the worker failed the row and scheduled its retry: the row is then `queued` in no buffer and is never retried. Section 7 shows this trace in `Delivery`; no run checks it.
- **`part_005:157`.** ScheduleRetry writes the fetched copy's count plus one. With the duplicate copies of finding 3, an older copy can lower `retry_count`, against spec 3 invariant 6. Stale copies arise only with repository errors, and the runs with them are violation runs of other properties, so no run checks `retry_count` under them.

### Fairness

- **Weak fairness on:**
  - every worker's step (Go schedules runnable goroutines);
  - each poller's steps (the ticker keeps firing);
  - the second half of each in-flight request (intake enqueue and mark, and the cancel write);
  - time passing a stored timestamp;
  - `cancelWorkers()` once `srv.Shutdown` has returned.
- **Not assumed:** new requests, SIGTERM and restart.
- **`srv.Shutdown` is assumed to return after in-flight handlers finish.** That is, they finish within `SHUTDOWN_TIMEOUT`.

## 4. The `PriorityQueue` and `PriorityQueueSpec` modules

`PriorityQueueSpec` is what `internal/queue` promises (spec 4.1):
- three bounded FIFO tiers;
- `Enqueue` never blocks and refuses an item when its tier is full;
- a consumer takes the head of a non-empty tier in one atomic step;
- after cancellation, a consumer holding nothing may stop.

With the constant `Strict`, the consumer must take the high tier's head whenever that tier is non-empty.

`PriorityQueue` is the code (`src/unnamed/part_002`).

| Variable | Code |
|---|---|
| `queue` | the three buffered channels `high`, `normal` and `low` |
| `offered` | the items whose producer has called `Enqueue`, accepted or refused |
| `cpc`, `held` | each worker goroutine's position in `Run`/`Dequeue`, and the item it is processing |
| `closed` | the worker context is done (`cancelWorkers()`) |
| `taken` | ghost: the items received so far |

**Actions:**
- `Enqueue(i)`: the `select` with a `default` case, lines 38-64.
- `DequeueHigh(c)`: step 1, lines 78-82.
- `DequeueSelect(c)`: step 2, lines 85-94. It takes any ready channel, or returns false once ctx is done.
- `Process(c)`: `Worker.Run` handing the item to `process` and looping. Its effect on the store is modelled by `Dispatch`.
- `Cancel`: cancels the worker context.

The two steps of `Dequeue` are separate actions, so a producer can run between them. Each consumer has weak fairness, because Go schedules runnable goroutines. `Cancel` has no fairness.

**Refinement.** `absHeld` shows a worker's item only while it is busy. `absStopped` is the set of workers whose `Dequeue` returned false. Two instances of the abstract module take these mappings:
- `Fifo`, with `Strict <- FALSE`;
- `Strict`, with `Strict <- TRUE`.

| Run | Checks | Result |
|---|---|---|
| `pq_fifo` | `QueueRefinesFifo`, `AcceptedItemsTaken` under `FairSpec` | pass, 11,888 states |
| `pq_priority` | `QueueRefinesStrict` | violated in 5 steps |

**Bounds.** The model has:
- two workers;
- two high, two normal and one low item;
- a high buffer of 2, so FIFO order within a tier is visible;
- normal and low buffers of 1, so `ErrQueueFull` happens.

That is enough for one worker to sit between the two steps while the other worker and the producers move.

`CHECK_DEADLOCK FALSE` is justified here. Once every item is offered and taken and the context is cancelled, every worker has returned, and the process really does stop.

**Finding 5 (`part_002:85`).** The trace:
1. A worker finds high empty in step 1.
2. A producer enqueues a high item.
3. The select, which picks uniformly among ready cases, returns the waiting normal item.

This contradicts the comment on `PriorityQueue` ("guarantees that high-priority items are always served before normal or low ones"). It also contradicts spec 4.1's contract, which the spec offers this very two-step scheme to implement. The window is one scheduling gap per `Dequeue`, and no unit test exercises it: `TestPriorityQueue_HighBeforeNormal` enqueues both items before dequeuing.

## 5. The `Intake` module

`Intake.tla` models the three request paths that create and read rows, against either repository:
- `POST /notifications` runs `NotificationHandler.Create`, then `NotificationService.Create`;
- `POST /notifications/batch` runs `BatchHandler.CreateBatch`, then `NotificationService.CreateBatch`;
- `GET /batches/{id}` runs `BatchHandler.GetBatch`, then `repo.GetBatch`.

`store` is chosen in `Init`. It is `"pg"` for `pgNotificationRepository` or `"mock"` for `MockNotificationRepository`; both live in `mock_notification_repo.go`. The `Repo*` operators are the `NotificationRepository` interface: each sends a call to the implementation in use.

**State.**
- `status`: the committed status of each row, or `Absent`.
- `batchRow`: the committed `batches` row with its counters.
- `queue`: one bounded channel.
- Per request, a program counter, plus the row it answered and its HTTP code (`cres`, `bres`, `gres`).
- `txn`: the children a batch's open transaction has inserted. They are invisible to others until the commit.
- The worker: `wpc`, `witem`.
- Per sent row, the counter-refresh goroutine: `rpc`, plus `rsnap`, the snapshot its UPDATE read.

**Repository calls.** Each call is an operator that returns the set of outcomes it may have:
- a row or status;
- `"NotFound"`;
- `"Conflict"`;
- `"Internal"` for any other error, whenever `RepoMayFail` holds.

**Errors and answers.** The mock's test overrides (`CreateErr`, `GetByIDErr`, `GetByIdempotencyKeyErr`) are the failure outcomes of its calls. Its other calls never fail. `MapError` and the `*Answer` operators turn an outcome into the handler's HTTP code.

**Actions.** Each action is one repository call, with the local code around it:
- `CreateLookup`: `GetByIdempotencyKey`. An existing row is answered with 200.
- `CreateInsert`: `repo.Create`. A UNIQUE conflict gives 409; any other error gives 500.
- `CreateEnqueue`: the queue's send. On `ErrQueueFull` the row stays pending and the answer is still 201.
- `CreateMark`: the blind `UpdateStatus(queued)`.
- `BatchValidate`: the size checks; an empty or over-limit batch gives 422.
- The pg transaction: `PgBegin`, `PgInsertBatch`, `PgInsertChild` (once per child) and `PgCommit`. Any of them may fail. `TxAborts` is the deferred `Rollback`.
- `MockCreateBatch`: one critical section that never fails.
- `BatchEnqueue` and `BatchMark`: the loop that enqueues each child without `scheduled_at`.
- `MockGetBatch`: one `RLock`.
- `PgGetBatchRow` and `PgGetBatchChildren`: two queries outside a transaction.
- `WorkerTake`, `WorkerFetch` and `WorkerSend`: `Worker.process`, coarser than in `Dispatch`. It has the three repository calls, and on a successful `MarkSent` of a batch child it starts `go UpdateBatchCounts`.
- `PgRefreshRead` and `PgRefreshWrite`: the refresh UPDATE. Its subqueries count in the snapshot the statement starts with, and the row is written afterwards. Under PostgreSQL's READ COMMITTED, a concurrent UPDATE of the same row delays the write but does not retake the snapshot.
- `MockUpdateBatchCounts`: a no-op.

**Runs.**

| run | expect | properties | bounds |
|---|---|---|---|
| `intake` | pass | `OneRowPerKey`, `IdempotentAnswers`, `BatchAllOrNothing` | 3 POSTs (two share key `k1`, one has none), a batch of 2 with one scheduled child, an empty batch, a batch over `BatchLimit = 2`, a GET of the batch, a queue of 1, every call may fail, both stores; symmetry of the two keyed POSTs |
| `counters` | violation | `BatchCountersConverge` (under `FairSpec`) | the batch of 2 alone, pg, no failures |

- **`OneRowPerKey`.** Two POSTs with one key can both miss the lookup. Only the store's uniqueness check at the insert keeps out a second row. The mutant is a table without `UNIQUE`.
- **`IdempotentAnswers`.** Each 200 or 201 names the stored row holding the key, and all of them name the same row. A 409 is given only when another request's row holds the key. The mutant is `pgNotificationRepository.Create` taking every insert error for a conflict: a failing connection would then answer 409.
- **`BatchAllOrNothing`.** The stored batch row and its children appear together, and a 201 means they are stored. A GET that answers 200 lists as many children as the batch's total, although its two queries are not in one transaction. The mutant is a child INSERT error logged and skipped: the commit then publishes a batch missing a child.

**Bounds.** The two keyed POSTs make the lookup/insert race happen. A queue of one makes `ErrQueueFull` happen on both paths. The scheduled child exercises the enqueue loop's skip. `BatchLimit = 2` stands in for 1000: only the comparison matters, not the number. The rejected batches take one step that touches only their own `bpc` and `bres`. That step commutes with every other, so the constraint `MCRejectedFirst` explores only the orders in which they answer first. This divides the state space by four (948k states, about one minute).

**Fairness** (for `counters`):
- weak fairness per request goroutine, for the worker, and per refresh goroutine;
- Go runs every runnable goroutine;
- the finite set of requests lets the system go quiet.

**Finding 6 (`part_005:121`).**
- **What the code does.** The worker refreshes a batch's counters only after a successful `MarkSent`.
- **The trace.** Child 1 fails at the provider, and `ScheduleRetry` sets it `failed`. No refresh runs, so the batch row keeps `pending = 2` while the children count `pending 1, failed 1`.
- **It does not heal.** The same holds for a child cancelled, or failed for good after its retries, with no later send in the batch.
- **The spec.** Spec 4.5 and 5 promise counters that are eventually consistent, healed by the next refresh.
- **The stale snapshot.** Two refreshes racing can also commit the older snapshot last. `Intake` has the two steps of the refresh, but this run has one worker and one sendable child, so only one refresh ever runs: the race is reachable in the model and not checked by any run.

**Hazards Intake reaches without a property.** `CreateEnqueue` and `BatchEnqueue` swallow `ErrQueueFull`: the row stays `pending`, and the client gets 201. The comment on `enqueue` says so. Spec 7 says `QueueFull` is surfaced as a 503. No poller re-admits a pending row, so such a row is never dispatched. `NoWorkLostOnShutdown` shows the same stranding for shutdown.

## 6. The `Listing` module

`GET /api/v1/notifications` goes through `NotificationHandler.List`
(`parseListFilter`, `health_handler.go:116-179`), `NotificationService.List`
(a pass-through), and `pgNotificationRepository.List`
(`mock_notification_repo.go:259-298`, with `buildListWhere` at 484-515).

**State.**
- `status`: each row's committed status, or `Absent` before its INSERT commits.
- `lpc`: the client, which is `idle`, has a count or a page statement in flight, or is `done`.
- `query`, `pageNo`: the query string of the walk and the page asked for.
- `total`: the result of the current request's count statement.
- `got`: the rows received so far.
- `code`: the status of the last answer.
- Two ghosts. `matched` is the rows the last page statement's WHERE selected. `quiet` says nothing was written since the walk began.

**Actions.**
- `Commit(c)`: one INSERT transaction. It is either a single Create or all children of a CreateBatch. The children share one `created_at` (`part_007:84-93`).
- `Settle(r)`: the dispatch path's `UpdateStatus(queued)`, then `MarkSent`.
- `StartWalk(q)`: the client's first request.
- `ListCount`: the count statement. It answers 500 on a repository error, or when `status` or `channel` is not a label of its enum type. The migration declares both columns as enums, so `?status=bogus` fails the cast and is a 500, not an empty page.
- `ListPage`: the page statement. `NewestFirst` is every order of the matching rows in which `created_at` does not increase; ties come in any order. `Slice` is `LIMIT`/`OFFSET` of that order. The client asks for the next page while `page * limit < total`, as the answer's `total` invites it to.

**Helpers.** `ListFilter` and `ParseTime` are `parseListFilter`: page and limit fall back to 1 and the default, and an unparsable `from` or `to` is dropped. `Matches` and `Where` are `buildListWhere`. `Offset` is `(page-1)*limit`.

**Run `list_ties` (violation, `PagesPartition`).**
- **Instance.** A batch of two children with equal `created_at` (`x1`, `x2`), one later row, `?limit=1`, with and without `status=pending`. `DefaultLimit` and `MaxLimit` are scaled from 20 and 100 to 2 and 3, and no repository errors are modelled.
- **Property.** A walk completed with nothing written gets every matching row exactly once.
- **Result.** TLC finds the batch committed, page 1 returning `x1`, and page 2 returning `x1` again; `x2` is never seen.

**Finding 7 (`mock_notification_repo.go:281`).** `ORDER BY created_at DESC` has no unique tie-breaker. Every batch has equal keys, and SQL leaves their order to the executor, so consecutive pages can overlap and leave gaps. Adding `, id DESC` would fix it.

**Hazard reached without a property.** The count and the page are separate statements, each its own snapshot. A commit between them makes `total` disagree with the page, so a client that stops at `page * limit >= total` can miss a row. Spec 4.2 promises nothing about pages under concurrent writes, so `PagesPartition` is stated only for walks with no write.

**Not modelled.** The mock's `List` ignores the filter and the pagination and returns every row. Only the service tests use it.

## 7. The `Delivery` module

`Delivery` follows one channel's rows through `Worker.process` from the
dequeue to the settle, with time passing. It covers:
- the channel's token bucket (`ratelimiter.New` and `Wait`, `webhook.go:86-105`);
- `WebhookProvider.Send` and its client timeout;
- `handleFailure`'s backoff (`part_005:142-161`);
- the `RetryWorker`'s ticker and due-query (`retry_worker.go`, and `FindDueRetries` at `mock_notification_repo.go:337`).

The status-write races, cancels, repository errors and shutdown are left to `Dispatch`.

**Time.**
- `Tick` is one second.
- Every timestamp is kept as a countdown relative to now:
  - `retryIn` is `next_retry_at - now`;
  - `wnext` is the worker's local `nextRetry`;
  - `tickIn` is the time to the next ticker fire.
- A countdown stops at 0, which is `<= NOW()`. So the state space is finite without a clock bound or a state constraint, and the liveness check sees whole behaviours.
- `Tick` also refills the bucket by the rate, capped at the burst. It fires the ticker every `RetryInterval`; `ticker.C` holds one tick and drops the rest. `x/time/rate` refills continuously and `Wait` reserves tokens in call order; the model refills in whole seconds and lets waiting workers race for a token. No property of the run is about the limiter's rate, so this abstraction decides nothing that is checked.

**State.**
- The rows' `status`, `retry_count` and `retryIn`.
- The tier's buffer `queue`.
- `tokens`.
- For each worker: its control point `wpc`, its item, the `retry_count` of its fetched copy, and `wnext`.
- The status writes still owed: `intakeWrite` (rows whose create handler has enqueued them and not yet written `queued`), and the poller's `pollRows` (the rest of its query result) and `pollWrite` (the row whose `UpdateStatus(queued)` follows its Enqueue).
- Ghosts:
  - per row, `deliveries` (accepted by the provider) and `lost` (accepted, but the reply never reached the client);
  - `errAgo`: the seconds since the row's latest failed send.

**Actions.**
- `Init`: every row inserted `pending` and enqueued by intake, its `UpdateStatus(queued)` still to come.
- `IntakeMarkQueued`: that write (`part_007:193`), unconditional.
- `Dequeue`: the dequeue, `GetByID` and `UpdateStatus(processing)`.
- `LimiterWait`: takes a token and puts the request on the wire.
- `Send` has three outcomes:
  - 202 with a decodable body;
  - a failure the provider never accepted;
  - with `ReplyMayBeLost`, a request the provider accepted while the client saw a timeout or an undecodable body.

  A failure computes `nextRetry = now + B[index]` at once, as `handleFailure` does before its write.
- `MarkSent`.
- `HandleFailure`: `MarkFailed`, or `ScheduleRetry` with the value computed at the failure, so time may pass before the write.
- The retry poller, one step per statement of `poll`: `PollQuery` takes a buffered tick and runs `FindDueRetries` (the rows in any order); `PollEnqueue` enqueues the next row or skips it on a full buffer; `PollMarkQueued` writes `queued` unconditionally (`retry_worker.go:72`).
- `Tick`.

**Run `delivery` (pass):** `RetryAtFollowsBackoff` and `DuplicatesOnlyAfterLostReply` under `Spec`.
- **Instance.** 2 rows, 2 workers, 1 token per second (burst 1), `Backoff = <<1, 2, 3>>`, `MaxRetries = 3`, `RetryInterval = 1`, replies that can be lost. There are 3,938,392 distinct states, checked in about 70 s.
- **Why these bounds.** The defaults are 5 s, 30 s and 120 s of backoff and a 10 s interval. They are scaled down, keeping three entries as `config.go:69-73` always builds them, so that retries come back while the other row's writes are still owed. With `MaxRetries = 3` the index never passes the last entry: the clamp at `part_005:151-154` is dead code in every configuration the program can have.
- **What it shows:**
  - `next_retry_at` is the error time plus `B[k]` for the k-th retry: the entry indexed by the fetched `retry_count`, before the increment. Indexing by the attempt number (one more) breaks it.
  - A notification reaches the provider twice only after a lost reply. This is the duplicate spec 1 accepts by making exactly-once a non-goal. The late status writes of intake and the poller do not add one. A due-query without `status = 'failed'` would re-send sent rows, because `MarkSent` leaves `next_retry_at` set.

**A liveness result without a run.** Under `FairSpec` (weak fairness on each worker, the poller, each create handler and `Tick`: Go schedules runnable goroutines, the ticker keeps firing, time passes) TLC finds `DueRetryReachesWorker` violated: a row that failed with retries left is not always taken by a worker again. The trace: a worker takes row 1 before its create handler has written `queued`; the send fails and `ScheduleRetry` makes it `failed`; the handler's write then lands, and the row is `queued` in no buffer. Neither poller selects `queued` rows, so the retry is never made, against spec 4.5. The poller's own write at `retry_worker.go:72` strands a row the same way after its re-enqueue. Spec 4.6 calls this race benign. The property stays in the module with that note; the project's twelve runs leave no slot for a violation run of it, so the hazards at `retry_worker.go:72` and `scheduler_worker.go:72` record it.

**Hazard without a run.** `RATE_LIMIT_PER_CHANNEL=0` is accepted by `getInt`. It gives a limiter with burst 0, whose `Wait` fails at once on every call. `process` treats any `Wait` error as shutdown (the comment at `webhook.go:102` says it fails only on a cancelled context), so every row is left `processing`. `Delivery` assumes a rate of at least 1.

## 8. Not modelled, and why

- **HTTP decoding, routing, validation, logging, correlation ids and metrics.** They carry no state that any other step reads.
- **`GetByID` over HTTP and the health endpoint.** They are read-only and have no paging.
- **Configuration.** It is environment parsing; its values are the model constants. One value matters beyond that: `getInt` accepts `RATE_LIMIT_PER_CHANNEL=0` (see section 7).
- **Type invariants.** Each module defines `TypeOK`, but no run checks one: in this code a buffered channel cannot exceed its capacity and the library's bucket cannot exceed its burst, so a type invariant would only restate a guard. The repository-error branches of `Dispatch` are explored by the `cancel` and `duplicate` runs.
- **Repository errors in `Delivery`.** They belong to `Dispatch`, where every call can fail.
