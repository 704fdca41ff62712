# Arvel in TLA+

Arvel is an asynchronous Python web framework: a service container, an ORM over
SQLAlchemy, an HTTP kernel, queues, a scheduler, caches, events and adapters to
mail, files, search and broadcasting. Half of it is data conversion within one
call. What is hard to test is where tasks and processes share state that outlives
them: tables, the broker, the cache and its locks, the transaction buffer, sessions
and tokens; and where one task's steps can fail, raise or be overtaken at every
await. This project specifies that part, model-checks it on small instances and
proves the main safety properties of its core for all of them. Paths below are
relative to the repository's `src/arvel/`.

## Inventory

| Part | State | Operations | Why it is hard | Correct means |
|---|---|---|---|---|
| Durable jobs table, `queue/__init__.py` `DurableJobs`, `queue/jobs.py` | rows with `available_at`, `reserved_at`, `reserved_until` | `store`, `_reclaim_stuck`, `release_due` | several workers run the same loop over the same rows; every statement is an await; a worker may die between push and delete; whole-second clock | nothing lost, a claim is a lease, duplicates only after a visibility timeout, not released early, every decodable job delivered |
| Worker, `queue/worker.py` | the message it runs, its attempt | receive, run, retry, defer, park, give up, chain, unlock | two retry strategies; what an exception skips; death in the middle | attempts bounded by the budget, nothing dropped, one end per job |
| Chains, failed and unique jobs, `queue/failed.py`, `queue/middleware.py` | links in the payload, `failed_jobs` rows, a cache lock per class and id | dispatch, next link, manual retry, lock and release | redelivery around the hand-over; the lock's owner is not the one that frees it | link N+1 only after N; at most one in flight; the slot is freed |
| Batches, `queue/batch.py` | a `job_batches` row | create, push, settle, cancel, finish, callbacks | members settle at once; counters and flags are separate statements; redelivery counts twice | each callback at most once, finish on the last outcome, always finish |
| Scheduler, `queue/scheduler.py` | one-server claims and overlap locks | due, run, hooks | several servers tick at once; a hook that raises; a clock set back | one run per minute; locks belong to runs in flight |
| Transactions, `database/connections.py` | the open connection and the after-commit buffer of a context | begin, savepoint, commit, roll back, defer, replay, retry | nesting, failures while replaying, tasks that inherit the buffer | deferred work runs iff its round committed, once, in order |
| Events, `events/dispatcher.py` | listeners, pushed events, the buffer | dispatch, `until`, push, flush, forget | listeners come and go while an event is heard; deferral; raising listeners | each event heard once, in order, only of what committed |
| Cache, locks, limiter, `cache/`, `http/rate_limiter.py`, `queue/middleware.py` | entries with TTL, tags' sets, counters, locks with owners | remember, flexible, tags, hit, lock, refresh, release, flush | background refresh, guards that expire, several calls per operation | bounded staleness, tags that know their entries, counters that decay, leases |
| Models and relations, `database/model.py`, `relations.py` | rows, stale instances with their originals, pivot rows | save, increment, delete, restore; sync, attach, toggle; lazy and eager reads | instances go stale; several statements per call; the same relation computed in five ways | untouched columns survive; kept pivot rows survive; all ways relate the same rows |
| Builder and pagination, `database/builder.py` | a cursor into a changing table | `chunk`, `chunk_by_id`, `lazy`, `cursor_paginate` | rows come and go between pages | no row twice, none left out |
| Migrations, `database/migrations.py`, `console/migrate.py` | the log, the tables, the files | migrate, rollback, refresh, fresh, wipe | two deployments at once, missing files, failures midway | nothing applied twice, the log names what is in effect |
| Search, `search/__init__.py` | a row and its document | model hooks, import, flush, queries | the document is written before the COMMIT, from an instance | a search finds what the table has |
| Sessions, `http/middleware.py` `StartSession`, `http/session.py` | the stored session, a request's copy | load, flash, keep, rotate, two saves | the second save comes after the response | what was put is found by the next request, flashes exactly by one |
| Logins, `auth/refresh.py`, `auth/remember.py` | token rows, cookie | issue, exchange, revoke, recall, rotate | requests of one user overlap; death between claim and issue | one successor per token |
| Who acts, `auth/guards.py`, `sessions.py`, `impersonation.py`, `two_factor.py` | a generation per user, stamps in sessions | log in and out, sign out others, impersonate, challenge | other browsers' requests interleave at every await | the intended browsers are signed out, no others; the actor is who logged in |
| Request pipeline, `http/kernel.py`, `binding.py`, `maintenance.py`, `http/exceptions.py` | context variables, the maintenance flag, the report window | bind, run middleware, destination, unwind, terminate, render, report | order of the parts; exceptions at each; state read in two awaits | answers depend only on what let the request through; context restored; reported once |
| Validation, `validation/__init__.py` | errors of a pass, fields to exclude | both passes, `validated()` | modifiers interact; custom and database rules are deferred | accept iff every applicable rule holds |
| Feature flags, `features/__init__.py` | stored values, per-task memo | value, activate, forget, purge | resolution races an override | an override sticks |
| Notifications and mail, `notifications/__init__.py`, `mail/__init__.py` | a job per channel, failover mailers | send, retry, fail over | errors after the message is out | once per channel, unless an error came late |
| WebSocket relay, `routing/broadcast_relay.py` | a task per channel, one outbox | subscribe, relay, leave | tasks that fail, a browser that leaves | frames in order, no task left behind |
| HTTP client, `client/__init__.py` | slots of a pool, attempts | pool, retry | concurrency, cancellation, hooks that raise | a slot is its request's last attempt; retries as asked |
| Media, `media/library.py` | a row and the files it names | upload, convert, clean up, delete | disk and table fail apart; tasks are cancelled | no orphans |
| Resources and lifecycle, `kernel/resources.py`, `application.py`, `bootstrap.py` | connected resources, boot state | start up, check, shut down, terminate | overlapping callers, failing starts and hooks, signals | serve only with what is critical; what was connected is disconnected |
| Container, `kernel/container.py` | bindings, the shared instance, copies per scope | bind, make, extend, forget | long sequences of legal calls; nested scopes | make returns what the present binding says |
| Configuration, routing, request and response, gates, oauth, console, views, localization, support, testing | per call or per process | look-ups, conversion, I/O | sequential; reached by unit tests | not modelled |

How they interact. `Job.dispatch` takes the unique slot (cache) and pushes to the
broker; `dispatch_after`, a retry and a deferral store a row; the release loop of
each worker pushes due rows; the worker runs a message, pushes the next link, applies
the outcome to its batch and frees the slot. A transaction holds events, dispatches
and notifications back until its commit. The scheduler, the job middleware, the
limiter, sessions, the maintenance flag and generations all live in the cache, of
which on redis `flush()` empties with all its locks. The kernel starts a session, authenticates, binds
models, validates; the resource manager stands under all of it.

## Plan

Order of the modules, most important first.

1. `DelayedDelivery` (abstract), `DurableJobs`, `JobBatch`, `JobWorker`: specified,
   checked and their safety properties proved.
2. `AfterCommit` (abstract), `Transactions`; `CacheLocks`, `Scheduler`, `Flexible`,
   `TaggedCache`, `Counters` composed in `Cache`: specified, checked and their safety
   properties proved.
3. The database (`Records`, `Pivot`, `Relations`, `Query`, `SearchIndex`,
   `Migrations`) and the application around it (`Sessions`, `Logins`, `Identities`,
   `Features`, `Lifecycle`, `Container`, `Media`, `Events`, `Delivery`, `Relay`,
   `HttpClient`, `Pipeline`, `Validation`, `Working`), composed in `Application`: specified
   checked and proved.
4. Of `Application`, `DoneAsAsked`, `KeptForNext`, `ServicesRight`, `ReadAsWritten` and
   `WorkedOff` and `TypeOK` are proved.
5. Left to model: the activity log (`activitylog/`), whose observers compare snapshots
   of stale instances, and the process pool (`support/process.py`).

Composition: `JobWorker` relies on the jobs table only through what
`DelayedDelivery` promises (a row is pushed at least once); `JobBatch` relies on
the worker only through "a member ends, as a success or a failure, once per
delivery". `Events` and `Delivery` rely on the transaction only through what
`AfterCommit` promises. `Scheduler` runs over the lock table of `CacheLocks`. Running
the three queue modules side by side is beyond TLC.

## Modules

### DelayedDelivery

What a dispatcher may rely on: a job is accepted, ripens when its delay is over, is
delivered only when ripe, any number of times, and stops being owed only once
delivered. No table, no workers, no clock.

### DurableJobs

`rows`, `availableAt`, `reservedAt` and `reservedUntil` are the table. A worker
(`pc`, `moment`, `stuck`, `due`, `cur`) is at one await of `release_due`:

| Action | Code in `queue/__init__.py` |
|---|---|
| `Store` | `store`: `available_at = int(time.time()) + ceil(delay)` |
| `StartPass` | `moment = int(time.time())` |
| `ReadOverdue`, `FreeOverdue` | `_reclaim_stuck`: select the rows past their deadline, free each if its deadline is unchanged |
| `ReadLegacy`, `FreeLegacy` | the same for rows reserved before `reserved_until` existed |
| `SelectDue` | the due, unreserved rows, of the worker's queues |
| `Claim` | `UPDATE ... WHERE reserved_at IS NULL`, in priority order; a lost race skips the row |
| `ParkPoison` | the payload cannot be decoded: the row stays reserved |
| `Refine` | the job class's own `retry_after` replaces the default window |
| `Push`, `Delete` | `push_instance`, then `row.delete()` |
| `EndPass` | the loop ends |
| `Abandon` | the process dies, or a statement or the broker raises and `_release_loop` swallows it |
| `Tick` | time, in parts of a second (`SubSecond`) |

The clock is finer than the columns, because the code truncates the time and
rounds the delay up. `Delete` goes by id: a worker that was overtaken deletes a row
somebody else has claimed; `NoJobLost` says why that is safe.

### JobBatch

One batch. `pending`, `failed`, `cancelled` and `finished` are the row's columns;
`pc[j]` is where the worker that runs member `j` is, one label per statement of
`apply_job_outcome`. `Execute` stands for all attempts of the member. `Record` is
the atomic `UPDATE`, `Reread` the separate `SELECT`, `CancelOnce` and `FinishOnce`
the guarded `UPDATE`s that only one worker wins. `CheckCancelled` reads the
cancellation again, in a statement of its own, and `RunThen` runs what was due when it
was read, whoever has cancelled the batch and run `catch` in between. So `catch` bars
`then` only when the batch was cancelled before the last settle stamped it finished
(`NoThenIfCancelledFirst`). The environment may cancel (`UserCancel`), redeliver a member
(amqp), lose it (redis lists and the memory broker do not acknowledge), retry a
failed one, refuse a push, or raise in a callback.

A member is in one place at a time: a second delivery starts when the first has
ended or died, so two workers running the same member at once are not covered, nor
is a manual retry while the failing worker is still applying its outcome.

### JobWorker

Any number of jobs, some linked in chains, some unique. `broker` and `rows` are bags of
messages, a message being a job with the attempts it carries; `dead` counts
`failed_jobs` rows; `pc`, `taken` and `attempt` are the workers. `bound`, chosen at
the start, says whether a database is bound, on which the code's two retry
strategies depend.

| Action | Code |
|---|---|
| `AcquireSlot`, `Enqueue`, `EnqueueLater`, `EnqueueRaises` | `QueueManager.push`, `push_instance`, `Job.dispatch_after` |
| `Receive`, `Park` | `_invoke_body`: the queue filter and the durable park |
| `Succeed`, `Throw`, `ShouldStop` | `run_job_with_retries`, `_retry_should_stop` (`tries`, `max_exceptions`, `retry_until`, `fail_on_timeout`) |
| `Retry` | `_release_for_retry`, or the inline loop's next round |
| `Defer`, `PutBack` | `JobShouldBeReleased` and `_release_job` |
| `FailedHook`, `RecordFailed`, `ChainCatch` | `_give_up` and `_on_exhausted` |
| `NextLink`, `ReleaseUnique` | `_on_success` |
| `ReleaseRow`, `ReleaseRowTwice` | the jobs table, as `DelayedDelivery` promises |
| `RetryFailed` | `FailedJob.retry` |
| `Die`, `StepRaises`, `SlotExpires`, `BecomeLate` | the environment |

A job is one instance in one queue call. `Line(chain, k)` says that `chain` are the jobs that
lead to `k`. `ChainsAssumption`: a link is not dispatched as well, is the link of one job, and
chains do not close on themselves, as `PendingChain` (`queue/__init__.py`) puts each of its jobs
into the payload of the one before.

`broken` records that a message was lost or that an exception left a handler: the
code then promises nothing about that job, and the properties say so. The docstring of
`JobWorker.work` says a job of an unserved queue "is dropped without running"; the
code parks it, or runs it when there is no database, and so does the model.

### AfterCommit and Transactions

`AfterCommit` is what code that defers work to a commit may rely on: `phase` of a round,
`pending` and `delivered` work. Work is delivered only after its round committed, in the
order it was deferred, each piece once; only the end of the caller itself may leave it
undelivered. `Transactions` implements it: one caller of `ConnectionResolver.transact`
(`database/connections.py`) with `frames` (the rows written in each open block), `stored`
(committed rows) and `buffer` (`_ac_buffer`). `Helpers` are tasks started in the block: they
copy its context, so they keep its connection and buffer for as long as they live.

| Action | Code |
|---|---|
| `Begin`, `OpenSavepoint`, `ReleaseSavepoint`, `RollbackSavepoint`, `Rollback`, `Commit`, `CommitFails` | `ConnectionResolver.transaction` within `Dispatcher.transaction` (`events/dispatcher.py`) |
| `Defer`, `HelperDefer`, `HelperDeferLate` | `Dispatcher.after_commit` and what else goes into the buffer; late is after the replay, when nobody reads the list |
| `Replay`, `ReplayEnds`, `ReplayCancelled` | the loop over the buffer, that also meets what is appended while it runs; an error is kept and raised at the end |
| `Settle` | `transact`: a transient error starts the next attempt, also one that came from the replay |
| `Crash`, `Start`, `HelperWrite` | the environment |

`ImplementsAfterCommit` is the refinement; `DoneInTheEnd` says of it that what is owed is
delivered, unless the transaction was killed or cancelled (`Abandoned`), and
`CommitsAgainOnlyAfterLateError` when a block can be committed twice.

### CacheStore, CacheLocks, Flexible, TaggedCache, Counters, Cache

`CacheStore` is `entries` and the clock `now` they expire by; each call on the client is one step,
and every operation of the modules above it is as many steps as it makes calls.

- `CacheLocks` (`_ArrayLockStore`, `CacheLock`, `WithoutOverlapping`): `locks` maps a name to
  who holds it and until when, `client` is where each user of `lock.get`, `block` or `async
  with` is. `Acquire`, `Refused`, `LockTimeout`, `Refresh`, `Release` are the owner-checked
  scripts; `ForceRelease` and `Die` the rest. `lease` is the time a holder was granted, which
  ends at once when the lock is released by force or flushed. `LeaseHonoured`: who is within it
  still has the lock, so nobody else is in.
- `Flexible` (`CacheRepository.flexible`): `ServeStale` and `Miss` by age, `Store` after the
  callback, `RevalidateOnce` with its guard key, `RefreshStores`, `RefreshRaises`, `RefreshEnds`
  of the background task. `SingleFlight` and `BoundedStaleness`.
- `TaggedCache`: `members` are the tags' sets; `Call` begins put, add, forget, flush or prune,
  and each call on the client is `Register`, `StorePut`, `Unregister`, `ForgetEntry`, `Pop`,
  `FlushDelete`, `PruneCheck`. `TagsKnowTheirEntries`: an entry at rest is in all its tags' sets,
  unless a put raced with its removal.
- `Counters`: the limiter's `hit_with_ttl` in one step; `too_many_attempts`, the work, `hit` and
  the expiry in four, as `ThrottlesExceptions` does (`Check`, `Work`, `Hit`, `Arm`).
  `CountersExpire`, `WithinLimit`.
- `Cache` puts them over one store; `Flush` empties it under all of them. On redis (`Driver`),
  where the locks and the claims of the scheduler are keys of the same database, it drops them
  too (`FlushLocks`), under whoever holds them; the array store keeps them elsewhere. `flushes`
  counts those (`MaxFlushes` bounds them), and a claim notes the count it was taken at. The runs
  take redis, the theorems either driver. `KeysAssumption`: a key has one use (the
  code leaves that to its callers) and no entry is `Null`, which stands for a missing one.

### Scheduler

`Schedule.run_due` on several servers over `CacheLocks`. `minute[k]` is the minute a tick runs
for, `pc[r]` where the run of a task by a tick is. `Claim` takes the one-server claim and keeps
it, `Lock` the overlap lock; `Callback`, `BeforeRaises`, `AfterRaises` and `Finish` are
`ScheduledEvent.run` with its hooks: an exception in an after hook skips the release. `Down` is
the maintenance check. `Identity` is what `_identity` names a task by. Clocks of servers differ
by `Skew`, and `Wall` may be set back. `OncePerMinute`, where no flush came between the two
claims, and `LockedMeansInFlight`; `LosesOnlyToItself` is violated (below).

### Records, Pivot, Relations

- `Records`: one row; `attrs[i]` and `orig[i]` of each stale instance. `Save` writes the
  dirty columns only (`get_dirty`); `Increment` is `hits = hits + 1` in the database; `SetTrashed`
  is delete and restore of soft deletes. `NothingClobbered`: the row has what the last
  assigner saved, and counts every increment.
- `Pivot`: `StartEdit` reads the attached ids for `sync`, `sync_without_detaching` or `toggle`,
  `EditNext` is one statement for one id, `EditEnds` an exception or the end. `LinksKept`. Calls that
  race leave two rows of one id, which the tables may hold at the start: `_attached_rows` then knows
  one of the two (`UpdateExisting`), so a later call that gives the note this one has leaves the
  other as it is. The part of `LinksKept` about notes says so (`Single`).
- `Relations`: tables of parents, children (with an owner, for has-many, or an owner's type,
  for morphs), a third table, pivot rows as a bag and a tree. Reading is pure, so each way is an
  operator: lazy (`HasManyGet`, `BelongsToGet`, `MorphToGet`, `PivotGet`, `ThroughGet`, `Reached`),
  eager (`...Eager`, with `Grouped` handing a batch's rows to their parents), counted or tested
  (`Correlated`, `PivotExists`, `PivotCount`, `ThroughCorrelated`). The actions are the writes
  through relations (`CreateChild`, `MoveChild`, `Link`, `Unlink`, `DeleteThroughHasMany`,
  `DeleteThroughPivot`) and the caller's own. `RelationsAgree` compares the ways in every
  reachable state of the tables.

### Query

It is one `Builder` that two tasks hold: `wheres` is `_wheres`, a list of clauses with their
connectors, which `Selects` joins from left to right as `_where_expression` does. `BaseQuery`
puts the soft delete's clause and a relation's foreign key first; of a pivot relation, `Terminal`
sets `prepared` and awaits the ids, `Prepare` joins them and runs the statement, or raises.
`QueryScoped` says which rows a statement can reach, and when more than it should.

Its other two parts read in pieces. `chunk_by_id` and `chunk` walk a table that others insert into and delete
from, also between the fetch of a page and the next one: `FetchPage` is the statement, `TurnPage`
the callback, which may stop. In `cursor_paginate`, `Position` is a cursor (ordering value
and id), `Sought` the seek predicate with the comparisons SQL makes of a NULL, and a reader goes
by `NextPage` and `PreviousPage` through cursors of the page it has. `WalkedOnce`,
`PagesRight`.

### SearchIndex, Migrations

`SearchIndex`: `article` is the row, `doc` its document, `copy[w]` an instance. A save is the
statement (`SaveCopy`), the write of the document from the instance (`WriteDoc`, or `SkipDoc`
under `without_syncing`), then `EndTransaction`. A search takes the hits of the engine
(`Filtered`, `Hits`) and then the rows in its scope (`Hydrated`). `SearchFinds`.
`Migrations`: `Checkout` changes the files there are; a command is `BeginRun` or
`BeginRollback` (what is pending, or the last batch, is read once), `MigrateNext` for each, and
`CommitCommand` or `AbortCommand`, in one transaction on a database whose DDL is transactional;
`WaitsFor` is what its locks make a concurrent command wait for. `SchemaRight`.

### Lifecycle, Container

`Lifecycle`: `Register`, `StartResources`, `Connect`, `AttemptFails`, `Check`, `Report` are
`ResourceManager.startup` (concurrently for each resource, retries, health, rollback of a failed
start); `BeginShutdown`, `Disconnected`, `DisconnectFails` its shutdown, by the end of the
application, a signal handler or a second caller; `Terminate`, `HooksDone`, `NextCallback`,
`TerminateRaises` are `Application.terminate`. `ResourcesRight`.
`Container`: one abstract's `binding`, shared `instance`, `scopes`' copies and `extended`
closures, and `lent`, what `make` returned to each caller. Resolution never awaits, so a call is
a step; scopes are those of tasks that run at once. `MakesRight`.

### Sessions, Logins, Identities

- `Sessions`: `Receive` loads a copy and ages the flashes, `PutItem`, `Flash`, `Reflash`,
  `Rotate` change it, `HandlerEnds`, `ForgetDropped`, `SaveSession`, `Respond` are the unwinding
  of `StartSession`, `SaveLate` the save of the `after_response` hook. `SessionCarried` holds for
  a browser that waits for the late save; `unsettled` marks one that did not, and nothing is
  asked after it.
- `Logins`: the rows of refresh tokens; an exchange is `ReadToken`, `ClaimToken` (the
  guarded `UPDATE`), `IssueSuccessor`, or `RevokeFamily` on a replay; the remember cookie's
  `ReadRow`, `RotateRow`, `DeleteRow`, `AnswerRecall`. `LoginsRight`.
- `Identities`: generations in the cache, `kept[b]` the stored session of each browser,
  `asking[b]` its request, `proof[b]` who last logged in there and by which factors (history).
  `LoadSession` and `EnsureCurrent` are the middleware, `LogIn`, `BeginChallenge`,
  `CompleteChallenge`, `Stamp`, `LogOut`, `SignOutOthers` with `Restamp`, `SignOutEverywhere`,
  `Impersonate`, `StopImpersonating` the calls. `IdentitiesRight`.

### Pipeline, Validation

`Pipeline`: `visit[s]` is a request of a stream of requests that share an execution context
(a connection kept alive), `bound` the row it binds, `maintenance` the flag, `window` what the
log took of the current throttle window. `ReceiveVisit`, `BindRow`, then the middleware it is
`At`, the next of the stack in the order of `Ordered`: `GateReads` and `GateDecides`, `ChooseLocale`, `Populate`, `Authenticate`,
`Own`; then `Destination`, `Unwind` frame by frame, `RunTerminate`; an exception passes
`RenderException`, `ReportError` and `HandleUncaught`. `AnsweredRight` has five parts,
of order, user and locale, context, gate and reports.

`Validation`: `form` is the rules, modifiers and input of two fields and a list, `pass` a
running pass. `Passes` is the synchronous one, `PassesAsync` that one with the custom rules
deferred, after which `AwaitRule` awaits them and the database rules one by one and `NextField`
leaves a field. `FormsRight`: either pass accepts exactly when all rules that apply hold,
`bail` reports one failure, and `validated()` gives what was validated.

### Features, Media, Events, Delivery, Relay, HttpClient

- `Features`: `ReadOwn`, `ReadEveryone`, `Resolves`, `PutResolved` are the awaits of `_resolve`;
  `Activate`, `ActivateForEveryone`, `ForgetOrPurge`, `FlushMemo` the rest. `OverridesStick`,
  unless a resolution was in flight.
- `Media`: an upload is `Reserve` (the row), `Put` for the file and each conversion, `SaveNames`;
  a failure `Clean`s; a deletion goes file by file and ends with the row. `NoOrphans`.
- `Events`: `Dispatch` decides between now, the buffer and the veto; `Gather` fixes the
  listeners, `Hear` runs one, `Fire` queues and broadcasts; `PushEvent`, `Flush`,
  `ForgetPushed`; `BeginBlock`, `CommitBlock`, `Replayed`, `RollBackBlock` are the transaction
  around. `EventsHeard`.
- `Delivery`: `QueueChannel` a job per channel (maybe held to a commit), `TakeNotification`,
  `Ask` for the veto, `Transport` one mailer of the failover, `DriverAnswers`, `SendRaises`,
  `Returns`. `DeliveredOnce`.
- `Relay`: `SubscribeTo`, `Listens`, `RelayNext`, `RelayFails`, `Drain`, and the end:
  `BrowserLeaves`, `CancelTasks`, `TaskEnds`, `WriterEnds`, `Gathered`. `FramesRight`.
- `HttpClient`: `EnterPool` takes a slot of the semaphore, `SendOnce` an attempt, `Decide`,
  `HookRaises`, `Again` the retry loop, `CancelPool`. `PoolRight`.

### Working

`work()` of a worker process, around what `JobWorker` and `DurableJobs` say of one message and
one pass. `stage` is where it is, `options` its `_WorkerOptions`, `finish` the stop event, `loop`
its release loop, `job[j]` where a message is. `Take`, `Skip`, `Processed`, `Rested` are the
receiver and `_invoke_body`; `Stop` a signal, a deadline or the memory watch; `Wake` and `Tick`
the loop, with `_on_release_tick`; `ListenEnds`, `CancelWork` and `Close` the end. `WorkedOff`:
it leaves no job behind unless it was cancelled, its count is exact, and an idle tick was idle.
`DoneInTheEnd` says that a worker that is to return returns.

### Application

Composes the above. The parts share no state, so their properties are conjunctions of the
parts' own, bundled by what they are about: `DoneAsAsked` (what is written or sent:
`NothingClobbered`, `SearchFinds`, `SchemaRight`, `LinksKept`, `DeliveredOnce`, `PoolRight`),
`ReadAsWritten` (what is read or heard: `RelationsAgree`, `QueryScoped`, `WalkedOnce`, `PagesRight`,
`EventsHeard`, `FramesRight`), `KeptForNext` (`SessionCarried`, `OverridesStick`, `LoginsRight`,
`IdentitiesRight`, `NoOrphans`), `ServicesRight` (`ResourcesRight`, `MakesRight`, `AnsweredRight`,
`FormsRight`).

## Runs

| Run | What it asks | Bounds |
|---|---|---|
| `durable_jobs` | the five safety properties of the table, delivery of every decodable job, refinement of `DelayedDelivery` | 2 workers (one with a priority list), 2 rows (an undecodable one with a legacy reservation, and one with a longer window), half seconds up to 3 s, window 1 s and 2 s, 1 abandoned pass |
| `job_batch` | callbacks at most once, `catch` runs after a failure, no `then` once cancelled before the finish, finish on the last outcome, the batch always finishes | batches of 0, 1 and 2 members, both `allow_failures`, 2 faults |
| `job_batch_then` | does `then` mean every job succeeded? Violated | the same, no faults |
| `worker_chain` | nothing dropped, budgets, ends, order and progress of a chain | 2 links of 2 attempts, 2 workers of which one does not serve the head's queue, 1 deferral, 1 fault, with and without a database |
| `worker_unique` | at most one instance in flight, the slot is freed | 2 instances, 2 workers, 1 deferral, 1 fault |
| `worker_unique_chain` | the same when one instance heads a chain. Violated | no faults |
| `worker_tries` | are `tries` honoured without a database too? Violated | no faults |
| `cache` | each use of one store, with `Flush` and time: flexible entries, tags, counters, locks, the schedule | 2 callers and 2 refreshes of one entry; 2 tasks on 2 tagged entries and 2 tags; 3 tasks under a limit of 2; 3 lock clients; 3 ticks of a task over 2 minutes with the clock set back once; 1 flush, that drops the locks; time up to 6, of which the locks use 5 and the schedule 5, or 3 once it was flushed |
| `scheduler_identity` | is a tick given up only for the same task? Violated | 1 server, 2 commands |
| `application` | `DoneAsAsked`, `KeptForNext` and `ReadAsWritten` of `Application`, over the parts they are about | below |
| `work_through` | `ServicesRight`, over its parts; of the parts tx and worker, that a block commits again only for a late error, its deferred work keeps to `AfterCommit`, a worker leaves nothing behind, and both end; the types of these parts are proved (`TypesAreKept`) | below |
| `relation_writes` | do writes through a relation stay inside it? Violated | 2 parents, 2 children |

Why these bounds: nearly every race in the code is between two actors over one row, key or
lock (two claims, a claim and a reclaim, two settles, two exchanges), so two of each are
needed and a third only repeats them; counters and locks get three, as the third meets what
the first two left. One fault per run meets every label, as the fault may strike anywhere, and
batches get two because redelivery and retry interact. The clock of `durable_jobs` reaches
past two windows, so a row is claimed, expires, is reclaimed and claimed again while the first
holder is still inside; that of `cache` past every TTL in use. `MaxFaults`, `MaxDeferrals`,
`MaxSecond`, `MaxTime` and the like bound the environment only.

In `cache`, `application` and `work_through` the variable `part` chooses at the start what is explored: the
parts have no state in common (in `cache`, no key and no lock), so the states of two of them
side by side would be pairs of states that were seen alone. `Cache!Flush` empties whichever part is
explored. The bounds of the parts, of which tx, worker, life, container, pipeline and forms belong to
`work_through` and the others to `application`, and what `MCApplication` leaves out of each:

| Part | Bounds |
|---|---|
| tx | 2 pieces of work, 1 helper, 2 attempts, 1 savepoint inside the block |
| records | 2 instances, 2 titles, 2 increments; counter and soft delete apart |
| pivot | 2 tasks, 2 ids, 4 links, of which at the start up to one of each id, without notes, or two of one id of which the later has a note |
| relations | 2 parents, 2 children, 1 grandchild, 3 nodes of a tree, pivot rows repeated twice; foreign keys, pivot rows and tree apart |
| query | 2 tasks, 2 chained conditions, every shape of base query; the other parts start with one of them |
| walk, pages | 5 keys and 4 rows, pages of 2, values 1, 2 and NULL |
| search | 2 instances, 2 texts; unwanted and trashed records apart |
| schema | 2 deployments, 3 migrations of which the second needs the first and the third changes data, 2 batches; files come while no command runs |
| sessions | 4 requests, 3 ids, 1 item, 1 message, until a request outran the late save |
| logins | 2 requests at a time, 4 tokens or 4 validators |
| identities | 2 browsers with one person, or one browser with two, one of whom has a second factor and may impersonate; 3 requests, 2 raised generations |
| worker | 2 jobs and one it skips, both brokers, a limit of 1 or none, 2 calls of `work()`; jobs are dispatched before it and one also during the first call, and a limit does not meet the idle tick |
| features | 2 tasks, 2 values |
| life | 3 resources of which two share a name and one is critical, 1 retry, 1 callback |
| container | 2 scopes, 2 closures, 3 objects built, 2 rebindings |
| media | 2 uploads with 1 conversion, 2 deletions; one upload fails at a time |
| events | 2 callers, 2 listeners (one by wildcard), 2 events, 1 transaction; kinds of events with one caller |
| delivery | 2 channels, one with 2 mailers, 2 tries |
| relay | 2 channels of which one private, 2 published events |
| client | 2 requests, both concurrencies, 3 retry policies, up to 2 attempts |
| pipeline | 1 stream of 2 requests, a public and a protected route, tiers listed against their order, a limit of 1 report |
| forms | 2 fields of 4 rule lists, a list of up to 3 values, 2 passes |

Deadlock checking is off: when every job has ended, every request is answered and the bounds
are spent, the system has nothing left to do.

### The five violations

1. `job_batch_then`: a member fails and is counted, but before its worker stamps the
   cancellation the last member settles, finds nothing pending and the batch not
   cancelled, and runs `then`. `docs/queues.md` says `then` "fires once every job has
   succeeded". The failing worker may also cancel the batch and run `catch` to its end
   between the `SELECT` of the last worker and its `then`. What holds, and is proved, is that
   `then` never runs in a batch that was cancelled before it was stamped finished.
2. `worker_unique_chain`: `push_instance` takes no unique lock, though the docstring of
   `ShouldBeUnique` says it does.
3. `worker_tries`: without a database, a deferral on a later inline attempt starts
   the budget again.
4. `scheduler_identity`: every scheduled command is a closure of one qualified name, so all
   unnamed commands of an application share one claim per minute and one overlap lock, and of
   two that are due together one is skipped everywhere. `docs/scheduling.md:62-65` shows
   `on_one_server()` on a command without `name()`.
5. `relation_writes`: a many-to-many relation adds its pivot ids in the terminals that read;
   `delete()` and `update()` run without them and reach every row of the related table.
   `relations.py:52-54` promises "the full Builder, scoped to the parent".

## Fairness

- `DurableJobs`: time passes, and every worker takes its next step. `_release_loop` is
  a `while` that only a stop request ends and that swallows every exception. Storing
  and abandoning a pass are never forced.
- `JobBatch`: the dispatcher runs on, and a worker that runs a member runs it to its
  end; cancels, retries, deaths, losses and exceptions are never forced.
- `JobWorker`: the same, and strong fairness for each message's delivery to a worker
  that serves its queue. Weak fairness would not do: a worker that does not serve the
  queue takes the message off the broker and parks it, so delivery to the right one is
  not continuously enabled. A broker that hands messages to its consumers in turn gives this.
- `Transactions`: the caller of a transaction runs on (`TxRun`): its block ends, what it
  awaits answers. It may still be killed or cancelled at any await, which `DoneInTheEnd`
  excuses. Helpers are not forced.
- `Working`: jobs end, the loop ticks, the receiver returns (`WorkingRuns`); dispatches, signals
  and cancellation are never forced.
- Nothing else has a liveness property: requests, ticks and commands end with their caller, and
  no code of the framework waits for them.

## Proofs

`tlapm` checks every theorem, for any jobs, workers, keys, tasks, servers, windows and bounds,
from the assumptions stated with the constants. These say what a set of names or a bound is, but
for four that say how the code is used: `JobsAssumption` and `WorkersAssumption` of `DurableJobs`
(finitely many workers), `ChainsAssumption`, `KeysAssumption`, and `SchedulerAssumption` (a lock a
user takes by `Mutex` is not named like one of a task). Two theorems have a hypothesis, each the
complement of a run that violates the property without it. None of the invariants is inductive
as it stands.

- `DurableJobsProofs`: `TypeCorrect`, `NothingLost`, `LeaseHolds`, `NoFreeDuplicates`,
  `DelayRespected`, `Refinement`. A worker that is to
  delete a row must be known to have pushed its job; a fresh claim must be known to
  be the row's reservation (same moment, a deadline no earlier than the window
  guarantees), which the optimistic reclaim cannot free; a pass's due rows must be
  known to be due at its `moment`, which is not after the clock. The counting of pushes needs that the number of
  pushes, plus one while a holder is about to push, never exceeds one more than the freeings.
- `JobBatchProofs`: `BatchTypeCorrect`, `BatchCallbacksOnce`, `CancelledFirstBarsThen`,
  `BatchFinishesLast`. The invariant says that whoever is about to run a callback
  flipped its flag and is alone there, and that `pending` is the number of members
  not counted (a cardinality argument), which a worker's own copy never undercuts.
- `JobWorkerProofs`: `WorkerTypeCorrect`, `NoExhaustedMessage`, `NothingSilentlyDropped`.
  Types alone are not inductive: that an attempt stays in its range needs `AttemptsLeft`,
  no message travels with its attempts used up. `NothingDropped` is strengthened to
  `OwedInv`: a copy with a worker counts only until that worker has recorded the job's end,
  otherwise a manual retry could remove the record while the old worker is the only trace.
  What a worker's properties count is a second invariant. `JobEndsOnce` and `ChainInOrder`: a job is
  started by the link before it, so the copies that may still end a job are those of its whole
  chain. `CountInv` numbers them, in the broker, in the rows and with the workers, adds the ends
  the job has had, and says that this grows by a fault only; `Story` is what has happened when a
  worker is at each label. `OneUniqueInFlight`: the same count over the jobs of one slot, and those
  that are about to be enqueued, is at most one while the slot has a holder and zero while it has
  none. Its hypothesis is `OutsideChains`; `worker_unique_chain` shows what a chain does.
  `BudgetHonoured` numbers the attempts left instead of the copies: a message is worth what its
  attempts leave of the limit (`Fitting`: never less than nothing), one of an earlier link a whole
  limit, and what is left and what was thrown together stay within a limit for each fault and one more.
- `CacheProofs`: `TypeCorrect` comes first, as every use of the store stands on what the others
  leave under its keys. `LeaseKept`: a handle within its time owns its lock, and the entry outlives it
  (`LeaseInv`), as whatever drops the entry earlier ends the time granted too. `OnceAMinute`: until
  the next flush that drops the locks, a claim's name is taken until the claim is `ClaimTTL` old, so
  two of a minute are that far apart, or a flush is between them (`ClaimsInv`), whatever the clocks
  of the servers and whichever the driver.
  `OverlapMeansInFlight`: `OverlapHeld` says who owns an overlap lock. `FlexibleRight`: undisturbed,
  the guard outlives the refresh that took it, and a value is not older than its stamp by more
  than a callback (`FlexInv`). `CountersKeepTheLimit`: what was counted and what is under way share the room
  under the limit and one for each task but one (`RoomInv`). `TagsKnow`: an entry is
  registered under each of its tags, or an operation under way still owes it that, or its
  deletion (`KnownInv`), or the history calls it raced. `LosesToItself`, where no two tasks share an identity;
  `scheduler_identity` shows the commands that do.
- `ApplicationProofs`: `PartsKeepTheirs`, and from it `NextReaderFinds` (`KeptForNext`) and
  `WorkerCounts` (`WorkedOff`). A step of the application is a step of one part, and no other writes
  that part's variables (`PartSteps`), so `PartsInv` is inductive if each of its six is.
  Sessions: between two requests what is due is stored under the cookie; during one it is in its
  copy, and the cookie names that copy or is about to, or the cookie was lost and nothing is due from what
  it names (`CarryInv`, for a browser that waited for the late save). Flags: an override that stands
  means that nobody is still resolving, unless one was when it was set. Logins: an exchanged token
  is revoked, and there is one request about to issue its successor or one successor (`ExchangeInv`),
  from which `LoginSafe` gets one unrevoked token per login by a cut in the tree of
  successors, not by induction; a validator that was rotated is not the row's any more
  (`RotateInv`). Who acts: the session's owner is who proved to be it last (`OwnerInv`), and its
  stamp is behind the owner's counter in a browser that was signed out and level with it in one that
  was not, where the stamp of a request that has raised the counter is the one it is about to get
  (`StampInv`). Media: an upload knows each file it has put, and a deletion that has begun on
  a row's files all that are left (`UploadInv`, `DeletionInv`). Worker: what was counted has left the
  broker for good, what moved since the last tick was counted after it, and who listens
  no more has nothing running but what a cancellation left (`TallyInv`, `StageInv`).
  Its second half: `ServicesKeepTheirs`, and from it `ServicesAreRight` (`ServicesRight`).
  Resources: what is open is being closed, or the callback that closes it is still on the list
  (`ToBeReleased`), and until somebody shuts down what came up stays open (`WhileOpen`). The container:
  each closure that was registered is worn by the instance, or waits for the next build, or was spent
  with an instance that was dropped (`Accounted`); no object is in two places (`Apart`). A request:
  on the way in its context is what the middleware that are around it made of the visitor
  (`ComesIn`), an answer about the row or the body implies that the destination was reached
  (`VisitHeard`), and the gate's two reads differ only if the flag moved (`VisitGate`).
  That a guest is never turned away before the user was populated follows from the sort: where
  `middleware_priority` puts one before the other, it cannot put them the other way round (`ToCome`). Validation:
  the errors of a pass are those of its sweep and of awaited rules that may have failed when it
  was their turn, and every rule that was awaited left an error or may hold (`Judging`). That of the rules
  that fail one is the first is the least element of a set of numbers (`Earliest`).

- `WritesProofs`: `WritersKeepTheirs`, and from it `AskedIsDone` (`DoneAsAsked`), in the same way.
  Links: a retained row is one that no call under way is to detach; a call that is alone finds what
  it has not come to as it read it, and has left the rest as it wants it (`LinkInv`). A row: an
  instance differs from its originals in a title it was assigned, and in the counter only after
  an increment failed (`StaleInv`). The index: there is at most one hook under way,
  about to write what the row says, or none and the document says it (`MirrorInv`). The pool:
  what the loop of a request has behind it, by where it is (`AtTurn`): each answer
  but the last was one to retry, and none is beyond the budget. A notification: a job that runs
  has brought out or was refused all but the channels it has left (`Halfway`), what is still
  to be pushed has not begun (`Unpushed`), and each channel's deliveries are those of its runs
  and the ones an error followed (`OutBy`). Migrations: no two deploys have done the same one, and
  none that a run has done is in the log yet (`DeploysApart`); while no rollback overlapped another
  command (`Calm`) a rollback is alone and holds the last batch, from the greatest down. That a batch has a greatest
  is proved from the well-foundedness of the subsets of a finite set (`Greatest`, `Least`).
  Then the transactions they write in: `CommitsOnce` (an attempt that committed is left by an error of its
  replay only, `AttemptsInv`), `KeepsAfterCommit` (`Transactions` implements `AfterCommit`: outside of a
  block and its replay the buffer is empty, `BufferInv`, and each step then is one of `Outbox` or a
  stutter) and `NothingForgotten` (`AskedInv`: a piece deferred in time is in the buffer until its
  attempt commits, and then in the buffer or among what was run).
- `ReadsProofs`: `ReadersKeepTheirs`, and from it `ReadAsItIs` (`ReadAsWritten`). Relations: the tree's rows have heights that grow from a parent to a child
  (`RelationsInv`), which the actions keep as no row is hung under one of its own. What a walk of
  a batch reaches is then what a walk from each root does, and so many levels are enough: a row
  beyond them would have more ranks above it than there are rows (`DeepEnough`, by pigeonholes). A count joins
  pivot rows one by one, and is compared with what a query finds by a bijection (`CopiesCount`).
  A query: its clauses keep a parent's clause where each caller expects one, and an answer recorded
  is that of the clauses its terminal had (`QueryInv`, `OwnersJoined`). That a fold of clauses
  joined by AND alone is inside each of them is proved over the function the fold is, by the least
  clause where it is not. A walk: by id, every steady row up to the position was handed
  out, once, and none beyond it; by offset the same of as many rows as the position says, while nobody disturbs
  (`WalkInv`, `ById`, `ByOffset`). Pages: an unseen row that stays is after the furthest row shown
  (`PagesInv`); that a scan takes the nearest rows from the cursor on, in order, is proved from the order of scores
  and ids and the number of rows ahead of each (`Count`). Frames: what was delivered of a channel, then what
  is with the writer, the outbox and the inbox, is what was published since the subscription, in
  that order (`ComesInOrder`); tasks are there for the channels subscribed to (`TasksOpen`).
  These, and the next, are lemmas of `EventsProofs`. Events: a piece that waits is in one place and there once (`EvPlaces`), a listener heard is
  followed by the rest of those gathered (`EvLinks`), and by the fate of an event and of its block
  it was heard by all, by some or by none of them (`EvSaid`, `EvBlocks`).
- The types: `TypesAreKept` (`TypeOK`), at the end of `ReadsProofs`, over the modules before it. Half of the parts keep
  their types as they are, and their invariants say so; the others need more than what they are
  to show (`TypesInv`). No migration is undone more than once too often, and what a rollback
  has undone it can still commit within that bound (`EffectsBounded`); what a notification has still to send
  is a tail of its channels, and a run has tries left while it is to be tried (`LoopGoesOn`,
  `RunsBounded`); a pool's request is not attempted more often than the greatest budget
  (`AttemptsBounded`); and what is left of different listeners after some were forgotten is different
  (`ListenersOnce`, over the function that picks them). The others say which values a variable may
  have that the rest does not depend on.

Only model-checked: everything that must eventually happen, which is beyond the prover
(`EveryJobReleased`, the batch's and the worker's liveness, `DoneInTheEnd`) and with it
`FailureCaught`. No invariant needed an induction over data. Where a model
folds a list or climbs a tree, it does so by a function whose values the proofs
describe (the least index where a statement fails, heights, numbered copies) and never unroll.

## Abstractions

SQL statements, cache calls and file operations are atomic; nothing between two awaits is
interrupted by another task, everything at an await may be.

- Queue: a payload is its job: serialization is left out, except that a payload may be
  undecodable. A job's queue is fixed (`JobRouter.label`), and not changed by a `queue=`
  at dispatch. Back-off delays in `JobWorker` are left to the jobs table, whose timing is
  `DurableJobs`'s subject. Timeouts are an outcome of an attempt.
- Cache and schedule: time is in units as long as the shortest TTL in use; a decay of zero or
  less is left out; a task is due in the minutes it is due in, without cron strings.
- Database: timestamps columns, `where_pivot` filters and most kinds of clauses are left out,
  and all pivot tables are one bag with a type. A searchable record is saved once per
  transaction, and mass updates, which fire no hooks, are not among the writes. DDL is a
  migration's effect and its need. SQLite and MySQL, whose DDL commits by itself, leave the
  tables of a failed command behind; only the transactional case is explored.
- Sessions: a stored session does not expire; requests of one browser overlap only by the late
  save. In `Identities` they do not overlap, `stamp_session` follows a login as
  `docs/auth/routes-and-flows.md` wires it, and nobody signs out others while impersonating.
- Features: the database driver's select-then-insert is one step.
- Events: what a listener dispatches itself, and nested transactions, are left to
  `Transactions`.
- Validation: a format rule accepts one class of present values; messages are left out.
- Pipeline: middleware of one kind stand for those that only rewrite a request.

## Where documents and code differ

Beyond the five runs, met while translating; the models follow the code, and a property's
comment says what it leaves out.

- Queue: `store` truncates the current time before it adds the rounded delay, so a job may leave
  just under a second early, where its docstring says "never earlier than requested";
  `LessThanASecondEarly` is what holds. A batch whose dispatch raises midway never finishes, as its row counts members that
  were never pushed. The docstring of `JobWorker.work` says a job of an unserved queue "is
  dropped without running"; the code parks it, or runs it when there is no database.
  `--stop-when-empty`, "Exit once the queue drains" (`console/work.py:18`), also stops a worker
  that leaves messages behind, when a job runs longer than a tick.
- Transactions and events: work deferred inside a savepoint that rolled back still runs at the
  COMMIT; a task that outlives its block defers into a buffer nobody reads; a transient error
  of replayed work runs the block again after it committed. Queued listeners of an event that
  does not defer are pushed before the COMMIT. A listener that raises makes `flush` lose the
  events after it; `until` returns `False` for a veto (`docs/events.md:128-129`), and wildcard
  listeners come after exact ones whatever their registration (`docs/events.md:218-219`).
- Cache: a put racing a flush, forget or prune leaves an entry its tags do not know
  (`docs/cache.md:173-174`); `flush` on redis drops the locks under
  whoever holds them, on the array store it does not. So after a `cache:clear`, which
  `docs/scheduling.md:24` schedules, a second server whose tick is for the same minute finds the
  claim free, and executes what `docs/scheduling.md:62` says runs "on **one** server only".
- Models: an increment that fails leaves a counter that the next save writes as a value
  (`model.py:847`, `docs/database/attributes.md:126`); delete and restore leave the originals
  behind.
- Relations: `has`, `where_has` and `with_count` do not see soft deletes (`relations.py:144-163`,
  `docs/database/relationships.md:125-136`); `BelongsToMany.has` counts dangling pivot rows; `or_where`
  folds left and leaves the foreign key's scope (`builder.py:258-265`); the lazy relation of an
  unsaved parent asks for rows whose key IS NULL; the recursive query of a cyclic tree never ends,
  and its eager form is not ordered by depth.
- Queries: a pivot query whose fetch of the ids raised, or is under way in another task, reads
  the whole related table (`builder.py:1076-1078`), though `relations.py:52-54` promises it
  "scoped to the parent"; a bare `or_where` opens the trashed filter as well.
- Pagination: a malformed cursor raises `KeyError` (`builder.py:1440`, `pagination/__init__.py:469-471`);
  rows whose ordering value is NULL are lost by the seek; an emptied page has no cursors.
- Migrations: `migrate:rollback` is stuck when the last batch's files are gone; `migrate:refresh`
  rolls back the last batch only (`docs/database/migrations.md:156`, `docs/console.md:69`); two
  overlapping rollbacks run a data migration's `down` twice.
- Search (`docs/search.md:3-5`): the document is written before the COMMIT and from a stale
  instance; restore and `scout:import` index unwanted records; saving a trashed one indexes it
  as live; an engine's error comes after the row is written.
- Sessions: a request sent before the late save misses the flash (`kernel.py:382`, `:396`,
  `docs/session.md:51`); the `FlashBag` example of `docs/session.md` flashes for no one. Parallel
  requests with one remember cookie delete its row. `impersonate` does not restamp the generation, so the
  stamp of the supporter is compared with the user's counter.
- Feature flags: a resolution in flight overwrites an override (`docs/features.md:126-128`).
- Lifecycle: a cancelled shutdown leaves the manager closed with resources connected.
- Container: rebinding a scoped service clears the current scope's copy only; a late `extend`
  does not reach holders of the object (`docs/container.md:123`), and one applied to an
  instance is gone after `forget` or a rebinding; cached shared objects fire no resolving
  callbacks (`docs/container.md:182`), and one whose callback raised stays cached; a contextual
  binding applies to a factory that runs while the dependent is built.
- Pipeline: an allowed client may get 503 with the default body when `up` runs between
  `is_down()` and `payload()`; terminate hooks run for middleware that were never entered, and one
  that raises skips the later ones; `renderables` are not asked about an `HttpException`
  (`docs/errors.md`); `middleware_priority` moves the named classes before all others
  (`docs/middleware.md:88-90`); the context variable of the rate-limit headers is never reset
  (`middleware.py:283`).
- Validation: `passes_async` does not stop on the first failure (`docs/validation.md:170-172`) and
  runs `after` hooks before the database rules; `exclude` on wildcard leaves keeps them in
  `validated()` (`docs/validation.md:246`); dotted `sometimes` fields are not validated but
  returned; `nullable` is not honoured for list elements; `bail` with `distinct` gives two
  errors (`docs/validation.md:138`).
- Delivery and media: a listener of `NotificationSent` that raises makes the channel go out
  again; a cancelled upload leaves its row and files, a deletion racing an upload its files, the
  rollback of an enclosing transaction the files; concurrent uploads get one `order_column`.
- Relay: after a relay task failed, a new subscription to its channel is ignored
  (`broadcast_relay.py:70-71`, `:84`).
- Not under a module: `first_or_create` and `update_or_create` race and ignore trashed rows;
  the activity log reuses a stale snapshot after `increment` (`activitylog/__init__.py:198-210`,
  `model.py:829-850`); processes of a pool run on after one failed (`support/process.py`).

## Not modelled

About a seventh of the implementation's lines stand behind a definition of this project.
Most of the rest has no behaviour over time: it takes a value and returns one. That is the
compilation of queries to SQL, casts and serialization of models, factories and collections;
requests, responses, routing, OpenAPI, and the middleware that rewrite one request alone; views, localization,
strings and dates; console commands and generators; configuration and providers, which run once
at start-up in one task; testing fakes. Transcribing them would restate them, and unit tests reach them.
Out of the checker's reach are hashing, encryption, templates and wire protocols of the
services behind the adapters (brokers, databases, search engines, storage, mail, oauth
providers), which appear as actions of the environment.

Of parts that are modelled, these are left out: the in-memory and sync queue
drivers; the file and database cache drivers' storage; cron matching and background tasks;
connection resolution and replicas; event subscribers; the `Schema` facade; access tokens, gates
and the audit's log lines. The list by component is in `PROJECT.json`.

## Checking

    tlc -workers 2 -config Application.cfg MCApplication.tla
    tlc -workers 2 -config DurableJobs.cfg MCDurableJobs.tla
    tlc -workers 2 -config JobBatch.cfg JobBatch.tla
    tlapm DurableJobsProofs.tla

and likewise for the others, and for the other modules whose names end in `Proofs`. Each `.cfg` goes
with the `MC` module of its component, those of `JobBatch` and `Relations` with the module itself.
`application` is the longest run, a minute or two on two workers.
