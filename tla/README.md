# nodejs-basics: TLA+ models, checks and proofs

This directory holds TLA+ specifications of the parts of nodejs-basics whose
correctness depends on the order of steps: the transactional outbox, the
`Idempotency-Key` interceptor, the Kafka clients and the consumer loop, the job
queues, the tasks' writes in their unit of work, the outbound HTTP client, the
migrations, the life of a process and what its settings come to. TLC checks them
on small instances, TLAPS proves the main safety properties for every value of
the constants. `PROJECT.json` is the index: which definition stands for which
lines of the source, which run checks what, which hazards are covered.

    cd tla
    tlc -workers 2 -config OutboxSafety.cfg MCOutboxRelay     # a run
    tlapm OutboxRelayProofs.tla                               # the proofs

## 1. The system

nodejs-basics is a template for NestJS services. Its pipeline for a new task:

    POST /tasks
      -> IdempotencyInterceptor (one execution per Idempotency-Key)
      -> TaskUseCase.create in PgUnitOfWork: row of `tasks` + row of `outbox`
      -> OutboxRelay (one per replica) -> KafkaProducerService -> Kafka
      -> KafkaConsumerRunner (worker, one consumer group)
           -> dead-letter topic, for what it gives up on
      -> TaskEventsConsumer.handle -> JobQueue (BullMQ or pg-boss)
      -> TaskEventsProcessor

Every arrow may fail, be repeated or be answered too late, every box runs in
several replicas, and each of them can crash or be shut down at any step.

### Inventory

| Component | State it keeps | Operations | What is hard | What makes it correct |
|---|---|---|---|---|
| Outbox (`packages/outbox`) | table `outbox` (rows, `attempts`, row locks), timer, `stopping`, the pass in flight | `add`, a relay pass, shutdown, start | several relays, crash between ack and COMMIT, partial failure of a batch, lost sessions and answers, outages | at-least-once; nothing unpublished is forgotten; no two relays send a row; only what Kafka refuses is given up on; order per key; progress |
| Idempotency (`packages/idempotency`) | one entry per key in Valkey or `idempotency_keys`: nothing, a lock (30 s), a result (24 h) | get, evict, SET NX, handler, set, del | concurrent requests, budgets that run out between two calls, writes that land late, TTLs without fencing, fail-open | one execution per key unless something failed; a replay is the answer to the same request; the lock belongs to its holder; what was answered is kept |
| Consumer (`packages/kafka`) | committed offsets and assignment (broker); `attempts`, paused partitions, `running`, `stopping` | handle, retry, park, commit, connect, stop | rebalances under a running handler, lost commits and acks, poison records, shutdown against a dead broker | nothing skipped; order per partition; each redelivery has a cause; retries are a record's own; progress; stop ends |
| Producer, Reconnect (`packages/kafka`) | the current producer, `connected`, a retry timer | send, connect, replace, shutdown | fatal errors during sends, back-pressure, sends that never settle | every send settles with one kind of error; one live producer |
| Unit of work, deadline (`packages/database`, `common`) | the ambient transaction, the request's deadline | runInTransaction, commit, query under a budget | swallowed statement errors, spent budgets, broken connections | success is reported only for what was committed |
| Tasks (`apps/api`) | table `tasks` with `version` | create, update, archive | concurrent updates | no lost update; archived once, unless a request names a version not issued yet |
| Worker (`apps/worker`, `packages/jobs`) | cached queue depth, jobs keyed by task id | handle, ensureQueueRoom, process | cached counts under concurrency, redeliveries, retries of jobs | bounded queue, one job per task |
| Resilient client (`packages/resilient-client`, `resilience`) | adaptive limit and waiters, breaker, cache, in-flight map | request, retry, revalidate, shutdown | slots on every error path, races of refreshes, drain | slots conserved, no lost wakeup, shutdown drains |
| Migrations (`apps/migrate`) | the advisory lock, `schema_migrations` | lock, read, run a file, record, unlock | runners of two images, death between a file and its row | each file once, in order, with its row |
| Process (`packages/observability`, `logger`, `config.boot`) | the gate, probes and captures in flight, the log level and its timer, the crash flag | boot, probe, set and reset a level, dump, profile, shutdown hooks, crash | probes across SIGTERM, order of the hooks, timers of superseded changes | no probe is ready behind the gate, hooks wait for the drain, levels revert |
| Configuration (`packages/config` and the builders of `kafka`, `cache`, `database`, `resilience`) | none but `process.env` | merge, parse, check, build the clients' options | precedence of sources, escape hatches over sizes and aliases, secrets with two sources | what passes the loader gives clients that can work together |
| Logging, tracing, metrics, HTTP mapping, contracts | none that others depend on | | | see PROJECT.json, `components` |

Contact surfaces: the outbox and the tasks share a database transaction; the
relay and the consumer share Kafka and the producer; the interceptor shares the
request's budget with everything the handler calls; the consumer's shutdown
aborts sends of the producer; the worker's queue is the consumer's back-pressure;
a process starts only when a runner has migrated its database.

## 2. Modules

| Module | Models |
|---|---|
| `AtLeastOnce` | what the outbox promises: accept, publish (again and again), retire what was published |
| `OutboxRelay` | writers' transactions, relay passes, shutdown, crashes, Postgres sessions, the broker |
| `MCOutboxRelay` | symmetry of replicas and keys for the safety run |
| `OutboxRelayProofs` | theorems about `OutboxRelay` |
| `Idempotency` | the requests of one key and the store's entry |
| `MCIdempotency` | symmetry of requests and bodies |
| `IdempotencyProofs` | theorems about `Idempotency` |
| `KafkaConsumer` | the members of a consumer group, their records, the dead-letter topic |
| `MCKafkaConsumer` | symmetry of the members |
| `KafkaConsumerProofs` | theorems about `KafkaConsumer` |
| `KafkaClients`, `MCKafkaClients`, `KafkaClientsProofs` | the producer service, its sends, and the start and stop of a consumer, each over its `Reconnect` |
| `TaskWorker`, `MCTaskWorker`, `TaskWorkerProofs` | `TaskEventsConsumer`, the two job queues and the processor |
| `VersionedTasks` | what the tasks API promises: versioned rows, each with its event |
| `Tasks`, `MCTasks`, `TasksProofs` | create, update and archive over the unit of work and the pool |
| `ResilientClient`, `MCResilientClient`, `ResilientClientProofs` | the calls of one target of the resilient pool |
| `Migrations` | the runners of `apps/migrate` |
| `Configuration` | registry, loader, and the options of the clients |
| `ServiceProcess` | boot, admin listener, log level, captures, shutdown and crash of one process; `EXTENDS Configuration` |
| `Deployment`, `MCDeployment`, `DeploymentProofs` | composes `Migrations` and `ServiceProcess`; the proofs cover `Configuration` too |

Operators marked `Mutant` in the modules are deliberate bugs; no specification
uses them. Each property of a passing run is violated when the mutant
`PROJECT.json` names for it takes the place of the definition it distorts.

### OutboxRelay

State and code: `tx`, `key`, `outbox`, `attempts` are the business transactions
and the table; `lock` is the row lock of `FOR UPDATE SKIP LOCKED`; `pc` is the
pass (`idle`: the timer is armed; `busy`: inside `relayBatch`; `stopped`: no
timer, no pass; `down`: no process); `outcome` is the array `results` of
`Promise.allSettled`; `life` is `stopping` (`draining`) and the moment after
which the producer rejects what waits (`closed`); `session` says whether
Postgres still has the batch's session.

- `SelectBatch` is BEGIN, SELECT and the issue of all sends; rows are taken in
  id order, locked ones are skipped, dead ones are not selected.
- Every send settles on its own: `Acknowledged`, `AckLost` (rejected, but Kafka
  has the record), `Unavailable` (a retryable kind), `RejectedByKafka`.
  The records of one key of one batch go out in order (`Ahead`), as the
  idempotent producer guarantees.
- When all have settled the pass ends: `CommitBatch` (DELETE, UPDATE, COMMIT),
  `RollBackBatch` (an outage, or the session is gone), `CommitFails`,
  `CommitAnswerLost`. Scheduling the next pass is part of the same step.
- `BeginShutdown`, `DrainTimesOut`, `Exit` are `beforeApplicationShutdown` and
  the producer's shutdown; `Crash` leaves the row locks behind as `Orphan`
  until `ReapOrphans`.

Abstractions: the poll interval, the backoff and the drain timeout say when a
step happens, so here it merely may happen. `refreshStats` and the gauges are
left out. A key has at most one open transaction, because a state change locks
its aggregate; in the task service the key is the id of a new task.

### Idempotency

`pc` of a request is the call it waits for. `entry` is what the store has.
`spent` are the requests whose budget (`HTTP_REQUEST_TIMEOUT_MS`) has run out:
their calls are rejected unsent, as `guardValkeyClient` and `guardPgPool` do. A
call rejected while it is under way may have been sent: it goes to `late` and
may land at any later time. `OnRejection` is the `catch` of each call: get and
SET NX fail open, evict goes on, set and del give up.

`LOCK_TTL_SECONDS` is 30 and `HTTP_REQUEST_TIMEOUT_MS` (10 s by default) has no
maximum, so `Expires` lets a lock expire beneath the request that holds it. That
costs one of the faults, and like a late write that lands it sets `disturbed`:
from then on nobody's lock is known to be his own.
`Corrupt` is an entry an older release wrote.

### KafkaConsumer

A member handles a partition in phases: `handling` (the handler runs),
`parking` (the dead-letter send), `committing`. `position` is where the owner
fetches next, `committed` is the group's offset. `attempts` is the map of the
same name; the `stuck` flag is only a metric label and left out, and `failed` is
capped at `MaxRetries + 1`, above which nothing changes. The handler is known
by its outcome for a record: `Permanent` records are refused, `Failing` ones
always throw, any other may throw once in a while, and back-pressure comes from
the downstream. `Loses` and `Assigns` are the group: a partition is taken away
at any moment, also while its handler runs, whose commit is then refused; a
member gets a partition back only after it has finished with it.

`connect()` is one step here; `stop()` between its awaits is in `KafkaClients`.
`Unparkable` are the records no dead-letter topic takes: Kafka refuses
them with their `dlq_` headers, or there is no such topic
(`KAFKA_DEAD_LETTER_TOPIC=none`). Such a record, when no handler takes it either,
keeps its partition for good, by design (`Stuck`).

### KafkaClients

`producer` and `connected` are the fields of `KafkaProducerService`; `instance` is
the state of each librdkafka client, which connects at most once. `stopped` and
`timers` are those of the two `Reconnect`s: `Runs` is `#run`, whether `start()` or
a timer calls it. `at` is the await a call of `send()` is in: `trying` is
`sendOnce` before `producer.send`, `sent` waits for the delivery report,
`sleeping` is the back-off of `sendWaiting`. `Fails` is its `catch`: what may be
waited out (`Waitable`), unless the budget or the signal has ended. A batch is
never waited out for a full queue, since a part of it may be enqueued. `joining`
is the await of the consumer's `connect()`; `running` is true only after `run()`.
Durations are left out: a budget ends some time after the call.

### TaskWorker

`handler` is the await `handle()` of a worker and partition is in, with the
reading it holds; `depth` is `queueDepth`, `fresh` for one second. `job` is the
backend's entry of a key. The backends differ where the code relies on it: BullMQ
counts only its waiting list, pg-boss `created` and `retry` (`Waiting`); a job whose
worker is slow is taken back by a stall or by `expireInSeconds` (`TakenBack`);
BullMQ accepts a result only from the lock's holder (`Believes`). A deployment is
a backend, replicas, handlers per replica and a log; `Adds` drops a key the queue
still holds. The group is the one of `KafkaConsumer`, cut down to who owns a
partition.

### Tasks

`at` is the await of a request in `runInTransaction` and the use case; `server` is
the Postgres session of each connection, `aborted` after a failed statement;
`pending` is what its open transaction wrote, which is also its row lock. `spent`
holds back every statement but ROLLBACK. `names` is the
`expectedVersion` of a request, any number the schema takes: one it has seen, an old
one, or one that is not issued yet (`guessed`, from the moment it is sent). `Careless` work catches a failed statement
and goes on to COMMIT, which Postgres then refuses. The `SELECT` with which the
repository tells "not found" from "conflict" after an UPDATE without a row is part of
`Updates`. `Promise` is `VersionedTasks` with `done <- applied` and
`ended <- applied \intersect Archivers`; COMMIT is its step, everything else
stutters.

### ResilientClient

A call and its execution are two things: `at` is where `request()` is, `job` where
`#executeWithRetry` is. The execution may outlive its call, when a stale answer is
served before the refresh and when the breaker's timeout answers first. `limit`,
`inFlight`, `waiters` are fields of `AdaptiveConcurrencyLimiter`; `woken` are
those whose promise is resolved and who have not yet looked again. `breaker` is
opossum with `probe` for half open and busy; `entry` is the age of what the cache
holds, in either adapter; `flight` is the one key of `#inflightMap`. `result` is what
a call ended with, by what it says of another try: a response, an error that may be
retried, a fatal one, a passed deadline. `spent` are the budgets that have run out,
`expired` the timeout signals callers have passed in (`resilientFetch` hands them on);
an attempt is aborted by either, and `TimeoutAbort` is what the code makes of it.
`process` is there for one line: `void promise.finally(...)` of a coalesced execution
has no catch, so when the execution fails, that is an unhandled rejection, and
`CrashReportService` ends the process (`Rejects`, `Exits`). The breaker opens after any failure once
`trips` holds; the back-off factor is a half instead of `0.9` (see findings).

### Migrations, ServiceProcess, Deployment

`Migrations` has one step per statement of `migrate()`: a file with its row is one
transaction, a file marked `no-transaction` and its row are two steps. `Ships` are
the files of each runner's image, `Edits` those that changed after release. In
`ServiceProcess` `life` follows `bootConfig`, Nest's bootstrap and its close hooks;
a request to the admin listener is `new`, `working` or `over`. A client may stop
sending: `stuck` counts the API's requests whose body has stalled, `stalled` are the
admin listener's, whose `readBody` has no timeout; they end when the client hangs up.
The generation of
`LogLevel` and its cleared timer are one boolean: at most one timer can act.
`Deployment` starts the process when every runner is through and one succeeded,
as `docker/stack.yml` has it.

### Configuration

A text is what it stands for and how it is written (plain, with blanks around it,
in the other case), because the loader, the readers and the breakers treat the
three differently. The registry is a function from keys to entries, with the
bounds by other keys (`AtLeast`, `AtMost`) and the keys each hatch must not name
(`reserved`). `Effective` is the precedence environment, structured key, flat
key, app default, registry default; `Problem` is the loader's list of problems,
as far as it is empty or not. The builders are functions from the merged
configuration to the options of librdkafka, ioredis and pg, hatches last.
`Parts` and `Throws` are what the app modules make of it at bootstrap.

## 3. Runs

Counts are distinct states.

| Run | Instance | Shows |
|---|---|---|
| `outbox_safety` | 2 replicas, 2 keys, 3 events (2 rejected), batches of 2, 1 fault, 1 outage, 1 shutdown or reset; 1.7 M | `OutboxRelay` implements `AtLeastOnce`; exclusive rows; duplicates bounded by faults; only rejected rows counted; order per relay |
| `outbox_live` | 1 replica, 1 key, 4 events, batches of 2, a rejected and an unroutable row, 2 faults, 1 outage, 1 operation; 0.27 M | every sendable event is published, rejected rows are parked, shutdowns end |
| `outbox_unroutable` | batch of 1, one unroutable row, no fault | violation, see findings |
| `idempotency_key` | 3 requests, 2 bodies, 2 faults; 1.8 M | extra executions are excused one by one; replays match; the holder owns the entry; answers are kept |
| `idempotency_release` | 2 requests, no fault | violation, see findings |
| `consumer_safety` | 2 members, 1 partition of 3 records (fine, failing, refused), 1 retry, 2 faults, 2 rebalances, 1 outage, 1 stop; 1.9 M | nothing skipped, order, causes of redelivery, own retries |
| `consumer_live` | 1 member, 2 partitions of 2 records (one failing, one refused and not to be parked), 1 handler at a time, 1 fault, rebalance, outage and stop each; 0.26 M | every record no stuck one holds back is settled, `stop()` ends |
| `task_worker` | 4 deployments: BullMQ with 2 partitions at a time (a fault, or none and a longer log), pg-boss with 1 worker and with 2; a failing job, foreign, broken and duplicate records; 87 k | nothing committed before it is enqueued, further runs excused, backlog bounded, every event worked off |
| `kafka_clients` | 2 sends (one a batch and rejected), 3 client instances, a consumer, 3 faults; 0.20 M | one producer, no message enqueued twice, nothing left connected, calls, reconnects and both close hooks end |
| `tasks` | 6 workloads of 3 requests on 2 connections, versions seen, old and not issued yet, one careless, 1 fault, budgets; 0.26 M | `Tasks` implements `VersionedTasks`; answers are true, connections clean, everybody is answered |
| `resilient_client` | 3 calls, 3 configurations, budgets, a caller's timeout signal, a shutdown; 0.39 M | slots conserved, one execution per key, deadlines kept and explained, everything settles or the process exits |
| `deployment` | 2 images (3 files, one without a transaction, one edited), 1 death; then one of several hundred settings, 6 admin requests, 1 API request, bodies that stall; 0.16 M | schema, configuration, gate and hooks are sound, all of it ends |

Why the bounds are enough. Outbox: two replicas and two keys are what
`SKIP LOCKED` and the order need; three events with batches of two give a batch
with a row left behind, batches of one relay next to another's, and a batch with
both a rejected and a good row. In `outbox_live` four events in batches of two
let a poison row, an unroutable row and good rows meet in one batch.
Idempotency: the entry is disputed by at most a holder, a late write and a
newcomer, hence three requests. Consumer: one partition is shared by two
members, so that its owner changes twice under a handler; each kind of record is
there once, with the failing one before the refused one, so that the counts of
neighbours can mix; the second partition is only needed for concurrency, in the
live run, with one handler slot for two partitions that both end up stuck.
Worker: two handlers are enough to read the depth side by side and to pass
together on the last free place of a queue of one; a second replica takes over a
partition and holds a depth of its own. Clients: a third instance lets a
replaced client be replaced while a send still waits for the first. Tasks: three
requests on two connections leave one waiting, and two writers of a task beside an
archive. Resilient client: with a limit of two, three calls make one wait, and a
shrunk limit makes two. Deployment: the settings are grids over the keys that
interact (sizes with hatches, times, retries, passwords, booleans and enums as they
may be written, every source against every other, files that cannot be read); the
theorem about them covers all others.

All bounds are constants: `MaxFaults` (crashes, lost sessions, failed or
unanswered COMMITs, lost acks, failed store calls and commits, expired results,
locks that expire beneath their request,
one-off handler errors), `MaxOutages`, `MaxOps`, `MaxRebalances`, `MaxStops`,
`NumEvents`, `LogLen`, `deployment.faults` of the worker (crashes, shutdowns, outages,
lost calls and partitions, slow and forgotten jobs), `MaxDeaths`, `MaxInFlight`. They bound how often the environment misbehaves and never
what the program may do.

Deadlock is checked in the outbox runs. In the others the system may stop: requests
have been answered, records settled, jobs worked off, a process has ended.

### Fairness

- Outbox: an armed timer fires and an ended pass schedules the next one (the
  event loop); a send settles (`message.timeout.ms`); a stopped process exits
  and is started again (the orchestrator); Postgres ends the sessions of dead
  clients; the broker comes back. Nothing is assumed of crashes, of writers or
  of the drain timeout.
- Consumer: handlers, sends and commits end; a backoff runs out; Reconnect keeps
  trying; a stopped process is started again; the group assigns every free
  partition to a running member. Nothing says that the broker or the downstream
  comes back: `EveryRecordIsSettled` has it as a hypothesis, `StopCompletes`
  does without. That a handler ends is a duty of the handler, which
  `KafkaConsumerRunner` does not bound by a timeout.

- Worker: handlers and jobs end, a second passes, the backend retries, takes back
  and serves its list, the group assigns, the orchestrator starts a process again.
- Clients: connects and sends end, back-offs and budgets run out, close hooks go on: the
  consumer's `stop()` to its end, and after it the producer's flush.
- Tasks: statements end, and the pool serves its queue in turn.
- Resilient client: the event loop runs what is ready, an attempt ends (undici's
  timeouts), the shutdown's timeout passes, a process that crashes exits.
- Deployment: statements, uploads and flushes end, timers fire, requests whose body has
  come end by their deadline. Nothing is assumed of a client that stops sending: a
  server that was told to close checks its `requestTimeout` no more (Node's behaviour,
  which is not in the repository: the model relies on no check).
  `EverythingEnds` therefore has it as a hypothesis that no closed listener is held open
  for ever (`[]<>~HeldOpen`).

Nothing brings a backend or a broker back in these either: `EveryEventIsWorkedOff` and
`ClientsComeBack` have it as a hypothesis (`<>[]queueUp`, `<>[](broker = "up")`).

Weak fairness throughout, but for each request of `Tasks`, which the pool's queue
makes strong, and for `Delivers`, which is strongly fair: a partition
that keeps failing is paused for at least a second between two attempts, in which
the handler slot it shares is free for any other partition with a record. Under
weak fairness one stuck partition could take the slot again and again. The interceptor has no liveness property: it answers
because every call it waits for is bounded by the budget.

### What the properties mean

- `DeliversAtLeastOnce`: accepted is committed, pending is in the table,
  published is in Kafka. A row leaves the table only when Kafka has it.
- `DuplicatesAreBoundedByFaults`: the batch's partial commit really keeps the
  acknowledged rows from being sent again; only a fault costs a duplicate.
- `ExtraRunsAreExcused` is what "at most once" comes to: the interceptor fails
  open and has no fencing token, so each fault, each spent budget and each
  corrupt entry may cost one more execution, and nothing else may.
- `HolderOwnsTheEntry`, `AnswerIsKept`: races alone do no harm. Between its SET NX and
  its set or del a request finds its own lock in the store, and once it has answered
  within its budget the store keeps that result: no request that loses the race, fails,
  runs out of time or has another body takes it away. An eviction, a late write and a
  lock that expired too early are the exceptions, which `ExtraRunsAreExcused` and
  `ReplaysItsOwnRequest` do not have.
- `RedeliveryHasACause`: failed commits and outages of the broker alone
  redeliver nothing, because the member goes on from its own position.
- `RetriedBeforeParked`: a count in `attempts` may survive a lost partition or
  be about an earlier record; it never parks another record early.
- `RunsAreExcused`: a job whose handler returned runs to its end again only after
  the backend took it back from a slow worker or dropped it, and the attempts are
  bounded however throws, crashes and stalls mix.
- `BacklogIsBounded` is the true form of `WORKER_QUEUE_MAX_WAITING`: with `c` handlers
  per replica, at most `replicas * (c * MaxWaiting + c * (c - 1) / 2)` jobs, and one for
  each fault. The run has one and two handlers; an earlier form, with `c - 1` in place of
  the last term, passed it and was refuted by the attempt to prove it: three handlers
  may overshoot three times (6 jobs at `MaxWaiting` 1, which TLC then found too, and
  which is as many as the bound now allows). For more than two the theorem
  `BacklogBound` speaks.
- `PutOnce` is the comment "Nothing was enqueued, safe to wait" of `send()`.
- `KeepsThePromise` has one exception: who names a version before it is issued may
  archive a second time (section 4).
- `OneProducer` counts the clients that still connect, too.
- `NothingLeftBehind` has the timers of stopped loops, and holds but for a consumer that `stop()` met between its last look
  at `stopped` and `run()`: that one consumes until the process exits.
- `AnswersAreTrue`: 2xx means committed, 404, 409 and 504 mean not committed; only a 500
  leaves it open, after a COMMIT whose answer was lost.
- `PoolIsClean`: no request ever works in another's transaction.
- `OrderHoldsPerRelay` takes "per relay" of the source at its word: with two relays and no
  fault at all, one may hold the earlier row of a key in a batch that is slow while the
  other sends the later one. It is the only way a row is overtaken that no mishap of its
  own explains; with one relay there is none.
- `LimiterIsSound`, `OneInFlight`, `AttemptsKeepToTheirTime`: the slots are those of the
  attempts that are out, whoever waits is in the queue or has been woken, and nobody is
  in the queue beside a free slot; callers of one key wait
  for one execution; a passed deadline is reported only where the one who made the
  execution had a budget, and ran out of it or was aborted by his own signal; and who
  is told not to try again has nothing of its own still on its way.
- `EverythingSettles`: every call is answered and its execution ends, unless the process
  exits first, which it does only where calls are coalesced (`OnlyCoalescingCrashes` is
  the theorem).
- `EverythingEnds`: a process that is told to stop does, unless the client of a stalled
  body holds one of its closed listeners open.
- `SchemaIsSound` allows one irregularity: a file without a transaction, over which a
  runner died, is carried out again.
- `ProcessIsSound` has the configuration (`ConfigIsSound`, `SecretIsUsed`), the captures,
  the probes and the hooks. It speaks of the escape hatches where the loader does not
  protect an option from them: times may be set past each other by a hatch.

## 4. Findings

1. `outbox_unroutable`: `migrations/0001_init.sql:18-20` promises that a row
   whose send keeps failing is left aside after `OUTBOX_MAX_ATTEMPTS` "instead
   of blocking the batch". `outbox.relay.ts:209-225` counts only rejections. A
   batch full of rows of an unprovisioned topic is selected again and again,
   and everything behind it waits until an operator acts. `EveryEventIsPublished`
   holds as long as the unroutable rows leave room in a batch.
2. `idempotency_release`: the lock is documented as released on error. When the
   error is the spent budget, the `del` has no budget either and is rejected
   before it is sent; the key answers 409 until the lock's TTL is over. For the
   same reason a result may stay unsaved after a COMMIT, and a retry of the
   client after 30 s runs the handler again: one of the excuses of
   `ExtraRunsAreExcused`.

Differences between code and comments that no run shows on its own, because the
models state what the code does:

- `task-events.consumer.ts:41-43` says that the queue holds
  `WORKER_QUEUE_MAX_WAITING` jobs. Handlers side by side, replicas and lost answers
  exceed it, by no more than `BacklogIsBounded` allows. `job-queue.ts:18-19` has a job
  taken back after 30 s; on BullMQ only when its lock is not renewed.
- `tasks.tsp:205` has archiving as terminal ("archiving an archived task is a 409
  problem"), and `task.use-case.ts:7-10` says that the UPDATE's `WHERE version` makes
  "check, then write" safe. It compares the version the request names with the row's,
  and not the one it read; `tasks.dto.ts:60,68` take any integer. A request that names
  the next version reads the task active, waits while another archive issues that
  version, and archives a second time (`sql-task.repository.ts:191-197` has no condition
  on the status). Two archives that name 1 and 2 of a fresh task show it: without the
  `guessed` in `VersionedTasks` TLC finds the second one.
- `resilient-client.ts:393`: `void promise.finally(...)` makes a second promise that
  nobody catches. A coalesced execution that fails is an unhandled rejection besides, and
  `crash-report.service.ts:85-88,207` then ends the process, whatever the caller or its
  fallback does with the error; 139-149 document neither.
- `resilient-client.ts:534` takes any timeout of the merged signal for the budget's
  (736-740). A caller with an `AbortSignal.timeout` of its own (`resilient-fetch.ts:28`)
  is told `deadline_exceeded`, which is never retried, with budget left; 168-174 have it
  for a spent budget.
- `admin-server.service.ts:173-175` ends "a request still running" before
  `server.close()`; the abort reaches CPU profiles only, and `readBody` (517-528) has no
  timeout, so a stalled `PUT /loglevel` body holds the exit open until the client or the
  orchestrator ends it. `app.ts:64-66` has the request budget bound the receiving of a
  request; nothing in the repository does once the listener is closed.
- `resilient-client.ts`: line 699 says that a body that is too large skips the cache,
  but what was read of it is cached. `Math.ceil(limit * 0.9)` (267) never shrinks a limit
  of 9 or less, against lines 86-93 and 104-107. A call that joined another
  (385) does not get its own fallback (141-144) and lives on the first one's budget. The
  breaker's timeout leaves its action running and is reported as `network`;
  `OutboundError.timeout` is never used. A second call on a half-open breaker gets
  `network` and not `circuit_open`. The pool drops a target's `timeout`, documented as
  "Request timeout ms". Refreshes are not in `#inflightMap`: an older answer may replace
  a newer one in the cache.
- The breakers read booleans on their own (`circuit-breaker.builder.ts:81-85`):
  `DATABASE_CB_ENABLED=True` passes the loader and turns the breaker off, against
  "never a silent fallback" (`config.values.ts:10-12`). The model has the one direction
  that holds: a breaker at work was switched on.
- `VALKEY_MAX_RETRIES_PER_REQUEST=" null"` passes the loader, which trims it, and is no
  null for the builder. An enum is accepted in any case and handed on as written:
  `DATABASE_SSL_MODE=DISABLE` counts as enabled. `VALKEY_URL` is not parsed by the
  loader, so `--check-config` passes a text that ends the bootstrap.
- `toBullMqOptions` "forces" `maxRetriesPerRequest: null`, but the hatch is laid over
  it last. The hatches may also set `session.timeout.ms` past
  `max.poll.interval.ms`, which the loader's `atLeast` compares for the keys.
- `kafka-config.builder.ts:100` says that the password file is read once; it is read on
  every connect, and one that cannot be read does not end the start but is retried by
  `Reconnect`. `DATABASE_RATE_LIMITER_*` is read and not in the registry; no entry is
  `required`, so `missingRequiredKeys` never has a finding. `*_RETRY_MAX_ATTEMPTS` is
  described as including the first attempt, while `withRetry` makes that many retries.
- An image that is left behind refuses to migrate ("applied migration X is
  missing"), so it does not start again after a restart. An image that lacks an
  earlier version nobody applied is not noticed: the order of files needs
  `ImagesAreHistories`.

## 5. Proofs

All theorems hold for every number of replicas, requests, members, partitions,
records, tasks, connections, runners and settings, and every bound; they rest on the
named assumptions of the modules (`OutboxAssumption`, `IdempotencyAssumption`,
`ConsumerAssumption`, `TasksAssumption`, `MigrationsAssumption`, `ProcessAssumption`),
`ClientsAssumption`, `ClientAssumption`, `WorkerAssumption` and `FiniteAssumption`:
finitely many workers, partitions and events), which TLC evaluates in every run. A few
theorems have a hypothesis of their own: `OneRelayKeepsOrder` that there is one relay, `SchemaStaysSound` that images are histories. Every safety property
of a passing run is stated by a theorem.

Five of the proofs count. Their pattern is one: next to what has happened (copies of a
record, runs of a handler, jobs in the list) the invariant counts what may still happen
without a further cause, as the cardinality of a set of actors or tokens; both together
never exceed the causes there have been. `Paid` says what a step may do to this account:
let the right to one more copy pass to another actor, use it, or add a cause. Each
action is shown to be `Paid`, and `Paid` to keep the account, once and with arithmetic on
cardinalities alone. TLC checked each of these invariants on the run's instance first.

**Outbox** (`OutboxRelayProofs`). The inductive invariant `IInv` adds three parts
to the types. `RowInv`: a relay with a row in its batch is `busy` and the row's
transaction is committed; while its session lives it holds the row's lock, the
row is in the table and below `MaxAttempts`; a row counted as sent has a record
in Kafka, one counted as poison is `Rejected`. `EventInv`: what is in the table
or in Kafka is committed, what is committed is in one of them, and `attempts`
are only those of `Rejected` rows. `ShutdownInv`: a relay past SIGTERM is in its
last pass or stopped. Exclusive rows follow from the lock being one value per
row. The refinement needs the sent rows to be in Kafka, since DELETE is a
`Retire` step only if what it deletes was published. Each step of the relay maps
to a step of `AtLeastOnce` or to none (`StepRefines`); `OutboxLosesNothing` is
then a property of the abstract channel. `DuplicatesHaveFaults`: the account of an event
has its copies, the send a batch with a session may still make (`Open`), and the sends of
relays whose session is gone (`Zombies`); a pass that rolls back has acknowledged
nothing, or a fault has been charged. `OrderIsKeptPerRelay`: rows are
written in the order of their ids (`WrittenInv`); while a batch has a row, every earlier
one of its key that waits is being sent, by this relay or another (`BatchInv`, from
`FirstRowsPrefix`: a batch takes the first rows that are neither dead nor locked); and a
row that was counted, left behind or orphaned is disturbed (`BlameInv`). The producer
keeps the order within a batch, so whoever is overtaken is another relay's.

**Idempotency** (`IdempotencyProofs`). `ResultsAreReal`: a stored result and every
answer come from a request whose handler committed, and so does a `save` that may
still land; with that, replays match through any late write, expiry or crash.
`OwnerInv`, for the holder's ownership: as long as nobody has evicted, no late
write has landed and no lock has expired too early, nobody is about to evict and the
entry of every request between SET NX and set or del is its own lock. `KeptInv` adds
what the others may do without faults beside a stored result, for `AnswersAreKept`. `RunsHaveExcuses`: the account has the requests that ran and the
`Chances` of another run: a request that works with budget left or is about to clear the
entry, a late `del` that will, and the entry itself when it is free or its lock may
expire. SET NX, set, del, an expiry and a late write hand one chance on; only a fault, a
spent budget and an unreadable entry make a new one, and a lock that expires beneath its
request is a fault.

**Consumer** (`KafkaConsumerProofs`). `LogInv`: every record before `committed` and
before `position` is settled, and so is every record before a settled one.
`WorkInv`: every record before the `current` one of a busy phase is settled, and
in `committing` the current one too. This is what the code relies on when a stale
owner's handler runs on: whatever it settles next, all that precedes it has been
settled. `NothingIsSkipped` and `SettlesInOrder` follow. `ConsumerRetriesFirst`: a count
in `attempts` is never more than the failures of the record it is for, and a record at
`parking` has reached the limit or is `Permanent` (`RetryInv`, `ParkInv`).
`ConsumerRedeliversForACause`: the account of a record has its copies, the owner's or the
next owner's turn (`Coming`), the members that lost the partition with the record in hand
(`Strays`), and one in reserve for an owner that is stopping (`Leaving`).

**Worker** (`TaskWorkerProofs`). `HInv`: everything before a position or a commit is
enqueued or not ours, and a handler at `committing` has its record's job accepted.
`JInv` counts a job's starts and ends against what the job itself remembers (failures,
stalls) and what the backend took back or dropped. `BInv` is a potential: the waiting
jobs can be attributed to replicas such that what a replica has sent and its `Room`
never exceed its share. `Room` is what it may still send whatever it reads: the free
places of the cached depth and a tie at the last of them, those of each reading a handler
still holds (`Places`), and what handlers that are not held up may overshoot
(`Overshoot`). Storing an old reading trades the places it shows for those of the cache
(`ClassesCount` bounds the handlers at each await).

**Kafka clients** (`KafkaClientsProofs`). `OneLiveClient`: a client that connects or is
connected is the service's current one, and no timer of its loop is set then; a loop that
was stopped has none.
`WaitsForAClient`: a send in flight waits for a client that was connected when it took the
record, and `Closing` and `RunnerStops` say what each close hook has stopped. They give
`NeverTwoProducers` and `ShutdownLeavesNothing`; `PutsAreOver` gives `NeverPutTwice`.

**Resilient client** (`ResilientClientProofs`). `SlotsInv` ties `inFlight` to the
executions that are `held` or `sent` and the waiters to the queue or the woken; `Drains`
keeps both since it wakes a waiter for each free slot. `FlightInv`: the map has the
promise of the one keyed execution that is awaited. `ProcessInv`: the map has a promise,
and a failure ends the process, only where calls are coalesced. With `JobInv` and `ClosedInv` they
give `LimiterStaysSound`, `OneExecutionForAll`, `OnlyCoalescingCrashes` and the action
property `AttemptsKeepTime`.

**Tasks** (`TasksProofs`). `PoolInv`: a request has a connection to itself from BEGIN to
its release. `SessionInv` says what its session holds at each await, which is where
swallowed errors and spent budgets are told apart from work that may be committed.
`RowInv`: only who guessed goes by a version newer than the row's, and an archive at its
UPDATE saw the row active unless the row has moved on since or it guessed. `PendingInv` and `LockInv` are
the heart of the refinement: what an open transaction wrote is the promise's
next step from the row as it is now, because the row's lock keeps it so.
`AnswersTellTheTruth` and `ConnectionsComeBackClean` follow, and `TasksKeepThePromise`
maps COMMIT to `Creates` or `Writes` and everything else to a stutter
or, when a request is sent, to `Names`.

**Configuration and deployment** (`DeploymentProofs`).
`LoadedConfigIsSound`: for every setup without a `Problem`, the merged configuration is
sound. A key with a default always says something (`MergedSays`), what is said
parses, the hatches name none of the owned properties (`HatchesAreClean`), so sizes
that fit in the registry's terms fit in librdkafka's (`SizesFit`, `RoleKeeps`,
`KafkaStaysSound`). `MadePartsUseTheSecret` is the same for the secret file. With
`PhaseInv` (the gate is closed before the listener, the hooks find nothing in flight,
an unanswered probe was told nothing) they give `ProcessStaysSound`.
`SchemaStaysSound` has an invariant of four parts: who works has the lock
(`LockInv`); what a runner takes for applied is what is applied (`KnowsInv`); a file
done and not recorded is one at whose row a runner is or died (`OnceInv`); files
are carried out in order (`OrderInv`). That `Current` is the least pending file needs
well-founded induction on numbers. The order rests on `ImagesAreHistories`: an image
that has a file has all earlier ones, which a repository that only adds
migrations gives.

Only model-checked: liveness under fairness (`EveryEventIsPublished`,
`RejectedRowsAreParked`, `ShutdownCompletes`, `EveryRecordIsSettled`,
`StopCompletes`, `EveryEventIsWorkedOff`, `ClientsMakeProgress`,
`EveryRequestIsAnswered`, `EverythingSettles`, `EverythingEnds`), which is out of the
prover's reach, and what the two violations of section 4 show.

## 6. Plan

Done: the outbox, the interceptor and the consumer, in the order of what it
costs to get them wrong; then the worker, the Kafka clients, the tasks, the
resilient client, the deployment and the configuration; and the proofs of every safety
property the runs check. Next:

1. A composition of outbox, Kafka and worker over the abstract channel: a committed
   task's event reaches the job queue or the dead-letter topic. So far the modules
   meet in their interfaces: `AtLeastOnce` publishes a record perhaps twice, and
   `TaskWorker` starts from logs with such duplicates.

## 7. Not modelled

- Logging, tracing, metrics, redaction: they observe and change nothing.
- Contracts, API description, generated clients, benchmarks, dashboards, e2e and
  docker files: data, tooling and generated code; of `docker/stack.yml` the order of
  the services is in `Deployment`.
- The HTTP layer beyond the answers of `Tasks` and `Idempotency`: routing, validation,
  problem details and headers keep no state.
- The circuit breaker, the rate limiter per tenant and `withRetry` of
  `packages/resilience`: thin wraps of opossum, bottleneck and cockatiel that no app
  uses; their options are in `Configuration`.
- Of the resilient client: choosing the target, `rejectOnRateLimit`, a target without
  the adaptive limiter, headers, metrics; answer bodies are not told apart.
- Of diagnostics: files, uploads and collected metrics; of the admin server: routes
  that only read.
- The grammar of numbers, durations and URLs, and reading YAML: `Configuration` starts
  from what a text means.
- Durations everywhere: a timer says when a step may happen, never in what order two
  unrelated steps do.
