# Formal model of the multi-tenant messaging system

TLA+ modules, TLC configurations and TLAPS proofs for the Go program in `src/`:
an HTTP API and worker processes that share a PostgreSQL database and a RabbitMQ
broker, with one durable queue, one consumer goroutine and one worker pool per
tenant.

## 1. Inventory

Line numbers are those of `src/internal/services/tenant_manager.go` unless
another file is named.

| Component | State it keeps | Operations | What makes it correct |
|---|---|---|---|
| **Tenant consumer** (`TenantConsumer`, `runConsumer`, 22-28, 311-332) | the `WorkerPool` channel, `WorkerCount`, `StopChannel`, the AMQP channel and its `msgs` | receive a delivery, take a token, spawn a handler, return the token, stop | at most `WorkerCount` handlers; every received message reaches a handler; a stop signal ends the loop; nothing is started after it |
| **Resizing** (`UpdateConcurrency`, 160-218) | `WorkerCount`, the tokens, `tenant_configs` | update the row, add or remove tokens one by one, store the count | tokens and count agree afterwards, whatever handlers do meanwhile |
| **Stopping** (`DeleteTenant` 112-158, `StopAllConsumers` 220-246) | `tm.consumers`, `StopChannel` | signal or close, close the AMQP channel, forget the consumer | the channel is closed once; the consumer really stops |
| **Message handling** (`processMessage` 334-376 and its helpers to 508) | `messages.status`, `message_processing_logs`, `dead_letter_messages`, timers of delayed requeues, the `retry_count` header | log, store, complete, retry with back-off, dead-letter, acknowledge | a message accepted is in the end completed or dead-lettered; at most three retries; no duplicate work without a failure; the row tells what happened |
| **Publishing** (`services/message.go` 24-64, `handlers/message.go` 41-62, `services/rabbitmq.go` 43-64) | `messages`, the tenant queue | insert the row, publish, answer 202 | an accepted message has a row and a copy in the queue |
| **Tenant life cycle** (`CreateTenant` 61-110, `DeleteTenant`, `StartTenant` 45-59, `StartConsumer` 261-309) | `tenants`, partitions of `messages`, the queue, `tm.consumers` of each process | create, delete (soft), restore at worker start | a live tenant has a row, a partition, a queue and a consumer; a deleted one has neither queue nor consumer |
| **Worker process** (`cmd/worker/main.go`) | its own `TenantManager`, an exclusive control queue | restore tenants, obey create/update/delete control messages | agrees with the API process about which tenants exist |
| **API process and shutdown** (`internal/server.go`, `services/shutdown.go`) | HTTP server, `TenantManager` | serve, stop all consumers, shut the server down | no consumer and no half-done request is left |
| **Listing** (`services/message.go` 66-94, `handlers/message.go` 74-102) | none | a page of messages and a cursor | every message appears on exactly one page |
| **Configuration** (`internal/config`, `pkg/util`) | none | defaults, YAML, environment | the documented variables take effect |
| **Data access** (`internal/models`, generated, with a file for each of five tables) | three statement caches per table under a RWMutex; objects with their `R` structs | `Insert`, `Update`, `Upsert`, `Delete` and their bulk forms; `AddX`, `SetTenant`, the eager loaders, `Reload` | a call runs the statement its arguments call for; the object a caller holds is the row; links and foreign keys agree |
| Authentication (`middleware/auth.go`, `handlers/auth.go`) | none | sign and check a token | not modelled: the middleware is attached to no route |
| Monitoring (`services/monitoring.go`) | gauges | nothing calls it | - |
| API documentation (`docs/`, generated) | none | a text | - |

How they interact: the API handlers call `TenantManager` and `MessageService`;
both use the one AMQP channel of `RabbitMQService` to declare, delete and
publish, while each consumer has a channel of its own. Handlers run in
goroutines of the process that consumes the queue, and a delayed requeue in
another one. The API process starts the consumer of a tenant it creates, a
worker process those of the tenants it finds in the database when it starts;
several processes may so consume one queue. Nothing in `src/` publishes to the
control exchange.

What is hard: a resize runs concurrently with the handlers that hold the tokens
it counts; messages are acknowledged by hand after a chain of database writes
whose errors are ignored; a retry exists only as a sleeping goroutine between
the acknowledgement of the old copy and the publication of the new one;
publications are not confirmed, so that a copy for a deleted queue is dropped
and nobody told; the closing of an AMQP channel hands messages that are being
handled to someone else; and nothing subscribes or connects again after a loss.
The list of hazards with lines is `hazards` in `PROJECT.json`.

## 2. Modules

### Semaphore and WorkerPool

`WorkerPool` is one tenant's consumer in one process. Its variables are the
fields of `TenantConsumer` and where its goroutines stand:

| Variable | Code |
|---|---|
| `loop` | where `runConsumer` is: in its select, holding a delivery, holding the zero delivery of a closed `msgs`, returned |
| `backlog`, `open` | what the client library holds for `msgs`, and whether the broker still feeds it |
| `tokens`, `busy`, `returning` | `len(WorkerPool)`, handlers inside `processMessage`, handlers at their deferred send |
| `count`, `stop`, `registered` | `WorkerCount`, `StopChannel` closed, present in `tm.consumers` |
| `mu`, `target`, `left` | the operation that holds `tm.mutex`; the requested count and the iterations a resize still has to do |
| `growMiss`, `shrinkMiss` | history: sends and receives of resizes that took the `default` branch |

`ReceiveStop`, `ReceiveDelivery`, `ReceiveZero` and `Spawn` are `runConsumer`,
`Finish` and `Return` a handler, `BeginResize`, `GrowStep`, `ShrinkStep` and
`StoreCount` `UpdateConcurrency` after its database update, `DeleteStops`,
`StopAllSignals` and `CloseChannel` the two ways to stop. An operation holds the
mutex, the goroutines do not, so every channel operation is a step of its own.
`Deliver` and `LoseSubscription` stand for broker and client library. A resize
can be reached only if `tenant_configs` has a row for the tenant; nothing in
`src/` inserts one, so the module describes what happens once somebody has.

`Semaphore` is the promise: permits are taken and given back one by one, an
operator adds or withdraws permits, and only free ones can be withdrawn.
`WorkerPool` maps `permits` to all tokens, wherever they are, and `inUse` to the
handlers.

### MessageFlow

`MessageFlow` is the life of one tenant's messages over several processes. A
message is what a client posted; a *copy* is one publication of it, with its own
`retry_count` header (`retry`). `place` and `holder` say where a copy is (in the
queue, delivered and not acknowledged, or in the sleeping goroutine of a
retry), `job[c][p]` what process `p` is doing with it, between which database
calls of `processMessage`. `row` is `messages.status`, `dead` the rows of
`dead_letter_messages`, `queue` whether the tenant's queue exists, `link[p]` what
`p` has of the broker: a subscription, a consumer whose subscription the broker
has cancelled, a connection without a consumer, or nothing. A copy the broker
takes back may have two jobs: the new one and the stale one of the lost channel.

| Action | Code |
|---|---|
| `InsertRow`, `PublishMessage` | `MessageService.Publish` |
| `Receive`, `Start` | delivery by the broker; `runConsumer` takes a token |
| `Store`, `Complete` | `handleBusinessLogic`, `updateMessageStatus` |
| `Retry`, `Wake` | `requeueMessage`, and its goroutine after the sleep |
| `DeadLetter`, `Ack` | `sendToDeadLetter`, `delivery.Ack` |
| `LoseChannel` | the consumer channel closes (`StopAllConsumers`, `DeleteTenant`, or the broker) or the connection breaks; the broker takes its copies back |
| `DeleteQueue` | `DeleteTenant` 133: copies in the queue, and those delivered from it, are gone, and other consumers are cancelled |
| `RestartBroker` | the broker ends and is started again; connections and (transient) copies are lost, the durable queue stays |
| `Restart` | the process ends and is started again; a worker declares the queue and consumes again (`main.go` 50-65), or its `StartTenant` fails and it goes on; the API starts no consumer |

A publication (`Enqueued`, `Dropped`, `Rejected`) has no confirm, no mandatory flag
and no persistence: it puts a copy into the queue if there is one, it is dropped
with a nil error if there is none or the broker does not get it, and it is an
error on a connection that is lost. `excused` remembers the messages of which a
copy, or the dead letter, was destroyed in one of these ways; it is history, and
no step depends on it.

`MaxTroubles` bounds the calls that fail and, counted twice, the disruptions,
which `MaxDisruptions` bounds on their own. `Copy` bounds the copies that exist at
one time and is large enough in every run that a retry never lacks one. How many
handlers run is bounded as `Semaphore` promises (`MaxRunning`).

`headerType` is the Go type the client library gives a decoded integer header,
one of `HeaderTypes` for the whole of a behaviour. `go.mod` pins amqp091-go v1.10.0,
which yields `int32`; `getRetryCount` expects `int`. Every property of the run
`flow` holds for both, and the theorems for any. With `int32` no dead letter is
ever written, so what is said of dead letters is worth something only for `int`.

### Delivery

`Delivery` is what message handling promises: at-least-once delivery. A *claim*
is somebody's duty to bring a message to an end. A message is posted with one
claim (`Post`), or the broker drops it (`PostInVain`); a claim passes on (`Pass`: a
retry), or ends with an outcome, one outcome for one claim (`Handle`, `Bury`,
`Lose`); only the loss of a channel, a process, the queue or the broker (`Disrupt`)
makes more claims of one, and takes away the last one only of a message that has
an outcome or is recorded as lost. `MessageFlow` maps `claims` to the copies in
the queue or asleep, the handlers the broker waits for, and the handlers whose
copy it has taken back (`Claimed`).

### TenantRegistry and TenantLifecycle

`TenantLifecycle` has the tenants in the database, the broker and the
`TenantManager` of the API and of worker processes.

| Variable | Code |
|---|---|
| `row`, `partition`, `config` | `tenants` (status and `deleted_at`), the partitions of `messages`, `tenant_configs` |
| `queue`, `subscribed`, `linked` | the tenants' queues, the consumers the broker feeds, the processes with a connection |
| `pool` | `tm.consumers` of each process, with `WorkerCount` |
| `mutex`, `openTx` | the holder of `tm.mutex`; transactions begun and not ended |
| `phase`, `restore`, `declared` | where `main` is; the tenants a starting worker has read and not started; the one whose queue it has declared |
| `op` | the call each request or control message comes to next |
| `answer`, `maker`, `doomed`, `deletedBy`, `updater`, `unrouted`, `cut` | history |

| Action | Code |
|---|---|
| `BeginCreate`, `InsertTenant`, `CreatePartition`, `CommitTx`, `DeclareQueue`, `ConsumeQueue` | `CreateTenant` 61-110 (`BeginTx` and its error in the first) with `createMessagePartition` and `StartConsumer` 261-309 |
| `BeginDelete`, `LockDelete`, `StopConsumer`, `DeleteTenantQueue`, `SoftDelete` | `DeleteTenant` 112-158 |
| `BeginUpdate`, `LockUpdate`, `UpdateConfig`, `Resize` | `UpdateConcurrency` 160-218; the inside of the resize is `WorkerPool` |
| `BeginPublish`, `InsertMessage`, `RouteMessage` | `MessageService.Publish`, as far as partition and queue matter |
| `Boot`, `RestoreQueue`, `RestoreConsumer`, `Restored` | `cmd/worker/main.go` 50-65, `StartTenant` 45-59 |
| `ControlEnds`, `Signal`, `StopAllConsumers`, `CloseServer`, `Exit` | `services/shutdown.go`, `StopAllConsumers` 220-246 |
| `Kill` | a crash, at any point |
| `CancelConsumer`, `LoseConnection` | the broker cancels a consumer or its channel breaks; the connection breaks; nothing subscribes or connects again (278-332) |
| `InsertConfig` | nobody: no code inserts into `tenant_configs`, an operator must |

The error paths of every call are disjuncts of its action. Some behaviour a
reader may not expect, and the model has: the row is inserted outside the
transaction that is begun for it, and a creation that fails neither removes it
nor ends the transaction; the restored worker count is `tenants.current_workers`,
which an update never changes; deleting a tenant again succeeds; `wg.Wait` returns
at once since nothing is added; a worker reaches its shutdown code only when its
control channel has been closed; deleting a queue cancels the subscriptions of all
processes, whose `tm.consumers` keep the entry, and so do those of a process that
lost its channel or connection; a tenant can be named in a request from its insert
(82) on, so a deletion may come between any two steps of its creation, which then
goes on; a `PUT` may ask for any count, 0 and negative ones too. One `create` control message
creates one tenant in every worker that receives it; the run has one worker.

`TenantRegistry` is what users of the life cycle may rely on: a tenant is absent,
then live, then deleted for good; only a registered one is served; and a process
that deletes it does not serve it at that moment, and not later either, unless it
was still creating it. `makers`, `servers` and `retired` map to the processes that
are creating a tenant, that have it in `pool`, and that have reported it deleted
(`deletedBy`): `Retire(t, p)` asks that `p` is no server and makes it `retired`, and
`Join` and `Complete` are closed to a retired process. Any process may delete a
tenant again, and others may serve a deleted one: the code lets them.

### Statements, Relations, Listing, ConfigResolution

Four parts that do not interact with the rest beyond the database; `Access`
instantiates each, and a behaviour is one of a single part. `MCAccess` gives its
constants their values.

`Statements` is `Insert`, `Update` and `Upsert` of the five generated files: `Lookup`
takes a statement from a cache under the read lock or builds it, `Execute` runs it
against the rows (with its keys, required columns and conflicts, or an error),
`Store` puts it into the cache under the write lock. The columns of the tables are
those of the source; a value is who wrote it. The cache keys are the strings the
code makes (`makeCacheKey`, `UpsertKey`), without separators, since whether they
tell statements apart is the question. `Upsert` has all its arguments: whether to
update, the conflict columns (by default the primary key), the columns to update
and to insert, and an option, `UpsertUpdateSet` or `UpsertConflictTarget`. The key
does not hold the options, which the properties except. Of unique constraints
other than the primary key `Conflicts` leaves open whether another row has the
same values.

`Relations` is a tenant object and the three kinds of objects that belong to it:
the links in the `R` structs, the foreign key in the object, and the one in the
row. `AddX` takes any slice, one with the same object twice or two objects of one
row included. `AddChildren`, `SetTenant`, `LoadChildren`, `LoadTenant` and `Reload` change some
of these and leave others; `torn`, `moved` and `rewritten` remember after which
operations less can be promised. Both modules are about generated code:
`src/` itself calls `Insert` of tenants and messages, `Update` of tenants, `UpdateAll` of
tenant configurations and some queries; the rest, `Upsert` and the relations
included, has no caller but tests and is modelled as what its callers would get.

`Listing` is `GET /v1/messages`: limits, cursors, and the extra row that decides
about `next_cursor`. `received` has the cursors clients were given. A positive
cursor is compared with UUIDs, so every page but the first is an error, which the
handler sends with status 200; a negative cursor is ignored by the query and may
hide `next_cursor`.

`ConfigResolution` is `NewConfig` and `pkg/util`: which of `config.yaml`, `.env`,
environment and defaults a setting comes from. A scalar in the place of the
section, in the file or in a variable `DATABASE` or `RABBITMQ`, hides the keys below
it from viper; then the URL is empty, default or not.

## 3. What the runs show

| Run | Bounds | Question and answer |
|---|---|---|
| `pool_any` | capacity 2, counts -1, 1, 2, 4, three resizes | Tokens, handlers and `WorkerCount` stay accounted for (`PoolAccounting`), `StopChannel` is closed once (`StopClosedOnce`), the pool is a semaphore (`IsSemaphore`), at most `WorkerCount` handlers run between resizes until one misses a busy handler (`ConcurrencyLimit`), the channel is never overfilled (`TypeOK`), also for counts no one should ask for. |
| `pool_within` | capacity 2, counts 1 and 2 | The pool has never less rights than the count (`NeverBelowCount`), so each delivery gets a handler (`EveryDeliveryHandled`), a stop ends the loop (`StopEndsLoop`) and the handlers end after it (`AllWorkersReturn`). |
| `pool_shrunk` (violation) | capacity 2, one resize | After a shrink that met busy handlers more handlers run than the count. |
| `pool_starved` (violation) | capacity 2, counts 2 to 4 | 2, then 4, then 2 workers: no token is left and the tenant's loop waits for ever. |
| `pool_stopped` (violation) | no resize | A consumer reported as stopped starts handlers for zero deliveries. |
| `flow` | one message, two processes, five troubles (a failing call is one, a disruption two), header `int` or `int32`; 134,281 states | `NothingVanishes`: an accepted message is owed or settled, unless it is `excused`. `OneOutcome`, `DeadAfterRetries`; message handling implements `Delivery` (`IsDelivery`); while nothing is lost a completed row stays completed (`CompletedStays`; a lost channel lets a second handler write `processing` over it for good); under fairness `EventuallySettled`, as long as somebody consumes the queue. |
| `flow_unbounded` (violation) | five faults, header `int32` | With the real header type a message is attempted a fifth time; nothing bounds it. |
| `life` | one tenant, the API and one worker, two requests at a time and three in all, counts -1 and 1, one failure (a call, a subscription, a connection), two starts; 559,467 states | `CreatedIsComplete`, `DeletedStaysStopped`, `ConfigAgrees`, `AcceptedIsRouted`, `NothingWithoutRow`, `MutexOwner`; the life cycle implements `TenantRegistry` (`IsRegistry`). |
| `life_rollback` (violation) | the same | A creation answered with an error leaves a live tenant. |
| `access` | statements: two goroutines, two calls, two keys; relations: three objects of each kind, two keys, four operations; listing: 21 messages, two requests; configuration: all combinations of sources; 253,550 states | Cached statements are the right ones (`RightStatement`), write only what was asked for (`OwnColumns`) and leave the object equal to the row (`Mirror`); links and keys agree (`KeyAgreesWithPointer`, `ListedWherePointed`, `InOneList`); a client is not told a part is the whole (`PagesAreHonest`); a URL in the environment wins (`EnvironmentWins`). |
| `access_paging` (violation) | two messages, two requests | `CursorsLeadOn`: the `next_cursor` of a page gets an error, so nothing but the first page can be read, although the handler's comment and the README speak of cursor pagination. |
| `access_config` (violation) | all combinations of sources | `DocumentedVariablesTakeEffect`: `PSQL_HOST`, `RABBITMQ_HOST` and the like, which `README.md` and `.env.example` name, are not used: the default of the URL stands before them. |

The same trace that makes `pool_shrunk` fail also makes a later grow find the
channel full ("this shouldn't happen", 194) and, once all handlers return, one
of them wait for ever at its deferred send: `shrinkMiss = 0` in
`ConcurrencyLimit` and `AllWorkersReturn` excludes just that.

What `docker-compose.yml` sets (`DATABASE_HOST` and so on) is hidden by the default
URL in the same way; and without a `config.yaml`, and with no `.env` in the image,
`util.LoadEnv` ends the program.

`PagesAreHonest` speaks of the pages there are: those of cursor 0, and of negative
cursors, which no answer gives and which may hide the rest. What becomes of the
cursors that are given is `CursorsLeadOn`.

Why the bounds suffice. *Pool*: three resizes are one more than every
counterexample needs (grow, shrink, and one to see the effect), and a capacity
of two has an empty, a partly filled and a full channel. *Flow*: four failures
lead to a dead letter, so a fifth lets the dead letter's own insert fail; two
disruptions make two lineages of a message, which is what duplicates need, or
delete the queue of a process that has lost its channel before (each with one
failing call left).
*Life cycle*: the operations of different tenants meet only in the mutex, so one
tenant with two requests of any kind at a time has their interleavings; three
requests make create, delete and a second deletion, an update or a publication
next to either; two starts are both processes, or one of them
twice. *Access*: inferred columns and a whitelist for every table, for
`tenant_configs` a blacklist and a longer whitelist too; calls of `Upsert` that differ
in each argument; a call that finds an entry needs another that stored it; four
operations are two creations, a link and a load. 21 messages are one more than
the default page. What is proved (section 4) has no bound.

Deadlock checking is off in the pool and flow runs (a consumer is stopped for
good, and a set of messages is settled for good) and in `life` and `access`, where
requests, starts, calls and operations are bounded and the bounds can be used up.

**Fairness.** Goroutines that can run do run (weak fairness of the loop, of each
handler, of the operation that holds the mutex), and Go's select chooses among
ready cases at random, so a closed `StopChannel` is not passed over for ever
(strong fairness of `ReceiveStop`). The broker delivers to a consumer that is
there, and timers expire. Clients, operators and failures are under no
obligation. `EventuallySettled` takes for granted that a handler gets a token of its
pool in the end: `EveryDeliveryHandled` says for which resizes that is so, and
`pool_starved` that it is not for all. `TenantLifecycle` and the access modules state no fairness: a process
may end at any time, and what they promise is safety. That no one waits for the
mutex for ever rests on `MutexOwner`: the holder is a request past its lock, and
every one of its further steps is enabled.

Every property of a passing run has a mutant in `PROJECT.json`, an operator next
to the definition it replaces, that TLC finds to violate it.

## 4. What is proved

| Theorem | Says, for all values of the constants |
|---|---|
| `WorkerPoolProofs!TypeCorrect` | `[]TypeOK` |
| `WorkerPoolProofs!Accounting` | `[]PoolAccounting` |
| `WorkerPoolProofs!ClosedOnce` | `[]StopClosedOnce` |
| `WorkerPoolProofs!EnoughSlots` | `[]NeverBelowCount`, if `Targets` is a subset of `1 .. Cap` |
| `WorkerPoolProofs!Limit` | `[]ConcurrencyLimit` |
| `WorkerPoolProofs!Refinement` | `IsSemaphore` |
| `MessageFlowProofs!TypeCorrect` | `[]TypeOK` |
| `MessageFlowProofs!Vanishing` | `[]NothingVanishes` |
| `MessageFlowProofs!DeadLetters` | `[]DeadAfterRetries` |
| `DeliveryProofs!DeliveryInvariant` | `[]DInv`, the inductive invariant |
| `DeliveryProofs!Outcome` | `[]OneOutcome` |
| `DeliveryProofs!Completed` | `CompletedStays` |
| `DeliveryProofs!Delivers` | `IsDelivery` |
| `TenantLifecycleProofs!Invariant` | `[]IInv`, the inductive invariant |
| `TenantLifecycleProofs!TypeCorrect` | `[]TypeOK` |
| `TenantLifecycleProofs!RowComesFirst` | `[]NothingWithoutRow` |
| `TenantLifecycleProofs!CreatedComplete` | `[]CreatedIsComplete` |
| `TenantLifecycleProofs!DeletedForGood` | `[]DeletedStaysStopped` |
| `TenantLifecycleProofs!ConfigInStep` | `[]ConfigAgrees` |
| `TenantLifecycleProofs!AcceptedRouted` | `[]AcceptedIsRouted` |
| `TenantLifecycleProofs!MutexHeld` | `[]MutexOwner` |
| `TenantLifecycleProofs!Refinement` | `IsRegistry` |
| `AccessProofs!EnvironmentAlwaysWins` | `[]EnvironmentWins` |
| `RelationsProofs!RelationsHold` | `[]RelationsInv`, the inductive invariant |
| `RelationsProofs!KeyAlwaysAgrees` | `[]KeyAgreesWithPointer` |
| `RelationsProofs!AlwaysListedWherePointed` | `[]ListedWherePointed` |
| `RelationsProofs!AlwaysInOneList` | `[]InOneList` |
| `StatementsProofs!StatementsHold` | `[]StatementsInv`, the inductive invariant |
| `StatementsProofs!ObjectMirrorsRow` | `[]Mirror` |
| `StatementsProofs!OnlyOwnColumnsChange` | `OwnColumns` |

Assumptions: `PoolAssumption`, `FlowAssumption` and `LifecycleAssumption`, types of
the constants only (that the API process is no worker, that `Nobody` and `NoProc`
are nobody, that bounds are natural numbers, that a new tenant's count is
positive). Those of `Access` are: `CursorsAreNumbers` (a cursor is what `strconv`
makes of a string), `FinitelyMany` (there are finitely many objects and keys; a
loader lists the rows it found), `KeysAreNotVaried` (no caller changes a primary
key through `UpdateAll`), `KnownOptions` (the options of `Upsert` are those there
are), and `KeysTellApart`: two calls with the same cache key have the same column
lists and conflict columns, and objects with the same columns set. The last one
is a fact about strings, which the provers know nothing of. It holds because no
column of a table has a name with which another one of it begins, and none has a
dot, so the string can be read back column by column; that needs callers to name
columns of the table only. TLC evaluates it for the columns the run asks for, and
what it says for all lists and sets of up to two columns of each table
(`KeysOfAllTables` in `MCAccess`). Only `OwnColumns` rests on it. That a call runs
its own statement (`RightStatement`) is next to the same thing, so it is left to
TLC, which computes the strings.

`PoolAccounting` is inductive together with `TypeOK`: every channel operation
changes the number of rights or a miss counter by one, and `Wanted` with it.
`NeverBelowCount` needs that `count` and `target` stay in `1 .. Cap`; the one
difficult case is a send that finds the channel full, where `Cap` tokens are in
it and no more are wanted. `StopClosedOnce` needs the states in which a resize
holds the mutex (`StopInv`). `ConcurrencyLimit` follows from the accounting.

`NothingVanishes` needs `JobInv`: as long as its channel is open, a process
works only on copies the broker holds for it. Without that an acknowledgement
could remove a copy that is somebody else's, and a lost channel could drop a
delivery the broker does not repeat. Handlers whose channel is lost, or whose
queue is gone, do not count as owing anything, which makes the invariant stronger
than the runs alone need and inductive. `DeadAfterRetries` needs `HeaderInv`: the retry header never claims
more failures than there were, and while a failure is being handled it claims at
least one less.

`OneOutcome` and the refinement of `Delivery` rest on `DInv`.
`PostedInv`: no copy, outcome or failure without a published request, so a
publication meets none. `OneLine`, while nothing is lost: every handler works on
a copy the broker holds for it, a message has at most one copy somebody is
responsible for, and none once it has an outcome. `CompletedStays` follows from `OneLine`
with `RowInv`, that a completed row's message was handled. The refinement maps each step by what
it does to the set of claims: nothing (`SilentSteps`), the end of one (`Ends`),
its replacement (`RetryPasses`), the loss of a publication, or anything (`Disruptions`); there `NothingVanishes`
of the new state is what shows that the last claim of a message disappears only
if that is closed.

The properties of the life cycle are conjuncts or consequences of `IInv`
(`TenantLifecycleInvariant`, one lemma per action). `CreationsOK` is its heart: a
tenant that is being created has what the earlier steps of its creation made, until
somebody asks to delete it: nobody else removes its row, partition or queue; so
each step of the creation may rely on them. `OthersOK` says the same of deletions
and publications, `PhasesOK` that a process that starts has no requests, `AbsentOK` that a tenant
without a row has left no trace, `DeletedOK` that a process that deleted a tenant
is neither restoring nor creating it either, `UpdatesOK` that an update knows the count it wrote.

What is proved of a part of `Access` holds in the composition by the lemma
`PartsAreImplemented`. `ConfigInv` says that a `.env` was read only where there is
no `config.yaml`, and that the result is that of the sources there are.

`RelationsInv` is the three properties with `RelationsTypeOK` and `NoDanglingLink`:
no `R` struct refers to an object that does not exist. Without that a fresh object
could already be in somebody's list. Each operation is a change of the links and
foreign keys of some objects, and what differs between them is who is remembered
in `torn`, `moved` and `rewritten`; a loader makes only fresh objects, in no list
but the one they are loaded into.

`StatementsInv` has the caches (`CacheInv`: an entry was built for *some* call with
its verb and key), the running calls (`JobInv`: key and statement of a call
belong together, and the key is that of its own object until it is executed), and
`DistinctKeys`, that primary keys identify rows. No step of it needs the keys to be
unambiguous: a look-up that finds an entry gets one with the call's key, and a
`Store` that comes late puts in one that was built for the same key. `Mirror`
follows from it alone, since every statement reads back what it does not write.
`KeysTellApart` then makes the columns to update the call's own: `OwnColumns`
is that with `DistinctKeys`: the row that is replaced is the one whose key the new
row has.

Only model-checked: the liveness properties `EveryDeliveryHandled`, `StopEndsLoop`,
`AllWorkersReturn` and `EventuallySettled`, which depend on fairness and are out of
the prover's reach; `RightStatement`, for the reason above; and `PagesAreHonest`,
a property of one function of which TLC tries the boundary cases. Every other
property of a passing run is proved.

## 5. Not modelled

- `message_processing_logs`: written, its errors ignored, never read.
- The contents of messages: those of the API always parse, and the business
  functions return no error. Back-off times. Scheduled delivery and priority,
  headers nobody reads.
- Data access: hooks (none is registered), query builders, getters, `Exists`,
  `ReloadAll`, and errors other than "a statement fails".
- Configuration: the parsing of URLs and how connection strings are put together.
- Authentication (attached to no route), monitoring (called by nothing), the
  swagger text, wiring and constructors.
- A publisher of control messages: nothing in `src/` sends one. The model lets
  them arrive all the same.
- Message handling of several tenants at a time: they share the database and the
  broker's connection, and nothing else.
- The inside of broker, database and client library: they appear as the code
  uses them.

## 6. Plan

1. Composition of `WorkerPool` and `MessageFlow`: that `MaxRunning` is what the
   pool guarantees, with `Semaphore` as the interface, and that a consumer with
   fewer rights than its count still settles its messages.
2. `Exists`, `ReloadAll` and the finders of the generated data access.
