# TLA+ models of py-ddd-framework (`ddf`)

`ddf` is a Python (asyncio) toolkit for services written in the DDD style: CRUD use cases over
repositories, domain events, a transactional outbox, caches, a rate limiter in Redis, pagination and
filters over SQLAlchemy and MongoDB, a client for S3 and one for Keycloak's tokens. This directory
holds TLA+ models of the parts whose correctness depends on interleaving, failure, ordering or
boundary arithmetic, the TLC runs that check them, and TLAPS proofs of their safety properties for
every value of the constants. Paths below are relative to `src/ddf/`.

    tlc -workers 2 -config Outbox.cfg MCOutbox.tla      # a run: see the table of runs
    tlapm OutboxProofs.tla                              # a proof module

## 1. Inventory

| Component | State it keeps | Operations | What is hard | What makes it correct | Status |
| --- | --- | --- | --- | --- | --- |
| Outbox: `application/outbox/`, `infra/outbox/sqlalchemy/`, `infra/outbox/worker/polling.py` | `outbox_messages` rows (attempts, available_at, processed_at, failed_at), row locks, the batch in a worker's memory | `save`, `process` (acquire, publish, save_all, commit), polling loop | several workers, crash between broker and commit, lost connections, lost commit replies, retries, semaphore | at-least-once delivery, duplicates only with a reason, exact number of attempts, no starvation | modelled, proved |
| NOTIFY worker and listener: `outbox_notify_worker.py`, `outbox_listener.py` | a LISTEN session, an `asyncio.Event` | `__aenter__`, `wait`, `_on_notification`, the loop | lost wake-ups, half-open sessions, messages that become due silently | no announced message is slept through; the poll timeout alone suffices | modelled, proved |
| CRUD service: `application/crud/` | none of its own | create, read, update, delete | sharing of entities between requests through caches | the row, the event store and the broker agree | modelled, proved |
| Events: `application/events/`, `infra/events/sqlalchemy/`, `infra/brokers/rabbit/` | the event queue of an `Entity`, `stored_events` | collect, record, commit, publish | failures between the four | events after commit, each once, stored iff committed | partly |
| Caches: `infra/cache/` | entries with a time to live, in memory and in Redis | get, set, delete, multi-level backfill | stale backfill, shared references, expiry | an update sees the current row | partly |
| SQLAlchemy and Mongo repositories: `infra/database/` | the tables | create, read, update, delete, find | overlapping transactions, unit of work | no uncommitted or lost change | partly |
| Pagination: `application/dtos/pagination.py`, `sqlalchemy/utils.py`, `mongo/pagination.py`, `iterate_batches` | cursor or page number in the client's hands | one page; a walk over all | writes between pages, ties, nulls, boundaries | nothing missed, nothing repeated without a reason | modelled, proved |
| DSL filters: `application/dsl/`, `sqlalchemy/filters.py`, `mongo/filters.py` | none | compile a tree | nulls, negation, malformed nodes, patterns | one tree, one meaning | modelled |
| Rate limiter: `ratelimit/` | one Redis key per policy and identity | acquire (three Lua scripts) | rounding, expiry, clock set back | never over the limit, a retry time that suffices and is not longer | modelled, proved |
| Rate limiting of HTTP: `ratelimit/fastapi/` | none of its own | middleware, dependency: serve, or reject with Retry-After | rounding to seconds, other clients, a reply that does not come | a client that waits as told is served | modelled, proved |
| JWKS client: `infra/integrations/keycloak/jwks.py` | snapshot of keys, its time, two cooldowns, a lock, an HTTP session | `get_key`, `close` | check / lock / re-check, cancellation, cooldown mixes | spaced fetches, no wrong refusal, calls end | modelled, proved |
| Token verifier: `infra/integrations/keycloak/token_verifier.py` | none of its own | `verify` | it waits between the header and the dates of a token | the decision is that of the moment it is made | modelled, proved |
| S3 client: `infra/s3/client.py` | objects and multipart uploads in the bucket, the part list of a call | `upload`, `upload_stream`, `delete`, `delete_by_prefix` | requests that fail and are still carried out, retries, cancellation, paging while deleting | files appear whole, an answer is true, nothing is left behind | modelled, proved |
| Application context, sorting DTO, exceptions, value objects | none that changes, or one call each | | | | not modelled (reasons in section 7) |

How they interact: `Crud` calls a repository (usually a `CachedRepository` around a SQL or Mongo
repository) and then an `EventDispatcher`, which drains the entity's event queue, records the
events in the same session, commits and then publishes. The alternative to publishing after commit
is the outbox: producers write messages in their transaction and independent worker processes
publish them. They share only the table; NOTIFY shortens their sleep. `iterate_batches` and list
endpoints drive `find` page by page, with a DSL tree as the filter. The rate limiter stands
between HTTP and the application, and its key in Redis is shared by all processes. The token verifier
asks the JWKS client, which all requests of a process share. The S3 client stands alone: what its
callers share is the bucket.

`PROJECT.json` lists the components with their sources, the hazards with the line where each bites
and the property that would catch it, and for every definition the lines it is translated from.

## 2. Modules

| Module | Models |
| --- | --- |
| `OutboxMessage` | `message.py`: states of a message, mark_processed, mark_failed, the retry policy |
| `Outbox` | producers, table, workers, publishers, faults |
| `OutboxDelivery` | abstract specification: at-least-once delivery |
| `OutboxProofs` | proofs about `Outbox` |
| `OutboxNotify` | NOTIFY worker and listener; `process()` is abstract here |
| `NotifyProofs` | proofs about `OutboxNotify` |
| `JwksClient` | `KeycloakJwksClient` |
| `TokenVerifier` | `KeycloakTokenVerifier` on top of `JwksClient` |
| `JwksProofs` | proofs about both |
| `RedisScript`, `FixedWindow`, `SlidingWindow`, `TokenBucket` | the Lua scripts as functions from state, time, cost to state and answer |
| `RateLimiter` | the key's life in Redis around these functions |
| `RateLimitHttp` | the middleware and the dependency in front of `RateLimiter` |
| `RateLimiterProofs` | proofs about the scripts, `RateLimiter` and `RateLimitHttp` |
| `S3Client` | `S3Client` and the bucket |
| `ObjectStorage` | abstract specification: what the `ObjectStorage` protocol promises its users |
| `S3Proofs` | proofs about `S3Client`, with the refinement |
| `CrudService` | `Crud`, `CachedRepository`, cache levels, `SqlAlchemyRepository`, `EventDispatcher`, event store |
| `CrudProofs` | proofs about `CrudService` |
| `Paging` | the order of pages, cursors and their predicate, LIMIT/OFFSET: operators only |
| `PageWalk` | a walk over a table that changes |
| `PageWalkProofs` | proofs about `Paging` and `PageWalk` |
| `DslFilter` | both filter compilers and what their output selects |
| `DslProofs` | proofs about `DslFilter` |
| `MC*` | constants for TLC |

### Outbox

An action is what happens between two points at which another process can be noticed: `AcquireBatch`
is the `SELECT ... FOR UPDATE SKIP LOCKED LIMIT`, `StartPublish`, `BrokerAccept`, `PublishOk` and
`PublishError` are one `_publish_one` under the semaphore, `SaveAll` and `Commit` end the
transaction. `copy[w]` holds the `OutboxMessage` objects of worker w, which is why a stale copy
could overwrite a row: `save_all` writes back what was read at acquire. Faults are a crash at any
point, a connection that breaks while the worker goes on publishing (the server has released the
row locks, another worker may take them), a statement that raises, and a commit whose reply is lost.
`PublishWidth` belongs to a worker: in the run one publishes in sequence and one has two publishes in
flight. A broker acceptance that the worker never hears of is `BrokerAccept` followed by an error or a crash.
Messages are numbers because uuid7 ids are ordered and the query orders by them; the producers, the
workers and PostgreSQL share one clock (the code compares `available_at` set by one with `now` of
the other). `unrecorded` is a history variable that counts acceptances the table will never show.

`OutboxDelivery` says what a user of the outbox may rely on; the refinement mapping takes the status
of the row and the set of messages the broker ever accepted.

`OutboxNotify` is a second abstraction of the same workers: `process()` acquires due messages and
later settles, postpones or gives them back, and everything the listener does is in detail. `quiet`
are the due messages nobody announced (due by the clock, or given back by a rollback).
A reading of the code that needs no run: `notification_timeout` (`infra/outbox/worker/config.py:19`)
is documented as the longest wait for a NOTIFY, but nothing reads it; the worker waits
`poll_interval` (`outbox_notify_worker.py:47`).

### JwksClient

`get_key` tests freshness without awaiting the coroutine (`jwks.py:198`, `:203`), so the test is
always true; the model translates it as it is (`Fresh == TRUE`). Consequences: a snapshot is used
for ever (run `JwksClientTtl`), and an empty cache takes the branch of an unknown key, so that after
one unusable document callers hear "Unknown signing key" although no snapshot was ever loaded.
`queue` is the asyncio lock: the head owns it and the others wait in order. The model lets any
schedule happen between taking an uncontended lock and going on, which over-approximates asyncio.

### TokenVerifier

Each action of the client that ends a call is joined with the decision on the token, as there is no
await between the two; one that does not end it leaves the verdict open. A token has a shape, a
header, the key it was signed with, its dates, and one bit for the claims that are compared with the
configuration. `Decodes` has PyJWT's inequalities, `Lives` in the property is stated on its own.
The verdict "none" is an error of the client (unknown key, unavailable, wrong algorithm, cancelled).
The clock of the claims and the monotonic one of the cache are one: they advance alike, and the
client does not compare them.

### RateLimiter

A script runs atomically in Redis and sees one `TIME`. The model keeps beside the stored state a
`shadow` that never expires and `admitted`, the history of what was really let through
(`admitted[t]` is the total up to time t), so that the limit is stated against history and not
against the script's own counters. The clock may be set back once: limit and retry properties
are stated for a clock that is not, because they are false otherwise (a fixed window then loses its
counter before its window has passed, as its key's expiry counts from the earlier time,
`fixed_window.lua:53`); the sliding window promises in a comment not to reset its counters, and
keeps it for steps back of at most one window: `CountersKept` says that no call, expiry or time step
resets them or moves them to another window before their window has passed.

The sliding window and the bucket compute with doubles. The model counts in units, 1 / `window_ms` of a
request and 1 / `rate_den` of a token, in which the exact values are whole, and lets every computation
that a rounding or comparison follows be short of, or beyond, its exact value by less than a unit: such
an error shows only where the exact value is whole, and there `slip` (0 or 1) chooses whether it does. For
100 requests a minute, 99 of them in the last window and one in this one, `sliding_window.lua:74-79`
computes 601 ms where 600 ms suffice. So `retry_after` may be a millisecond too long (`Slack` in
`RetryIsTight`), and the double in a bucket a little short of the cost when the retry is due, so that
the client is admitted a millisecond later (`Grace` in `RetryIsHonest` and `PatientClientIsServed`); the
fixed window has whole numbers only and is exact. The sliding window needs no grace: an estimate over
the limit is over it by a unit, and one that fits exactly is rounded to a whole number when the cost is
added. This assumes that errors stay far below a unit, that is `limit * window_ms` below 2^50, and
a refill rate that is a fraction of that size. A refill rate that rounds up makes a bucket's key live a
millisecond longer than in the model, which changes no answer.

### RateLimitHttp

One rule and one identity, hence one key; several rules are several keys, each asked once. The
middleware and the dependency do the same to the limiter: served, rejected with a 429 and
`Retry-After` in whole seconds, or an exception when Redis does not answer (the script may have run).
`promise` is history: what a rejected client was told. The property is that the promise is kept at
that second and at every later moment, after any number of further rejections, expiries and raised
calls, unless somebody else used the budget.

### S3Client, ObjectStorage

A call waits for one request at a time, and an action is the end of such a wait. Requests that the
client gave up on (an error, a timeout, a cancellation), and first tries of requests botocore repeats,
stay in `late`: S3 may carry them out at any later moment or never. `Raised` says where an exception
leads: only what follows `create_multipart_upload` is inside the `try`, the `abort` in its `except
Exception` is not, and a cancellation (a BaseException) passes by it. S3 itself is external, modelled
by the rules the client depends on: an object is replaced as a whole; a multipart upload completes if
all listed parts are there and only the last is short; an abort does not wait for parts on their way;
listing goes on behind the last key it returned; `delete_objects` may refuse single keys and still
succeed.

Reading the code next to the model shows three things that no document of the repository contradicts:
a cancelled `upload_stream` leaves its parts in the bucket (hence `NoPartsLeft` speaks of calls that
returned or raised); `delete_by_prefix` does not look at the errors in the response of
`delete_objects` (hence the keys S3 refused are exempt in `PurgeLeavesNothing`); and a stream whose
`read` returns fewer bytes than asked for is refused by S3 and aborted.

`ObjectStorage` has nothing of this: files under keys, appearing whole in one step, an "ok" that is
true, and a rule that only single PUTs may be stored again by a late request. The refinement mapping
calls an object whose parts are not exactly those of its file "torn", which the abstract
specification does not know.

### CrudService

One entity, three requests that are coroutines of one process; actions lie between two suspending
awaits. An entity is the set of requests whose change it holds, each in a column of its own, so that
a lost change or one kept after a rollback shows. `merge()` compares with the row of its own SELECT
(the identity map is weak, the object of `read` is collected by then) and the flush updates the
columns in which they differ. An InMemoryCache holds a reference to the `Entity`: entry r *is* the
object of request r. A RedisCache holds a copy. A time to live is an expiry at any moment. Delete in
`Crud` is an update (a soft delete), so it is the kind "update"; "remove" is `repository.delete` by a
use case. Wrappers are user code around the base operation and are left out.

`publisher` is the configuration of `create_rabbit_publisher`: in sequence, a request waits for one
publish after the other and stops at the first exception; in parallel (`asyncio.gather`) any of its
events may be next, the exception of one ends the request, and the others go on (`Straggle`) because
`gather` does not cancel them. A cancelled request cancels them.

Which stack of caches is used is chosen in the initial state, and the properties say for which stacks
they hold: without a local cache no entity is shared, with Redis `create` caches a row that is not
committed yet (after a rollback a phantom can be read and written back), and with any cache an update
may write back what it read before another commit. Without a cache an update undoes what others commit
between its read and its merge (`quiet` says whether there was any), and nothing else: what they commit
after its merge stays, as the flush sets only the columns that differ. The two violation runs show what
the documents promise and the stacks do not keep.

### Paging, PageWalk

A row is an id and the value of the sorted column; a page is a set, its order is that of the sort.
The columns are `created_at` (no update changes it), `updated_at` (every update does) and, in Mongo,
any other field, which may be null. COUNT and SELECT of an offset page are two steps; a Mongo `find`
is treated as one snapshot. Writers insert, change and delete rows between any two statements,
`Resort` is a client that sends its cursor with another sort, and perhaps then with the first one again.
`steady` is the history of the rows nobody touched, `shifted` says that a write has moved a row among
the others (anything but an insert behind all rows does). The Base64 codec, filters and mapping to
entities are left out.

What the properties leave out is what the code does not promise. An offset walk may repeat or miss rows
that shift; a Mongo walk with a changed sort goes on with a cursor of another order, since only
the number of values is compared; Mongo refuses the cursor it made of a row with a null, or never
finds such rows at the end of a descending order. `OneSort`, `NullsLast` and `MetNull` name these cases,
and the properties say that nothing else is missed, repeated or refused.

### DslFilter

Both `compile_filter` are recursive and visit a tree in the same order, children before their parent.
The recursion is modelled as its call stack: a step is one call, of both compilers, that returns, and
takes the results of the calls it made from the end of `results` (`Return`). So any finite tree is a
behaviour, up to `MaxOpen` results that wait for their caller, and what is invariant holds of every
tree. A result is a condition, which is to say what SQL and Mongo make of it for the `row` under
consideration: SQL decides a tree in three truth values, Mongo in two, and "refused" is an exception.
`SqlRefuses` and `MongoRefuses` are the malformed conditions: unknown fields for both, lists and
patterns without a list or a text for SQLAlchemy, an order comparison with None for SQLAlchemy, an
`$in` of a number for Mongo. SQLAlchemy refuses an empty group, which Mongo compiles to `{}`; Mongo
refuses a search. The other fields of a result (`says`, `nullFree`, `search`) describe the tree and
not the code: they are what the properties compare the code with. `FindSql` and `FindMongo` run the
query of the root, or no query.

`$like` and `$ilike` go through `_compile_like_pattern` part by part (`CompileLikePattern`); LIKE and
regular expressions are modelled by what they match, a text that can be cut into pieces the parts
match. Texts have one line, as `.` and `$` of a regular expression treat the end of a line specially
and LIKE does not; patterns have no backslash, which PostgreSQL takes as an escape and the compiler of
the regular expression as a character. In both cases the two adapters do differ.

## 3. Runs

A run `X` checks the module of the same name or, for the violations, the one it begins with, through
an `MC` module where constants need definitions.

| Run | Instance | Distinct states | Checks |
| --- | --- | --- | --- |
| `Outbox` | 2 messages, one poison, 2 workers (1 and 2 publishes at once), batches of 2, 2 attempts, 1 fault of any kind, fairness | 164 958 | `IInv` (the inductive invariant, with type correctness), `ExclusiveBatch`, `ProcessedWasAccepted`, `DuplicatesAreExplained`, `FailedIffExhausted`, `RowsOnlyProgress`, `CommitSettlesBatch`, `ImplementsDelivery` (refinement), `EveryMessageSettles` (liveness) |
| `OutboxNotify` | 2 messages, 2 workers, 1 postponement, 1 fault, fairness | 147 205 | `NoLostWakeup`, `EverySettled` (liveness) |
| `TokenVerifier` | 2 callers, 5 tokens, a rotation, unusable documents, 1 close, fairness | 454 010 | `FetchesAreSpaced`, `RefusedIsAbsent`, `EveryCallEnds` (liveness), `JudgedAtTheEnd` |
| `JwksClientTtl` | 1 caller, TTL 1 | violation | `KeysAreFresh` |
| `JwksClientClose` | 1 caller, 1 close | violation | `CloseWaitsForRequests` |
| `RateLimiter` | 2 policies per algorithm, costs 1 to 3, times 0..10, seconds of 2 ms, clock set back once by up to 3 | 420 497 | `WithinLimit`, `RetryIsHonest`, `RetryIsTight`, `ExpiryIsInvisible`, `CountersKept`, `PatientClientIsServed` |
| `Crud` | 3 requests (5 workloads; 4 stacks of caches in sequence, no cache in parallel), one with 2 events, 1 fault | 2 791 520 | `BrokerHearsOnlyCommitted`, `StoredWithChange`, `DoneIsPublished`, `PublishedOnce`, `SequenceKeepsOrder`, `RolledBackLeavesNothing`, `QuietUncachedUpdateAddsItself` |
| `CrudSharedObject` | 3 updates, InMemoryCache only, 1 fault | violation | `PublishedAreCommitted` |
| `CrudStaleCache` | 2 updates and a read, RedisCache only, no fault | violation | `QuietUpdateAddsItself` |
| `PageWalk` | every table of up to 4 rows and 2 values (and null), sizes 1 and 2, 2 writes, 2 changes of sort | 4 362 764 | `CursorMissesNothing`, `CursorRepeatsOnlyMoved`, `OffsetIsExactForAppends`, `RefusedForAReason` |
| `DslFilter` | every condition on a nullable field, with 2 values and 2 texts; trees that need 3 open results | 277 248 | `EveryCallSound` (the inductive invariant, with type correctness), `SqlSelectsNoMore`, `SameWithoutNulls` |
| `S3Client` | 2 uploads of one of 2 keys, 5 files, pages of 1, 2 parts at most, 2 faults | 4 987 603 | `NoPartsLeft`, `ErrorStoresNothing`, `PurgeLeavesNothing`, `ImplementsObjectStorage` (refinement) |

Every property of a passing run has a mutant in `PROJECT.json`: a changed definition, as a plausible
mistake in the code would change it, with which TLC finds the property violated in the same run.

What the violations say: `get_key` returns keys older than their TTL because of a missing `await` (a
bug); `close()` closes the JWKS session under a running request, against its docstring; with an
InMemoryCache the dispatcher of one request can publish the event of another that has not committed,
against ADR 0004; and with a Redis cache a reader can put the old row back after the invalidation, so
that the next `Crud.update` writes it over a committed change: lost for good, not merely read late.

### Why the bounds are enough

- Outbox: the hazards need two workers contending for a row, a batch of two so that partial failure
  and rollback differ, two attempts so that "last" and "not last" differ, and one fault between any
  two steps. The poison message is first, where it could block the other. The proofs drop all these
  bounds for safety.
- OutboxNotify: one fault covers a silent or noticed break, an error or a restart; a second message
  is what may become due while the first is handled.
- TokenVerifier: one caller holds the lock, one waits; time runs past the cooldown, and past the end
  or the beginning of a token's life: one token expires while others wait, one is not valid yet, one
  is signed with another key than it names, one asks for an algorithm its key is not for, one is
  malformed.
- RateLimiter: windows of 3 and 4 ms and times up to 10 cover a window, its successor and the one
  after, costs up to the limit, and several bucket lifetimes. With seconds of 2 ms a Retry-After is
  often not a whole number of them.
- Crud: an interference needs two writers; the third request is the reader, creator, remover or third
  writer that can make their effects visible. One fault at any step. Two events are the fewest that
  have an order, and of which one can fail while the other goes on.
- S3Client: two faults are a request that fails and its abort that fails too, or a late request of one
  upload and a fault of the other; both uploads write one key, so that a late one can overwrite.
  Pages of one key and two keys make every deletion fall between two pages. `MaxParts` of 2 makes a
  stream of three chunks too long, as 10 000 does for long ones.
- PageWalk: four rows with two values give ties on both sides of a page border; with size 2 two full
  pages, with size 1 three borders. Two writes give an insert with a delete or an update around one page,
  two changes of sort a client that tries another one and returns.
- DslFilter: the depth of a tree has no bound, since a result looks the same whatever depth it has; three
  open results make groups of up to three filters, and a group next to two results of its parent. Two
  values are on either side of a comparison, the text of one has a letter in two cases.

## 4. Fairness

- `Outbox`: time passes, the loop of each worker goes on (a supervisor restarts a dead process),
  started publishes return. That the publisher returns is an assumption about the client: `process()`
  has no timeout of its own, a publisher that hangs keeps its batch locked. No fairness for faults, for
  producers or for the broker accepting.
- `OutboxNotify`: the loop, time and due dates. None for the arrival of notifications and none for
  noticing a dead session, so `EverySettled` rests on the poll timeout alone.
- `TokenVerifier` (as `JwksClient`): the task that owns the lock runs, and a fetch ends (aiohttp's
  total timeout).
- The other specifications state safety only.

## 5. Proofs

All safety invariants and action properties of the passing runs are theorems too. Each is proved from the named assumptions on the constants
of its module; only `SetBacksKeepCounters` has a hypothesis more (below). The bounds of the runs
(faults, times, writes, sizes) are arbitrary naturals there, and the workers, requests, callers,
documents and policies any sets (messages, ids and S3 keys are numbers, messages and ids finitely
many). A proof module has one lemma per action, or per group of actions that do the same to the
invariant, and ends in the theorems.

| Module | Obligations | Theorems (property) |
| --- | --- | --- |
| `OutboxProofs` | 703 | `Invariance` (`IInv`), `Exclusive` (`ExclusiveBatch`), `AtLeastOnce` (`ProcessedWasAccepted`), `Duplicates` (`DuplicatesAreExplained`), `AttemptsExact` (`FailedIffExhausted`), `Progress` (`RowsOnlyProgress`), `Settling` (`CommitSettlesBatch`), `Refinement` (`ImplementsDelivery`) |
| `NotifyProofs` | 111 | `NoWakeupLost` (`NoLostWakeup`) |
| `JwksProofs` | 406 | `VerifierUsesClient`, `VerifierSpaced` (`FetchesAreSpaced`), `VerifierRefusedForAbsence` (`RefusedIsAbsent`), `Judged` (`JudgedAtTheEnd`) |
| `RateLimiterProofs` | 3100 | `LimitIsKept` (`WithinLimit`), `RetryIsEnough` (`RetryIsHonest`), `RetryIsNoLonger` (`RetryIsTight`), `ExpiryLosesNothing` (`ExpiryIsInvisible`), `SetBacksKeepCounters` (`CountersKept`), `HttpIsRateLimiter`, `PatienceIsRewarded` (`PatientClientIsServed`) |
| `CrudProofs` | 2561 | `NoEventTwice` (`PublishedOnce`), `SentInOrder` (`SequenceKeepsOrder`), `BrokerAfterCommit` (`BrokerHearsOnlyCommitted`), `StoreFollowsRow` (`StoredWithChange`), `AnswerAfterPublish` (`DoneIsPublished`), `RowIsCommitted` (`RolledBackLeavesNothing`), `QuietUpdateKeepsRow` (`QuietUncachedUpdateAddsItself`) |
| `PageWalkProofs` | 1327 | `KeysetCursor`, `RepeatsOnlyMoved` (`CursorRepeatsOnlyMoved`), `MissesNothing` (`CursorMissesNothing`), `OffsetIsExact` (`OffsetIsExactForAppends`), `RefusalsHaveAReason` (`RefusedForAReason`) |
| `S3Proofs` | 948 | `PartsAreRemoved` (`NoPartsLeft`), `ErrorIsClean` (`ErrorStoresNothing`), `PurgeRemovesAll` (`PurgeLeavesNothing`), `Refinement` (`ImplementsObjectStorage`) |
| `DslProofs` | 592 | `CallsSound` (`EveryCallSound`), `SqlSelectsNoMoreHolds` (`SqlSelectsNoMore`), `SameWithoutNullsHolds` (`SameWithoutNulls`), `SamePattern` |

### Outbox

None of the safety properties is inductive: that a processed row was accepted depends on what an
in-memory copy says before it is written, and that two batches are disjoint depends on locks. `IInv`
adds, per worker and message, that publish state and copy agree (`CopyInv`), that a row is locked
exactly by the live batch that holds it and is unchanged since (`LockInv`), that rows are consistent
(`RowInv`) and that each acceptance is recorded, about to be, or counted as lost (`CountInv`). For the
refinement, every step is a `Deliver`, `Enqueue` or `Settle` of `OutboxDelivery` or changes nothing
there.

### NOTIFY

`NoLostWakeup` speaks of a worker that waits. It is inductive once it is extended to the moment
`process()` has found nothing (`Heard`): between the two lies the step in which a notification must not
be lost. What a rollback gives back is `quiet`, so it announces nothing new (`GiveBackIsQuiet`).

### Keycloak

- `Spaced` compares a history variable with the clock; the invariant `Cooled` says that the cooldown of
  unknown keys always ends at least a full cooldown after the last fetch began, whichever way that
  fetch ended. It rests on the missing `await`: because the test of freshness is always true, every
  fetch sets that cooldown.
- `RefusedForAbsence`: the invariant `Owned` says that whoever waits or fetches is in the queue of the
  lock, that the one who fetches is its head, and that the snapshot still lacks the key it fetches for.
  Only the head replaces the snapshot, and a task that is cancelled behind it does not move it
  (`HeadStays`).
- `VerifierUsesClient`: `VerifierSpec => Spec`: what the verifier does to the client's state are the
  client's own actions, so what is proved of the client holds under the verifier.
- `Judged`: the invariant `Waits` says that a waiting call has no verdict yet, so that the verdict seen
  when it ends is the one made in that step.

### Rate limiter

The first part of the module says of each script, for every policy, hash, time and cost, what it admits, what hash it
leaves, between which times `retry_after` ends, and that its time to live outlasts whatever a later call
could still read, for every slip of the doubles (lemmas on `div`, on windows and on the roundings). The
second builds on this:

- `SameInv`: the stored hash, once expired, and the `shadow` that never expires give the same answer to
  every affordable cost at every time from now on. Equality of the hashes would not be inductive, as
  the key is gone while the shadow stays; equality of all later answers is.
  `ExpiryLosesNothing`, `RetryIsEnough` and `RetryIsNoLonger` follow from it.
- `PromiseInv`: from the promised moment on the script admits the client's cost; it is kept because a
  rejection and an expiry change no later answer.
- `TotalsInv`: the counters of the script are the sums of what history admitted, in the window, in the
  window before, and, for the bucket, what is left in it against every interval that ends now. It turns
  what a script knows into the limit stated over history.
- `AheadInv`: a sliding hash is ahead of the clock, and was when its expiry was set, by no more than
  the clock was set back, so that its key is there as long as its window (`SetBacksKeepCounters`), and a
  script that finds it ahead leaves the counters where they are. The theorem assumes that all steps back
  together are no longer than a window, which the run's bounds satisfy.

### CRUD

- `OnceInv`: an event is in one place of one queue, or was published, once; or nowhere. It holds with
  shared objects too, since draining a queue and sending from it are single steps.
- `OrderInv`: with the sequential publisher an event waits behind those registered before it.
- `OwnInv`: without an InMemoryCache every request holds its own object and drains its own events, none
  before the handler and all until the commit; `stored_events` are those of the committed requests.
  Three of the properties are read off it.
- `ValueInv`: where nothing uncommitted is cached, rows and cached copies hold committed changes only,
  and objects those and the change of their own request.
- `QuietInv`: without caches the row is the one a quiet update loaded, until its merge; the row the merge
  read then differs from the update's model in its own change and in nothing else. That the change is not
  in that row yet follows from `ValueInv`, as the request has not committed.

Each property names the stacks of caches it holds for; the theorems have no other restriction.

### Pagination

- `KeysetCursor`: the predicate of a cursor selects exactly the rows behind the row the cursor was made
  of, among those without a null in the sorted field. It ties the predicate of one function to the
  ORDER BY of another.
- Lemmas on the order: a table has a first and a last row, ranks grow along the order and have no gap
  (`FirstRow`, `RankGrows`, `NoGap`), LIMIT n returns at most n rows, what a page leaves is behind all
  of it (`Leftovers`), and a page without a next one leaves nothing (`LastPage`).
- `Behind` says that the steady rows a next request can still find were not handed out yet, `Complete`
  that those not handed out can still be found. A page keeps them because a row behind its last one is
  not in it and was behind the old cursor as well (`NextCursor`), a write because whatever a writer puts
  elsewhere is not steady. `CursorShape` excludes the short cursors that Mongo makes of a row with a
  null: the next request refuses them.
  In SQL both speak of the sort a cursor was made for (`Usable`): one that does not fit leaves
  everything as it was, and fits again when the client returns to its sort.
- `InPlace`: until a row is shifted, a walk by offset has handed out exactly the rows whose rank is below
  the pages it asked for, and what COUNT counted covers the rows of the start. Appended rows come last
  and leave the ranks of the others (`AppendedLast`); the pages of COUNT are enough (`PagesSuffice`).
- `Served`: the cursor of a client that keeps its sort always fits, but for a null it was handed out.

### S3

`IInv` says per call how far its multipart upload is (`SessionOf`), whether its file is stored
(`StoredBy`), that its parts are listed in order (`PartsOf`), and that a late request belongs to a call
that gave it up or repeated it (`LateOf`). `PurgeInv` says that the purge has dealt with what it must
remove up to the last key it saw; the step of a page needs that the keys of a page are those before
the ones it leaves, by the cardinalities of `BelowGrows`. `WholeInv` gives the refinement: no object is
torn.

### Filters

The claim is about trees, and the argument is structural induction, which the prover has not. The call
stack of the model turns it into induction over time: `EveryCallSound` says that every result, of
whatever part of a tree, is `Sound`, and each kind of call has a lemma that its result is sound if those
of its children are (`ConditionSound`, `SearchSound`, `NegationSound`, `GroupSound`).

- The two properties speak of the root, and of rows SQL selects; neither is inductive, as under a
  negation the rows SQL does not select matter. `Agrees` says for each call that what SQL decides, true
  or false, Mongo decides alike, and that what SQL accepts Mongo refuses for a search only. A group
  that SQL decides has a child that decides it, or no child left unknown; both carry over to Mongo.
- `MeansIt` says that, without nulls, there is nothing left unknown and both are what the tree says.
- `SamePattern`: cuts of the text that fit the pattern fit the regular expression and the reverse, part
  by part (`SamePart`).

### Induction

A least element of a set is taken from the well-founded order of finite subsets (`LeastNumber`,
`FirstRow`): the set of rows before a row, or of numbers up to a number, that contains no other one.
So the lemmas on ranks and pages do without an induction over numbers.

### Only model-checked

- Liveness (`EveryMessageSettles`, `EverySettled`, `EveryCallEnds`): the prover knows neither fairness
  nor ENABLED.
- The four violations, which are single behaviours.

## 6. Plan

Done: outbox with refinement; NOTIFY worker; JWKS client and token verifier; rate limiter and its
HTTP side; CRUD with caches and events, published in sequence and in parallel; pagination; filters;
S3 client with refinement; proofs for all of them.

Left: a timed model of `MultiLevelCache`. Backfill restarts the time to live in the first level, so
staleness is bounded by the sum of both; `exists()` answers for expired entries; the cleanup task.

## 7. Not modelled

- What a connection costs: `outbox_listener.py:41` does not return its connection to the pool when LISTEN
  fails. Whether the pool then runs dry is a matter of the engine's configuration, outside the
  repository; in `OutboxNotify` a failing LISTEN makes the worker back off and try again.
- Mongo repository outside `find`: one driver call per operation. `update` replaces the document with
  `upsert=True`, so it can bring back one that was deleted meanwhile; a property would only restate
  what MongoDB does with that call.
- S3: `download_stream`, `get_metadata` and the signed URLs change nothing and read one object.
- Rate limit keys: how a rule names the identity, and the validation of policies at start-up.
- Signatures, claims and RSA keys: their content is one bit or a model value.
- `pop` and `exists` of the caches and the cleanup task; a time to live is an expiry at any moment.
- Filters: comparisons of values of different types, the case of field names, texts of several lines and
  escapes in patterns.
- Application context, sorting DTO, exceptions, protocols, value objects, settings: no shared state
  that changes, parsing or declarations.
- Serialisers, event registry, routing keys, ORM mappers: conversions whose content no property here
  depends on.

Types: `Outbox` and `DslFilter` have a type invariant that TLC checks, as part of their inductive
invariants. The proofs need one for each module, and prove it as a part of their invariants (`TypeOK`,
`Shape`, `Cooled`, `Owned`, `Waits`, `SameInv`); elsewhere the set a variable ranges over is in the comment at its declaration.
