# atsig-common: TLA+ models, model checking and proofs

`atsig_common` is the library the services of Study in Greece share: events over Redis
streams, authentication against Keycloak, a department cache, HTTP clients with their
lifespan, and helpers for FastAPI and SQLAlchemy. This directory holds TLA+ models of the
parts of it that keep state across an `await`, a thread or a process, the TLC
configurations that check them, and theorems about them checked by TLAPS.

`PROJECT.json` is the index: components, runs, the source lines each definition models
(`map`), the hazards with the properties that cover them, mutants, findings, theorems.

Contents: [inventory](#1-inventory), [plan](#2-plan), [modules](#3-modules-and-the-code),
[runs](#4-runs), [fairness](#5-fairness), [proofs](#6-proofs),
[disagreements](#7-where-code-and-documentation-disagree), [limits](#8-what-is-left-out).

To check a run: `tlc -workers 2 -config consumer_loss.cfg MCStreamConsumer`.
To check a proof: `tlapm StreamConsumerProofs.tla`.

## 1. Inventory

Paths are below `src/atsig_common/`.

| Component | State | Operations | What is hard |
|---|---|---|---|
| **Event consumer** `redis/consumer.py` | Redis: stream, group, PEL with delivery counts and idle times, DLQ. Process: `_is_running`, `_semaphore`, `last_reclaim`, the scan cursor, one coroutine per entry of a batch | `run`, `stop`, `_ensure_consumer_group`, `_reclaim_pending`, `_handle_reclaimed`, `_delivery_count`, `_dead_letter_reclaimed`, `_handle_entry`, `_send_to_dlq` | several processes share a group; every Redis call may fail before or after it took effect; processes die; a slow handler is overtaken by a reclaim; MAXLEN trims what is pending |
| **Life of `run()`** `redis/consumer.py` | failure counter, back-off | the loop, giving up, `stop()`, cancellation | an outage must end in an exception or in a recovery; `stop()` may come at any await |
| **Event producer** `redis/producer.py` | the attempt number | `emit`, `emit_safe`, `emit` with a pipeline | an XADD that failed for the caller may have run, or may run later |
| **Department cache** `redis/uni_cache.py` | `department:{id}` documents, the hash `department_university_map`, their time to live | read by universities, by ids, one by id; the rewrite of the hash | `hgetall`, `hdel`, `hset`, `expire` are separate commands, other readers run in between and keys expire |
| **Token verifier** `auth/decode.py` | `_keys`, `_fetched_at`, `_last_attempt`, `_lock` | `decode`, `decode_token`, `adecode_token`, `needs_refresh`, `refresh` | threads and the event loop share the cache; keys rotate; Keycloak is down |
| **Service token** `auth/service_token.py` | `_token`, `_expires_at`, `_refresh_lock` | `get_token`, `aget_token` | `get_token` takes no lock; two refreshes interleave their two writes; a cancelled caller leaves its thread running |
| **Authorization** `auth/groups.py`, `auth/context.py`, `auth/dependencies.py` | `request.state.token_payload`, the contexts | `get_auth`, the context and the optional context, role loaders | the dependencies of a route decode at different times, and the verdict on a token may change between them |
| **Lifespan and HTTP** `bootstrap.py`, `api_client/http_manager.py`, `api_client/base.py`, `redis/manager.py`, `storage/s3.py` | `_started`, the class-level HTTP client, `_redis`, `_s3_client` | `build_core`, `Core.start`, `Core.stop`, `make_lifespan`, `HttpClientManager.init_client/close_client`, `RedisManager.init_client/close_client`, `BaseAPI._request` | a start that fails half way, a stop that fails for one client, cancellation, requests that outlive the application |
| **Edge of a request** `logger/middleware.py`, `logger/context.py`, `middleware/body_limit.py`, `fastapi_utils.py`, `exceptions.py`, `setup_app` in `observability.py` | the context variables; `received`, `rejected` of one upload | `dispatch`, `resolve_request_id`, `limited_receive`, `guarded_send`, `_reject`, the exception handlers | the limit is met while the application runs, perhaps after it began to answer; exceptions and clients that leave at any point |
| **CRUD services** `services/base.py` | the table; per request a session with its objects | `get_or_404`, `get_authorized`, `create`, `update`, `find_and_update`, `remove`, `get_multi` | two requests load the same row; load, flush, refresh and commit are separate statements |
| **Pagination** `pagination/` | none | the ORDER BY, the slice, the numbers of a page | rows that tie, count and page at different times, the last full page |
| API clients, factories `api_client/clients`, `api_client/factory.py`, `services/factory.py` | none | build a path, call `_request` | nothing of their own |
| Files, storage operations, e-mail, log formatting, settings, schemas, database engine, policy, OAuth | none, or configuration | I/O and construction | nothing a model would reach |

How they interact: the producer of one service appends to the stream the consumers of
another read. A consumer's handler, like an HTTP handler, calls other services through
`BaseAPI._request`, which takes its headers from the service token and its client from
`HttpClientManager`, which `Core` starts and stops. The verifier decides on the tokens the
dependencies of a route give it. The department cache fills itself through `BaseAPI`. A
request passes the logging middleware, the body limit, the dependencies (`AuthGate`) and
its handler, which works on the database through the CRUD services, and an exception of
any of them goes back the same way.

What makes each part correct:

- consumer: no entry is lost, whatever fails; a poison message cannot kill workers for
  ever; slots of the semaphore are not leaked; everything ends settled;
- loop: an outage does not silently stop consumption, and `stop()` stops;
- producer: an id that was returned stands for an entry; retries do not reorder events;
- cache: answers are those of uni-api, and nothing stays cached without a time to live;
- verifier: a retired key does not live on, a current key is not refused for long;
- service token: nobody is given an expired token, nobody waits for ever;
- authorization: the handler of a protected route runs only for the right groups, and a
  request has one identity;
- lifespan: what was started is stopped, and a request finds an open client;
- edge: a request gets one answer and one log line under its own id, and an upload over the
  limit does not reach the application;
- CRUD: concurrent updates of different fields do not undo each other, and what is returned
  is what the database holds;
- pagination: whoever walks through the pages meets every row once.

## 2. Plan

Done:

1. `StreamConsumer` with `AtLeastOnce` (its abstract specification), the loss and crash
   runs, the inductive invariant, the refinement;
2. `ConsumerLoop`, `EventProducer`: the two ends of the consumer's environment;
3. `TokenVerifier`, `ServiceToken` (with proofs), `AuthGate`;
4. `CoreLifecycle`, `UniCache` (with the school key);
5. `HttpEdge`, and `RequestPath`, which composes it with `AuthGate`;
6. `Pagination` as pure operators, and `CrudService`, which uses them.

7. proofs: the safety properties of `StreamConsumer`, `ConsumerLoop`, `TokenVerifier`,
   `ServiceToken`, `RequestPath` (with `AuthGate` and `HttpEdge`), `CoreLifecycle`,
   `UniCache`, `CrudService` (with `Pagination`) and `EventProducer`.

Every invariant and every action property that a passing run checks is also proved, and the
refinement of `AtLeastOnce`. What is left to TLC is liveness (section 6).

A composition of the producer with the consumers is left out: the duplicates of a
retried `emit` are entries of their own, so the composition has the state space of three
entries and checks nothing that `EmitIsHonest` and `ImplementsAtLeastOnce` do not say.

Theorems live in modules of their own (`...Proofs`; those about `ServiceToken`, whose names
differ from the verifier's, are at the end of `TokenVerifierProofs`); no module uses
a `RECURSIVE` operator, so all are open to proofs.

## 3. Modules and the code

### StreamConsumer (and AtLeastOnce)

The processes of one consumer group. Entries are numbered in stream order. Redis is
`added`, `trimmed`, `group`, `groupStart`, `lastDelivered`, `pel` (the delivery count of a
pending entry), `idle` (pending for at least `reclaim_idle_ms`) and `dead` (the DLQ).
A process has `pc`, the place of `run()`:

| `pc` | code |
|---|---|
| `down` | not running: not started, returned, raised, dead |
| `top` | the condition of the loop and of the reclaim interval |
| `scan` | `_reclaim_pending`, before an XAUTOCLAIM |
| `triage` | `_handle_reclaimed`: one claimed entry after the other, ACK of those without fields, XPENDING for the others |
| `gatherC`, `gatherR` | `asyncio.gather` over the coroutines of a claimed, of a read batch |
| `read` | XREADGROUP |

`task[c][m]` is the coroutine of entry `m`: `waiting` for the semaphore, `processing`,
`acking`, `sleeping` before the next attempt, `dlq` (before the XADD to the DLQ) and
`dlqack` (before the XACK after it); `claimed` and `void` come before it exists.

Every await on Redis is one action with the outcomes *ok*, *error* (nothing happened) and
*lost* (it happened, the caller sees an exception). `LoopError` is the `except` of
`run()`: the process goes on with its loop, or has used up its failures and ends.
`Crash` kills a process anywhere, `ProcessKills` in a handler; `Start` is the
orchestrator's restart, with `_ensure_consumer_group`. `BecomeIdle` is the passage of
`reclaim_idle_ms`; with `SlowHandlers` it may come while a handler is at work.

Simplified: an XAUTOCLAIM returns the first idle entries from its cursor (the partial scan
of Redis, which may return fewer, is not distinguished); an entry deleted from the stream
comes without fields, which is what the code looks for; the DLQ is not trimmed.

`AtLeastOnce` is the promise: a message is settled only after it was processed,
dead-lettered or dropped by retention. `ImplementsAtLeastOnce` substitutes `1..added` for
`accepted`, `Dropped` (trimmed, or before a group created at `$`) for `dropped` and
`Settled` (delivered, no longer pending) for `settled`.

### ConsumerLoop

One `run()`: `ensuring`, then the loop with `failures` and the back-off `delay`, until it
`returned`, `raised` or was `cancelled`. Messages are left to `StreamConsumer`; a Redis
call fails when Redis is down. `maxLoopFailures` and `floatDelay` (whether
`loop_error_delay` is a `float`) are chosen in `Init`; a float back-off overflows, and
`FloatMaxExponent` stands for 1023. Above `FailureCap` the counter is not counted on: the back-off has
reached its maximum there, and nothing else depends on it.

### EventProducer

Callers emit events `1..N` in order, each in one of three modes. An XADD can fail without
having run, having run, or be still on its way (`late`, only when `mayRunLate`). The
executed pipeline is atomic, as redis-py's default pipeline is (MULTI/EXEC); its call may
fail before or after it ran.

### UniCache

Readers of the cache, one action per await: `HGetAll`, `NextUni`, `ReadDoc`, `FetchByIds`,
`SetDoc`, `FetchByUnis`, then the rewrite of the hash with `ReadExisting`, `HDel`, `HSet`,
`Expire`; `ById`, `FetchOne`, `SetOne`; `BySchoolId`, `FetchSchool`, `SetSchool`. `Tick` lets keys with a time to live vanish,
`Move` changes a department's university in uni-api, `Fail` ends a call at any await and
leaves what was written. A department is its number and always has a university; one
school stands for all, since nothing relates the keys of two schools.

### TokenVerifier

Keys are numbered in the order the realm used them. Ages (`keyAge`, `attemptAge`) stand for
`clock - _fetched_at` and `clock - _last_attempt`, and saturate where no comparison tells
them apart. A request is at `check` (`needs_refresh`), `thread`/`refresh`/`fetchThread`
(the refresh moved to a thread) or `lookup`/`fetchLookup` (`_keys_for`). `loopOwner` is the
request that blocks the event loop: while it does, no other request on the loop moves.
Claims other than the key are one verdict. A token without a `kid` never causes a fetch of
its own; Keycloak's tokens have one, so such a token is not the realm's and is refused.

### ServiceToken

A token is the time it was issued at. A refresh is four steps (ask, answer, write `_token`,
write `_expires_at` from the time of *now*), then the return. A cancelled `aget_token`
releases the lock and leaves an `orphan` thread. The check of a fast path and its return
are two steps as well, between which a thread may replace the token; only the clock, whose
ticks are far longer, stands still there.

### AuthGate

A group path is the sequence of its parts. A request has groups, claims, perhaps a token, a
route with scopes and up to `MaxDeps` dependencies in any order. `Changes` alters the
verdict on the token between two of them. `kept` is `request.state.token_payload`.

### HttpEdge and RequestPath

`at` is where one request is: `arrived`, at the body `limit`, its `body` being parsed by the
framework, in the `app`, `cut` off (the reader of the body got `http.disconnect`), `done`.
`starts` are the `http.response.start` messages that pass the body limit; the first one
makes `call_next` return, with the access log and the header, and BaseHTTPMiddleware fails
at a second one. An exception that no handler takes leaves the middleware (`crashed`): the
server answers 500, or hangs up on a response that has begun. After a `cut` the reader of
the body goes on: the framework answers that it cannot parse the body or lets
`ClientDisconnect` through (`CutAnswers`, `CutRaises`), a handler that reads the body itself
may also end as at any other time, with an answer or any exception (`HandlerEnds`). The body
limit swallows only `ClientDisconnect`, and only after a refusal; every answer after a
refusal is dropped. The refusal of an upload is
two messages; the second has no effect of its own and is left out, like the bodies of all
answers. Bodies that nothing limits end at `BodyCap`. `ctx` holds the request id and the
user id; the e-mail and Sentry's scope are set and reset with them.

`RequestPath` puts the dependencies and the handler of `AuthGate` at `app`: the framework
parses a body first, then solves the dependencies, then calls the handler. Requests without
a body and without errors are combined with every user and route; all other requests with
one user and one route, since nothing in the edge looks at the user's groups. CORS is
outside of it all: it adds headers, and answers a preflight request by itself.

### Pagination and CrudService

A column is a model and a name, a row the record of its columns; `Orderings` are all the
orders that a database may return rows in under an ORDER BY, so ties are nondeterministic
for every page anew. `sort_model` is a joined model with columns of its own.

In `CrudService` every editor is one request with one call, of which every statement is a
step: the load (`Get`, with 404 and the policy's 403), `FlushUpdate`, `RefreshUpdate`,
`Create`, then `Commit` or its failure (an INSERT that fails at its flush leaves what a
commit that fails leaves, nothing, and is not a step of its own). The database and SQLAlchemy's session are external:
READ COMMITTED with row locks, an UPDATE of the columns that differ from the loaded object,
`StaleDataError` for a row that is gone, a DELETE that is sent by the commit. The commit
itself is made by the service that uses the class. One lister walks through `get_multi`
page by page until `has_next` is false. A dict that names a column the model has not is the
same as one without it for `update` (`hasattr`).

### CoreLifecycle

`core` is any choice of the three clients `build_core` can build, in their order of
starting. Each start and stop is awaited, may fail or be cancelled. The HTTP client is a
number; `client` is the class attribute, `closed` those that are closed. A request makes
sure of the client, awaits the auth headers, then sends. `drained` says whether the server waits for its requests before it stops the
clients (uvicorn does, unless its graceful timeout passes); if not, requests (of background
tasks, of consumers) begin and end at any time, also outside the lifespan.

## 4. Runs

States and times are of a run with two workers.

| Run | Checks | Bounds, and why they are enough |
|---|---|---|
| `consumer_loss` (582 000 states) | `TypeOK`, `LossInv`, `SlotAccounting`, `ImplementsAtLeastOnce` | 2 entries, one invalid, 2 processes, 2 attempts, 2 faults, MAXLEN 1, group at `$`, slow handlers, one slot for a batch of two: overlapping handlers, a trimmed pending entry, a failed ACK followed by a crash, waiting for the semaphore all occur |
| `consumer_crash` (71 000) | `OneHandlerAtATime`, `KillsBounded`, `AppliedNotDead`, `EventuallySettled` | one poison entry next to a healthy one, 1 delivery allowed, 1 fault: the poison entry kills as often as it may, takes the healthy one down with it, and an unreadable delivery count gives it one more |
| `loop_ends` (3 100) | `FlagFollowsRun`, `OutageEndsRun`, `OutageIsForgotten`, `StopInLoopEnds`, `ReclaimRecurs` | limits 0, 1 and 4 of failures: never, at once, and after the back-off reached its maximum; int and float delays, the float one overflowing at the fourth failure; two outages, so that one starts with the counter of a recovery |
| `loop_zero` | `ZeroNeverGivesUp`, **violated** | see section 7; the limit 0, `FloatMaxExponent` 2 in place of 1023, so that the fourth failure in a row overflows |
| `verifier_keys` (142 000) | `NoRetiredKey`, `FailureIsRetried`, `RefusedOnlyBriefly`, `EveryRequestAnswered`, `RotationIsNoticed` | one request on the loop, one in a thread, one rotation, ttl longer than the minimum interval, a fetch as long as that interval |
| `verifier_loop` | `LoopNeverFetches`, **violated** | see section 7 |
| `servicetoken` (65 000) | `ReturnedIsLive`, `CacheInv`, `WaitersGetThrough` | two coroutines and a thread, so that three refreshes can overlap; the margin is exactly two latencies, the tightest that is enough |
| `core_lifespan` (451 000) | `NothingLeftOpen`, `OneHttpClient`, `RequestsFindClient`, `StopCompletes` | all 8 choices of clients, two lifespans, two requests, three HTTP clients: one per lifespan and one that a request made |
| `auth_request` (2 690 000) | `HandlerIsAuthorized`, `OneIdentity`, `DownIsNotAnonymous`, `OneAnswer`, `UploadLimited`, `LoggedOnce` | up to two groups out of all the realm's and two lookalikes, two dependencies, one change of the verdict between them; a limit of 2 bytes, chunks of 1 and 2: bodies at the limit, one over it, over it with one chunk or only in sum, with a true, a false and no declared length, at the limit too; every exception, before and after a refusal |
| `producer` (327 000) | `EmitIsHonest`, `InOrder` | two callers, three events each, one retry, two failed calls |
| `cache` (3 330 000) | `AnswersExact`, `EveryKeyHasTtl` | two readers, two departments, two universities, a school, one fault or move: a reader inside the other's rewrite of the hash, with the hash expiring between any two commands |
| `crud_pages` (1 090 000) | `AskedIsReturned`, `OnlyAskedChanges`, `AnswerIsCommitted`, `PagesAgree`, `WalkMeetsEveryRow` | two requests at a time out of updates of both, one or no field of two rows with and without `exclude` and policy, removals, creates, and a walk; no rows, and two or three with ties in every column but the id, pages of 1 and 2 rows, so that the last page is full, short, or grows during the walk (`SomeListings`). A model without `created_at`, and a limit that is not positive, are combined with two sort fields only: neither looks at the others |

`TypeOK` of the modules other than `StreamConsumer` (and `EdgeTypeOK`) hold in these runs
too; they are not listed as properties, since a wrong type shows up in the others.

What the conditional properties say:

- `OneHandlerAtATime` needs `reclaim_idle_ms` longer than the handling of an entry, and a
  batch no larger than the semaphore (an entry that waits for a slot grows idle, too).
- `KillsBounded` grants one more kill per fault: when XPENDING fails the code handles the
  entry rather than dead-letter it unread.
- `AppliedNotDead` holds while no call failed: a processed entry whose ACK failed until
  the attempts were used up goes to the DLQ although it was processed.
- `ReturnedIsLive` and `CacheInv`: the 30 s margin is sufficient if it covers *two*
  latencies of Keycloak. One is that the expiry is counted from the answer; the second is
  a concurrent refresh whose `_expires_at` is paired with an older `_token`.
- `FlagFollowsRun` leaves out the two ways to end that leave `_is_running` true (section 7).
- `OutageIsForgotten` is about an outage that is over: Redis stays up from some time on.
- `EmitIsHonest` grants one duplicate per failed call: the retry of an XADD that did run.
- `OneAnswer` leaves out a handler that begins to answer before it has read its body: the
  refusal of that body is a second response start, an exception then has no answer at all.
  An exception other than `ClientDisconnect` after a refusal passes the body limit, but the
  client has the refusal by then, and nothing else (`UploadLimited`).
- `AskedIsReturned` leaves out a value the row had when it was loaded: it is not in the
  UPDATE, and the refresh shows what another request wrote meanwhile. `AnswerIsCommitted`
  is about updates that wrote something; after one that did not, no lock is held.
- `PagesAgree` compares the length of a page with the total only while the table does not
  change; `WalkMeetsEveryRow` is about such a table and an order that ends in the id.
- `OneHttpClient`, `RequestsFindClient` hold when requests are over before the clients
  stop. One that outlives them can find the client `None` between its two looks at it.
- `InOrder` holds if Redis runs nothing after the caller gave it up; with a command that
  is delayed in a broken connection, a copy can come after a later event.
- `AnswersExact` holds while no department moves; then cached documents are as old as
  their time to live. `EveryKeyHasTtl` holds while no call failed between `hset` and
  `expire`.

Deadlock is checked in every run. Where a system may come to rest, a stuttering action
(`Over`, `Done`) says in which states.

## 5. Fairness

- `StreamConsumer`: coroutines that can run do (the event loop is fair), `reclaim_idle_ms`
  and `reclaim_interval_s` pass, and the orchestrator restarts a process that ended. No
  fairness of Redis beyond the bounded number of faults; a poison entry may kill each time.
- `ConsumerLoop`: the coroutine runs and time passes. Redis need *not* recover: the
  properties name `[]<>up` where they depend on it.
- `TokenVerifier`: threads and the loop run; strong fairness for the step that takes the
  lock, since `threading.Lock` promises no order but the system does wake a waiter;
  `certs()` returns or times out; tokens of the current key keep coming, without which
  nothing would make the verifier look. Keycloak need not come up (`RotationIsNoticed`
  says `<>[]up`).
- `ServiceToken`: threads run and requests end (httpx timeouts); `asyncio.Lock` is FIFO,
  of which strong fairness is the weaker consequence.
- `CoreLifecycle`: each await of the lifespan and of a request ends.

## 6. Proofs

All for every value of the constants allowed by the `ASSUME`s of the modules, which TLC
evaluates on every run. Sizes that the runs keep small (entries, processes, requests, rows,
retries, faults, times) are arbitrary here.

**StreamConsumerProofs** (from `SizesAssumption`, `KindsAssumption`; `SlotsAccounted` in
addition from the finite set `1..N`):

- `TypeCorrect`: `Spec => []TypeOK`.
- `NothingIsLost`: `Spec => []LossInv`. `NoMessageLost` alone is not inductive: an XACK
  settles an entry on the word of a coroutine, perhaps long after other processes claimed,
  processed or ACKed the same entry. The strengthening says what that word is worth:
  `TaskMeaning` (a coroutine at `acking` means processed, at `dlqack` means in the DLQ,
  `void` means trimmed; all three stay true whatever others do), `TaskPlace` (where
  coroutines can exist) and `PelPlace` (only delivered entries of the group are pending).
  One lemma per action; `ReclaimDelivery` and `AckDelivery` hold what XAUTOCLAIM,
  XREADGROUP and XACK do to settled entries.
- `SlotsAccounted`: `Spec => []SlotAccounting`. Each action either leaves the set of
  holders of a slot alone, adds or removes one, or kills the process and with it the
  semaphore; the lemmas reduce each to cardinality facts of `FiniteSetTheorems`.
- `Refinement`: `Spec => ImplementsAtLeastOnce`. From the invariant above: `Xadd` maps to
  `Accept` with the trimmed entries, the creation of the group to `Skip` (or a stutter),
  `ProcessOk` to `Apply`, `SendToDlq` to `DeadLetter`, the three XACKs to `Settle`,
  everything else to a stutter.

Three more, about who handles an entry and how often, rest on `HandlerInvariance` (in
addition from `ProcessesAssumption`: the processes are finitely many):

- `ExclusiveHandling`: `Spec => []OneHandlerAtATime`. An entry becomes idle only without a
  running handler, and a claim takes only idle entries; but an entry *waiting* for the
  semaphore grows idle, too. `BatchFits` (a process has at most `BatchSize` coroutines, as
  each `gather` ends before the next batch) shows that nobody waits when a batch fits the
  semaphore; then an entry with a coroutine is not idle, so it has one only (`OneCoroutine`).
- `KillsAreBounded`: `KillsBounded` under `~SlowHandlers /\ MaxDeliveries > 0`. `KillInv` is an
  account per entry: the kills so far, the handlers that still may kill and the claims that
  passed the count check are paid for by the delivery count of the pending list, and
  after a fault by the fault. Both hypotheses are needed. With slow handlers two processes
  can have the entry claimed; one dead-letters and ACKs it, the other's XPENDING finds
  nothing, which counts as an unknown delivery count, and it is handled once more. With
  `max_deliveries = 0` the first delivery is still handled: a read entry is not counted.
- `CalmRunsAreExact`: `AppliedNotDead` under `~SlowHandlers /\ BatchSize <= Concurrency`, by
  `CalmInv`: in a run without failed calls and deaths nothing is ever idle, and what was done
  with an entry is what its coroutine is about to ACK. Without the hypotheses a second
  handler of the same entry can fail where the first succeeded.

**Service token**, in `TokenVerifierProofs` (from `ServiceTokenAssumption`): `CacheIsSound`
(`TokenTypeOK /\ CacheInv`) and `NoExpiredToken` (`ReturnedIsLive`), for any number of callers, life, margin and latency with `MarginSuffices`. `CacheInv` is the inductive
part: the expiry in the cache exceeds the token's own by at most two latencies,
a thread that wrote its token finds one in the cache that is at most one latency older, and
a token that was found fresh stays live until it is returned, whoever replaces it.

**ConsumerLoopProofs** (from `LoopAssumption`, `BackOffAssumption`): `FlagIsHonest`
(`[](TypeOK /\ FlagFollowsRun)`). What
`FlagFollowsRun` lacks is that `_is_running` is not set before the group is ensured, and that
a process in its back-off has a delay that is not 0 (`FlagInv`). `BackOffAssumption` says that
the back-off of every failure count lies in `1..MaxDelay`; it follows from the positivity
of powers of two, which is an induction, and TLC evaluates it.

**TokenVerifierProofs** (from `VerifierAssumption`): `RetiredKeysAreRefused`,
`FailuresAreRetried`, `RefusalsAreBrief`, the three action properties. An accepted token says
something about a key that was fetched perhaps long ago, by another thread; `KeyInv` relates
the ages: whoever fetches holds the lock and began at most `MaxFetch` ago (`OneFetch`), the
realm is never behind the cache (`RealmIsAhead`), a key was still in use when the fetch that
brought it began (`AgesAgree`), and after a failed fetch the keys are kept at the age that makes them
stale `min_refresh_interval` after the attempt (`FailureAges`).

**RequestPathProofs** (from `EdgeAssumption`, `AuthAssumption`): for the composition of
`HttpEdge` and `AuthGate`. `EdgeInv` makes what has gone out a function of where the request
is, whether its body was refused and whether its handler began early: `AnsweredOnce`
(`OneAnswer`) and `LogIsExact` (`LoggedOnce`) are its cases at `done`. One of them is that of
the refused upload: the refusal and its log line are out, whether or not an exception left
the middleware afterwards (`RefusedEdge`: once a response has begun, neither a dropped answer
nor an exception changes what the client and the log have). `BodyInv` relates the
bytes that were counted to those the application was given, and has nothing of a parsed
route run before its body is in: `UploadIsLimited` (`UploadLimited`). `GateInv` says who was
accepted, and by which token: `HandlersAreAuthorized` (`HandlerIsAuthorized`),
`IdentityIsOne` (`OneIdentity`), `DownIsAnError` (`DownIsNotAnonymous`).

**CoreLifecycleProofs** (from `CoreAssumption`): `ClientsAreClosed` (`NothingLeftOpen`),
`HttpClientIsSingle` (`OneHttpClient`), `ClientIsFound` (`RequestsFindClient`). `LifeInv` says
during starting, serving and stopping what the properties say at the end: whatever is held
is in `_started`, being stopped or was not stopped (`HeldIsKnown`); when requests are
drained, the open HTTP client is the manager's and known in the same way (`HttpIsKnown`),
and requests under way have it (`HttpIsThere`).

**UniCacheProofs** (from `UniCacheAssumption`): `AnswersAreExact` (`AnswersExact`) and
`KeysHaveTtl` (`EveryKeyHasTtl`), for any number of readers, departments, universities and
expirations. A reader trusts a snapshot of the hash that others delete from and write to
before it reads the documents, which expire meanwhile. What makes that safe is that the hash
only ever has all or none of the departments of a university (`Whole`): `hdel` removes what
the fresh universities have in it, `hset` adds whole universities, and an expiry removes
everything. So a university found in the snapshot is found completely, and `Gathered` says
for each place in the code that the answer so far is what was asked for without the
universities still to look at and the documents still to read. `TtlInv` has the hash without
a time to live only while some reader is at its `expire`; a failed call there ends that for
good, hence `faults = 0` in the property.

**CrudServiceProofs** (from `CrudAssumption`: ids come from a sequence, rows have all their
columns): `UpdatesDoNotUndo` (`OnlyAskedChanges`), `CommitsLeaveTheAnswer`
(`AnswerIsCommitted`), `UpdatesAnswerWhatWasAsked` (`AskedIsReturned`), for any number of
requests on any rows. `EditInv` says what a request knows between its statements: an update
that was flushed wrote exactly the fields asked for with a new value (`Differs`); if any, it
holds the lock of a row that is there, and once refreshed its object is the row with its
writes; a created row is not in the table, and nobody else works on it. `Frame` is what the
step of one request leaves to every other, and each action is shown to respect it.

The other half of that module is about the lister: `NumbersOfAPageAgree` (`PagesAgree`) and
`EveryRowIsMet` (`WalkMeetsEveryRow`), for every limit, number of rows and sort order. No
induction over the pages is needed. Where no two rows tie (`OrderIsStrict`: the order is by the id,
or a column and then the id), the place of a row is the same in every ordering the database
may return, namely the number of rows that come before it (`Rank`, `PlaceIsRank`). So `ListInv`
can say of the pages read so far that the i-th row on them is the row of rank i, and that
they end where the next page begins; a page that is read goes on from there (`PageAppends`),
and at the end as many different ranks as rows are all rows. For the numbers,
`LeastPages` is the fact about `total_pages`, a rounded-up division by the limit. The tables of
`CrudAssumption` have numbers in their columns and a row's own id at its place.

**EventProducerProofs** (from `ProducerAssumption`): `NoSilentDuplicates` (`EmitIsHonest`) and
`RetriesStayInOrder` (`InOrder`), for any number of callers, events, retries, pipelines and
failed calls. `EmitInv` is an account: the entries of the stream and the XADDs that still may
run late are at most the failed calls and the entries that were answered or came from a
pipeline (`Free`), each of which is counted once, because a caller returns from an event once
and a pipeline holds only events that were never sent (`Pipes`). That in turn needs that what
was sent for a caller is of the event it is at or of an earlier one (`OneByOne`), which is
also why an entry that is appended comes after all it must come after. A late XADD breaks
just this, hence `~mayRunLate` in `InOrder`.

Each inductive invariant was checked by TLC on the constants of the component's run before
it was proved.

Only model-checked:

- every liveness property (`EventuallySettled`, `OutageEndsRun`, `OutageIsForgotten`,
  `StopInLoopEnds`, `ReclaimRecurs`, `EveryRequestAnswered`, `RotationIsNoticed`, `WaitersGetThrough`,
  `StopCompletes`): fairness and `ENABLED` are out of the prover's reach;
- that the back-off lies in `1..MaxDelay` for every failure count (`BackOffAssumption`), an
  induction over the powers of two.

## 7. Where code and documentation disagree

- **`verifier_loop`**: the docstring of `adecode_token` (`auth/decode.py:226-228`) has keys
  fetched in a thread. A token whose `kid` is not cached makes `decode` fetch them on the
  event loop, under a `threading.Lock`.
- **`auth_request`**: the docstring at `auth/groups.py:42-44` grants a member of a parent
  group what requires a sub-group. The code grants the opposite direction:
  `HandlerIsAuthorized`, which holds (and is proved), says that a group above the required
  one does not open a route. Its mutant is the docstring's reading.
- **`loop_zero`**: `max_loop_failures`: "0 means never give up" (`redis/consumer.py:116`). With
  a `float` `loop_error_delay`, the type it is annotated with, the product at line 545
  overflows at the 1025th failure in a row, before the minimum is taken and outside the
  `try`: `run()` ends and `_is_running` stays `True`. The default `5` is an `int` and never
  overflows.

Further limits of the code that the models show and no run is spent on:

- `stop()` during `_ensure_consumer_group` is overwritten by `_is_running = True`
  (`redis/consumer.py:483`); `StopInLoopEnds` is therefore about a `stop()` in the loop.
- A cancellation during the back-off leaves `_is_running` `True`.
- `created_at` counts as a tiebreaker (`pagination/service.py:128`), and so does the `id` of
  a `sort_model`: rows that tie in them may be repeated or skipped from page to page.
- `limit` has no lower bound (`pagination/schemas.py:10`): 0 divides by zero when there are
  rows, a negative one is an error of the database.
- `create` applies `exclude` to a schema and not to a dict (`services/base.py:121`), although
  its docstring has "Fields to exclude from the input data" for both.
- An exception after the response began is not logged by the middleware, whose `call_next`
  has returned, and the 500 of an unhandled one carries no `X-Request-ID`.
- `get_authorized` decides on the row as it was loaded; the row may have changed by the time
  the update is flushed.
- Several requests that found the keys stale fetch them one after the other: after the
  wait for the lock staleness is not looked at again for the ttl.
- A cancelled `aget_token` releases the lock while its thread goes on, so a second refresh
  can run beside it; `CacheInv` covers that case.
- An administrator passes any scope check (`SUPER_GROUPS`) without having the role, so
  scope and role can disagree.
- Any rewrite of the department hash renews the time to live of all its fields.

## 8. What is left out

- The file operations of S3 storage, file signatures, temporary files: one call each, no
  state that a second step depends on. The e-mail client queues one Celery task per call.
- Log formatting, Sentry's options and the scrubbing of its events, CORS.
- `get_all` and `get_by_ids` of the CRUD services: single reads.
- API clients, schemas, settings, access policy, OAuth scheme, Keycloak and service
  factories, database engine and mixins: construction of objects and declarations.
- Data: payloads, log and error texts, DLQ fields, headers. No property tells them apart.
