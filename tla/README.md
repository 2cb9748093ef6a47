# nestjs-common: a TLA+ model of its stateful core

This directory holds TLA+ specifications of the parts of nestjs-common that keep
state, are called concurrently or decide what becomes of a request, the TLC
configurations that check them on small instances, and TLAPS proofs for every
instance. `PROJECT.json` maps each definition to the source lines it stands for.
Paths below are relative to `src/packages/`.

## 1. Inventory

nestjs-common is a library of NestJS modules in seven packages. There is no
central process: each service is a singleton in some application, and its
handlers run on one Node event loop. Concurrency therefore means *interleaving at
awaits*: code between two awaits is atomic, continuations of settled promises run
as microtasks in the order they were attached, timers and I/O callbacks run
when no microtask is left. All state is in memory, so a restart starts from Init;
nothing is recovered.

| Component | State | Operations | Hard behaviour | Correct when |
|---|---|---|---|---|
| **JWKS cache** `nestjs-auth/src/keycloak/services/jwks-cache.service.ts` | cached keys, one expiry time, the promise of the fetch in flight | onModuleInit, GetKey, FetchJwks, DoFetch | callers that miss together, key rotation during a fetch, malformed responses, expiry during an await | one request at a time; nobody waits in vain; no key outlives its TTL; a lookup finds what its fetch brought |
| **Token validation and guards** `nestjs-auth/src/{keycloak,guards,decorators}` | the user on the request | ValidateToken (online, offline), canActivate of three guards | awaits between guards, requests shared by GraphQL fields, fresh objects for WebSocket messages | a handler runs only for a token that was valid with the required role |
| **Keycloak admin client** `nestjs-auth/src/admin` | granted scopes, the client and whether it is authenticated | start, health, the operations of the resource services (RequireScope, WithRetry, HandleError), Link | answers that are lost after the change, retries around retries, errors mapped before they are judged, two overlapping Links | a write needs a write scope and is made once; the caller is told what Keycloak answered |
| **CSRF tokens** `nestjs-shared/src/common/services/csrf.service.ts` | timestamps per address, a promise chain per address | GenerateToken, pruning on a timer and on pressure, onModuleInit, onModuleDestroy | requests queued behind failing ones, pruning under queued work, shutdown with work queued | the rate limit holds, the map is bounded, locks are released, every request is answered on its own |
| **Instrumentation registry** `nestjs-shared/src/common/registry/instrumentation-registry.ts` | descriptors, windows of values, exporters, listeners | RegisterDescriptor, RegisterExporter, RecordMetric, On, unsubscribe, Shutdown | listeners that call the registry back while it iterates; throwing exporters; registration in any order | every exporter learns every descriptor once and gets every value once; the newest values are kept |
| **Prometheus exporter** `nestjs-prometheus/src/prometheus.exporter.ts` | instruments, buffers, running totals, and prom-client's series | OnDescriptorRegistered, OnMetricRecorded, GetMetrics, Shutdown | values and scrapes that arrive while a scrape awaits; failing scrapes; full buffers | every value that is not culled is counted once; scrapes never go back |
| **Metrics registry and collectors** `nestjs-shared/src/common/services/metrics-registry.service.ts`, `common/metrics` | prom-client's registry, the HTTP metrics, collectors | Create*, RecordHttp, Clear, InitializeMetrics, MetricFactory | names that exist already, a collector that fails halfway, Clear while others hold metrics | what is exposed is what was counted |
| **Pyroscope service** `nestjs-pyroscope/src/service.ts`, its decorators, interceptor and health checks | client, active profiles, history | onModuleInit/Destroy, StartProfiling, StopProfiling, TrackFunction, Check | initialisation in the background races shutdown; eviction of stale profiles; streams that emit often | each profile is recorded once, only stale ones are evicted, functions leave none behind, the client is stopped |
| **Pyroscope metrics and utilities** `nestjs-pyroscope/src/{metrics,utils}` | counters since the last reset, the history | RecordRequest, Reset, Percentile, GroupByTags, retry delays | a clock set back, rounding, empty histories | the figures add up to what was recorded |
| **NATS service** `nestjs-nats/src` | connection, subscriptions | connect, discovery, Subscribe, consumption, Publish, Request, drain | hooks in any order, handlers that throw or wait for each other, draining with handlers running | messages are handled one at a time in order; a started application listens; shutdown ends the connection |
| **Request pipeline** `nestjs-shared/src/common/{interceptors,guards,pipes,filters,utils}` | one request and its answer | ApplySecurityMiddleware, guards, interceptors, pipe, handler, filters | the order of all of them, errors at every stage, services that are not found | one answer; answer, log and metrics tell the same story |
| **HTTP client** `nestjs-shared/src/common/services/http-client.service.ts` | one promise per request | Request | data, end, error, timeout in any order | the promise settles once, and always; a success is whole |
| **Errors** `nestjs-shared/src/common/{services,errors,filters}` | none | categories, sanitizer, BaseApplicationError, filters | cyclic, shared and deep contexts; messages that fit several categories | the category permits a retry only where one may help; no secret gets out |
| **Logging and audit** `nestjs-shared/src/common/services/{logger,audit-logger}.service.ts` | the level | all levels and overloads, the adapter for the framework, audit events | arguments of every shape, cyclic metadata | an entry is complete and shows no secret |
| **Tracing and instrumentation** `nestjs-open-telemetry/src/{decorators,logger}`, `nestjs-shared/src/common/decorators/instrument.decorator.ts` | spans, the active context, metrics recorded | Traced, WithSpan, AddEvent, AddAttributes, Log, Instrument | methods that nest, await and throw; thenables; interleaved callers | a span ends once with the outcome of its call and lies under its caller's; spans show nobody |
| **Metrics and exporter of OpenTelemetry** `nestjs-open-telemetry/src/{metrics,exporters}` | the cache of meters, HTTP metrics, last gauge values | GetMeter, RecordHttp..., the exporter's hooks | the SDK started later, the cache at its limit, delta emulation of gauges | the instrument's sum is the last gauge value |
| Throttling, configuration, health, factories, Qdrant | none, or fixed after start | wiring and formatting | units, defaults | - |

Interactions: guards call token validation, which calls the JWKS cache. The CSRF
guard and middleware call the CSRF service. Interceptors and decorators record
metrics in the registry, which pushes them to the Prometheus and OpenTelemetry
exporters their modules registered; a scrape pulls from the Prometheus exporter.
The NATS registry subscribes the decorated methods on the connection of the NATS
service. A request passes the middleware, guards, interceptors and pipes of
nestjs-shared to a handler, which may call the HTTP client; what fails on the way
goes through a filter, the sanitizer and the logger. Apart from those calls the
components share no state.

## 2. Modules

| Module | Stands for |
|---|---|
| `JwksCache` | the JWKS cache, with Keycloak and the clock as its environment |
| `KeyLease` | what the cache promises: a key is used under a lease of one TTL from its reception |
| `JwksCache_proofs` | theorems about `JwksCache` |
| `GuardPipeline` | ValidateToken in both modes and the three guards, over the promise `KeyLease` makes |
| `GuardPipeline_proofs` | theorems about `GuardPipeline` |
| `KeycloakOperations` | the operations of the admin client: scopes and the external call of each |
| `KeycloakAdmin` | start, health and every operation, with lost answers and expiring tokens |
| `KeycloakAdmin_proofs` | theorems about `KeycloakOperations` and `KeycloakAdmin` |
| `CsrfTokens` | GenerateToken with chains, pruning, capacity, life cycle and the runtime's reaction to unhandled rejections |
| `SlidingWindowLimiter` | what the service promises: the decisions of a limiter that forgets nothing |
| `CsrfTokens_proofs` | theorems about `CsrfTokens` |
| `InstrumentationRegistry` | the registry, with re-entrant listeners |
| `SharedServices_proofs` | theorems about `InstrumentationRegistry`, `MetricsRegistryService`, `HttpClient` and `RequestPipeline` |
| `PrometheusExporter` | buffers, flushes, overlapping scrapes |
| `MetricsLedger` | what an exporter of counters promises its scraper |
| `PrometheusExporter_proofs` | theorems about `PrometheusExporter` |
| `MetricsRegistryService` | the metrics service, its collectors and the factory |
| `PyroscopeService` | life cycle, health, profiles, and every caller that starts and stops them |
| `Telemetry_proofs` | theorems about `PyroscopeService`, `OtelMetrics`, `Tracing` and `ProfilingMetrics` |
| `ProfilingMetrics` | counters, averages, percentiles, groups and retry delays |
| `NatsService` | life cycle, discovery, consumption, requests and draining |
| `NatsService_proofs` | theorems about `NatsService` |
| `ObjectWalk` | the walk over an object graph that sanitizer and logger share |
| `AppLogging` | what becomes of the arguments of a call of the loggers |
| `ErrorHandling` | categories, sanitizing and formatting of an exception |
| `HttpClient` | one call of Request and the events of its socket |
| `RequestPipeline` | the way of a request; composes the five modules before it |
| `Tracing` | spans and counts of decorated methods on one stack |
| `OtelMetrics` | meters, HTTP metrics and pushed metrics around the start of the SDK |
| `MC*` | constants and symmetry for TLC; `MCTelemetry` runs the four parts of its `EXTENDS` |

### JwksCache

`keyCache`, `cacheExpiresAt`, `fetchPromise` are the fields of the class. `fetch[f]`
is one run of DoFetch: *sent* until Keycloak answers (`KeycloakAnswers`), *answered*
until the code after `await fetch()` has run (`FetchSettles`: the response failed,
is stored, or is malformed and stored in part), *settled* until the `finally`
callback clears `FetchPromise` and releases the waiting callers (`FetchFinally`).
`pc[c]` follows one GetKey: `GetKeyHit` returns without an await, `GetKeyJoin` and
`GetKeyFetch` are the two ways through FetchJwks, `Recheck` is the code after the
await. The response is received and stored in one step: the two awaits of DoFetch
(headers, then body) touch no shared state in between. A key is its kid; PEM conversion only matters in that it
may throw halfway. `Drained` says that microtasks run before the next I/O event;
a new GetKey may run in between, since it may itself start from a microtask.

### GuardPipeline

An *execution* is one handler with its guards; its `pc` names the guard or the await
it is at. `JwtAuthGuard` is the code up to the first await, `IntrospectionReturns` and
`Verify` are the two ends of ValidateToken with the rest of canActivate (`Attach`),
`RoleGuard` and `PermissionGuard` are separate steps because NestJS may await between
guards. `on[x]` is the object the user is attached to: an HTTP request has one
execution, a GraphQL query one per field and a WebSocket client one per message, so
executions can share it and interleave. Offline validation composes with the JWKS cache through its
*abstract* specification: `Cache == INSTANCE KeyLease`, whose implementation by
`JwksCache` is a theorem; the cache may refuse at any time. What the guards ask is the
metadata of the decorators (`demand`). A token is a model value with its claims given
by constants (`Kid`, `Expiry`, `RolesOf`, `Genuine`, `Issued`, `Addressed`).

### KeycloakAdmin

`config` is chosen once; `OnModuleInit` and `Authenticate` are the start of KeycloakAdminService
under KeycloakAdminModule, which may refuse it, and `TokenExpires` what the external
client does not renew. A `Call` makes one of the operations of `KeycloakOperations`, a
record of its scopes and the external call, and `wrapped`
tells whether the application puts withRetry around it. The external call `Succeeds` or
`Fails`: Keycloak may apply the change (`Apply`) and still not be heard. `AfterError` is the
catch block of WithRetry with HandleError: what was mapped has no `statusCode` any more;
`DelayOver` is the next try. Link first reads the identities of the user and then adds
one, with an await in between.

### CsrfTokens

`tokenGenTimestamps` and `ipLocks` are the two maps. A request is *queued* once
`PendingWork.then(...)` is attached (`GenerateToken`), *settled* when its work was
fulfilled or rejected (`Refuse`, `Grant`, `InheritRejection`), *done* when its
`finally` ran (`Cleanup`). A timestamp is named by the request that recorded it,
its value is `stamp`. `PruneInterval` is the timer, and pruning under pressure is
part of `Refuse` and `Grant` (`CurrentTimestamps`, `CurrentLocks`), as in
PerformRateLimitedTokenGeneration. `Crash` is Node's default reaction to an
unhandled rejection, switched by a constant, since the library installs no
handler and the application might. The queue timeout is left out: its timer starts when the
work starts, and the work is synchronous, so it never fires.

### InstrumentationRegistry

`descriptors`, `values`, `exporters`, `listeners` are the maps and the set. Every
method is synchronous, but listeners call back: `calls` is the stack of RecordMetric
calls in progress, each with its position in the array of listeners, which is read
live as `for...of` does. `RecordMetric` runs up to the loop, `CallHandler`,
`HandlerReturns` and `RecordMetricReturns` are the loop. Hooks of exporters do not
call the registry back (neither exporter of the repository does), so a round over the exporters is a single step with the set
of exporters that have the hook; an exporter that throws is caught on its own.
`Hooks` records which method names an exporter object really has. `Shutdown` calls
every hook and then waits for all promises. It is called by the application; no
module of the repository calls it.

### PrometheusExporter

`pending` is the buffer of each metric, `gaugeValues` the running totals per
normalised label key, `series` what prom-client's instruments hold. `GetMetrics` is
the synchronous part of a scrape (swap every buffer, apply it); `ReadInstrument` is
prom-client collecting one instrument; `GetMetricsReturns`/`GetMetricsFails` end the
scrape. Labels are abstracted to the key NormalizeLabelKey makes and the series
prom-client makes of it (`SeriesOf`). Buffers of all metrics are flushed in one
step as the loop of GetMetrics has no await. Not modelled: descriptors registered again
after Shutdown, errors of a Gauge's `set`, histograms' buckets (a histogram is its
sum), the text format.

### PyroscopeService

`phase` and `client` follow InitializePyroscope, which runs in the background;
`shutdown` follows onModuleDestroy up to the end of `stop()`. `activeProfiles` and
`metrics` are the map and the array, `profileId` the contexts that have an identifier. A context
stands for its one profile; durations, tags and the identifier's text are left out.
The callers are `Functions` (TrackFunction and the decorators: `EndFunction`), `Requests` (the
interceptor: `Emit` for each value, `EndRequest` for an error, `LeaveRequest` for a stream
that completes or is unsubscribed from) and the application (`StopManually`).
`GetHealth` and `Check` are the health endpoint and the health indicator.

### NatsService

`connection`, `link`, `nats`, `registry` and `shutdown` are the connection, its
network link, the two onModuleInit hooks and onApplicationShutdown. `HooksInOrder`
says whether NestJS awaits the first hook before it calls the second one, which depends on
the modules' import order. `sub[s]`, `inbox[s]` and `current[s]` are a subscription,
the messages its iterator has not yielded and the message whose handler is awaited: `HandlerStarts`
is one turn of the `for await` of ConsumeSubscription, `HandlerEnds` what follows the await, whether the
handler threw or not. A handler may publish or send a request, which holds it
until the request settles (`asking`). `Deliver` gives a message to every subscription of its
subject, and to one member of each queue group. `Close` is the end of a connection, after which iterators
still yield what they hold. `IteratorFails` ends one subscription with an error.

### ObjectWalk, AppLogging, ErrorHandling

A graph is a sequence of objects of [key, val], where val refers to another
object or is a primitive; a primitive is named by its place, so that "shown" is a set of
places. `Walk` is the recursion of SanitizeContext and SanitizeMetadata, which differ in the four fields of a
walk: a recursive function on visits (an object, how many of its entries, the depth, the objects seen before), since the set
of seen objects is handed from each entry to the next. `Public` says what it is for without walking: the primitives to
which some path has no secret key. Exactness is claimed of graphs with no more objects than the depth allows, of any shape: in a larger one an
object may be met first where it is cut and then be labelled circular where it is not. A logger starts from a copy of the root, so that a root that
is referred to counts twice (`Rooms`). `AppLogging` classifies the arguments as the code does (string, object,
object with a context, trace) and yields the entries written. An exception in
`ErrorHandling` has the fields the filters and the categorizer read; a message is the set of words
the patterns look for.

### HttpClient and RequestPipeline

`http[c]` holds the socket, the response and the promise of one Request; its events
are actions whose guards are what Node guarantees (data before end, close last) and nothing more.
`stage[r]` follows a request: `Receive` with the `Middleware`, `Guards`, `Pipe`, the handler, which
notes something in the log (`HandlerNotes`), awaits a call (`HandlerCalls`, `HandlerResumes`) and ends
(`HandlerEnds`), then `Complete`, the interceptors on the way back, and for an error `Fail`, the filter
that NestJS selects. `env` is the deployment: which services the interceptors find, which filters are
registered, production or not. The answer, the entries in the log and the
recorded metrics are separate variables (`answer`, `journal`, `samples`), since the code makes each on its own;
`outcome` is what became of the request, and `cleaned` the payload that the handler is given.

### Tracing, OtelMetrics, ProfilingMetrics, MetricsRegistryService

`Tracing`: code runs on one stack; a call leaves it at an await and comes back with
an empty one. The context of a call is named by the call whose span is active in it, so that
the tree of spans can be compared with the tree of calls. `OtelMetrics`: an instrument created before
the SDK is started drops what it is given, and the SDK sums up what later ones are given
by name and labels; the exporter remembers a gauge by a key (`GaugeKey`), which labels that are written alike share. `ProfilingMetrics` compares every figure with the
history of samples; an array of metrics is a function on positions, and `Sorted` an order of them, as no figure
depends on how sort() treats equal durations. `MetricsRegistryService`: `exposed` says for every name who made
the metric and how often it was observed. These four share no state, so `MCTelemetry` chooses the part
that a behaviour looks at (`part`): the others would only multiply the states.

## 3. Runs

No run takes more than about three minutes. Bounds are constants of the cfg;
clocks and counters are capped by guards named `Max...`.

| Run | Question and answer |
|---|---|
| `jwks_cache` | Two callers, two keys, two possible requests, TTL 1, clock to 1, offline start: `SingleFlight`, `FetchedKeyStays` hold, the cache implements `KeyLease` (`ServedUnderLease`), and every lookup ends under fairness (`LookupsEnd`). Two callers are enough for a join and a caller that comes between a fetch's settlement and its `finally`; two keys for a response that lacks one; a second request id exists so that a second concurrent request *could* be sent; the clock reaches the end of a lease, and the theorems cover longer ones. |
| `guards` | Two executions on one object, three tokens (good, expiring early, meant for another client), four kinds of demand, both modes, all contexts, TTL 1, clock to 2: `RunsOnEvidence`, `RunsAuthorized` hold and `ExecutionsEnd`. Two executions are enough for a field that sees the user a sibling attached; the clock passes the expiry of one token and two leases while calls are under way. |
| `keycloak_admin` | A call of any operation beside a call of Link, default permissions (none configured) and a set with writes, one retry, four statuses that stand for the classes of errors (refused, missing, retryable by status and by server): `ToldAsAnswered`, `WritesNeedWriteScope`, `AppliedOnce` and `LinkedOnceUnlessRaced` hold. Two calls are enough for the race of Link; the table of operations is complete, so one wrong scope in it is found. |
| `csrf_tokens` | Three requests, two addresses, room for two in the map, limit 1 in a window of 2, clock to 3: `RateLimit` holds, every request that is evaluated gets the decision of `SlidingWindowLimiter` (`DecidesAsLimiter`), and every queued request is answered unless the process ends (`RequestsSettle`). All decisions occur: the second request of an address meets its limit while the map has room (429), a request after one of each address meets a full map (503), and the clock passes the window, so timestamps run out while a request is queued. A request that inherits the rejection of its predecessor is not evaluated, and no decision is claimed for it. |
| `registry` | One metric, two handlers in up to two subscriptions, two calls deep, an exporter with events and a pull exporter that throws, window of 2, three values: `BookkeepingExact`, `ReceivesEach`, `ShutdownCompletes` hold, and so does `DeliveredOnce` as long as nobody unsubscribes. Three values overflow the window; two calls are enough for a listener that records or subscribes while a value is delivered. |
| `registry_pascal_case` | Finding 1. |
| `prometheus` | A counter and an updown_counter, negative amounts included, two label sets, buffers of 2, three values, two overlapping scrapes: `NothingMiscounted` holds, and counters implement `MetricsLedger` (`CountersAreLedger`): what a scrape reports was true while it ran and is never taken back, culling and shutdown included. Three values overflow a buffer; two scrapes overlap and one may fail. |
| `pyroscope` | Two functions, a request and a profile of the application, room for one active profile and two metrics, timeout 1, clock to 3: `RecordedOnce`, `FreshProfilesStay`, `OverLimitOnlyFresh` and `ClientStopped` hold whenever the client becomes ready, fails or is stopped. Four profiles overflow both collections, and the clock makes some of them stale. |
| `pyroscope_health` | Finding 2. |
| `nats` | A method that listens alone, one that shares a queue group with a subscription of the application and awaits a request, a provider without instance, two messages, hooks in either order: `ConsumedInOrder` and `StartedListens` hold, and under fairness `ShutdownCloses` and `DeliveredIsHandled`. Two messages are enough for one to wait behind the other in an inbox, also of a connection that is closed meanwhile. |
| `requests` | One request at a time (requests share only the log) with 21 inputs, nine deployments, nineteen exceptions, ten kinds of log call, four of them with one of five graphs (tree, chain beyond the depth limit, cycle, shared object, and a root that is referred to), payloads of at most two chunks: `AnsweredAsDone`, `LogTellsOutcome`, `DataIsClean`, `RetriesAreJustified`, `SuccessIsWhole` hold and `RequestsEnd`. Each value of a field of the input and of the deployment occurs at least once, and the graphs exceed every depth limit. |
| `telemetry` | Two calls of five methods: traced and instrumented, instrumented with error counters only and called with two lists of labels, in WithSpan, returning a thenable; two of them share a metric. Arguments are texts, numbers, lists of both, and the rest; cards and sixteen digits that are none. Three meters for a cache of two, two requests, two pushed values with three lists of labels, two of which have the same key; three samples; collectors whose second metric exists, and a gauge recorded as a counter: `TraceFollowsCalls`, `EndsAgree`, `SpansShowNobody`, `PushedIsKept`, `FiguresAreRight`, `ExposureIsExact` hold. Two calls nest or interleave; three meters evict one; a second value of a gauge is pushed as a difference to the first, and must go to its own series. |

Symmetry is used in runs without liveness properties only. Deadlock is not
checked where calls are finite, or a refused start ends the service: there the
system may stop. Several runs check a conjunction of named parts, such as
`AnsweredAsDone == TypeOK /\ OutcomeKept /\ MeasuredAsAnswered`; the parts are stated
and commented on their own in the module.

### Fairness

Only liveness properties use it. `JwksCache`: weak fairness of the continuations
(the event loop runs every microtask) and of Keycloak's answer: `fetch` settles at
the latest with the HTTP client's own timeouts. Nobody has to call GetKey, rotate
keys, or advance the clock. `CsrfTokens`: weak fairness of the three microtasks of
a request; no timer, arrival or shutdown is assumed to happen. `GuardPipeline`: weak
fairness of the steps of an execution that has begun, of the end of an introspection call, and of the
answer of the JWKS cache, which is what `LookupsEnd` shows of it; no execution has to begin. `NatsService`: weak
fairness of the turns of a `for await` loop, of handlers (whose promise the application must settle), of
requests, which the client library ends at the latest with their timeout, and of `drain()`; no
message, hook or change of the link is assumed. `RequestPipeline`: weak fairness of the synchronous parts
and of what Node owes a socket (an idle one times out, a destroyed one closes, a complete
response ends), and `[]<>(stage[r] # "handling")`: a handler may take its time, but it ends, which is up to the
application. `KeycloakAdmin`, the registry, the exporters, `PyroscopeService` and the parts of
`MCTelemetry` have safety properties only and no fairness.

### Findings

1. `registry_pascal_case`: both exporters of the repository name their hooks
   `OnDescriptorRegistered`, `OnMetricRecorded`, `Shutdown`; the registry calls
   `onDescriptorRegistered`, `onMetricRecorded`, `shutdown`. They are never told anything.
2. `pyroscope_health`: the health endpoint and the indicator report a client that is
   enabled and failed to start as healthy: both ask `IsEnabled()`, which is false until the start
   has succeeded.

### Seen while modelling

Where code and documentation disagree, or a reader of the code may be surprised; the
modules model what the code does.

Authentication and administration
- WebSocket: every guard gets a fresh copy of the client (`context-utils.ts:123`), so the user that
  JwtAuthGuard attached (`jwt-auth.guard.ts:96`) is gone when RoleGuard looks for it.
- A JWKS lookup of a freshly rotated key that joins a fetch answered before the
  rotation is refused without a request of its own (`jwks-cache.service.ts:131`), although the comment on
  GetKey (lines 85-86) says that the next request triggers a refresh.
- Online validation leaves the issuer to Keycloak, although the comment on ValidateToken (line
  83) says that both modes verify it.
- Services of the admin client never retry: WithRetry sees the error after HandleError, and
  IsRetryableError (`retry.ts:97-99`) reads `statusCode` where mapped errors have `StatusCode`. The package README
  (line 355) promises retries of 5xx and network errors. HandleError never makes a RateLimitError or ConflictError.
- `timeout` (README line 354) is not passed to the external client; the token is not refreshed, while
  IsAuthenticated and the health check stay true; `ForRoot()` without options throws even when disabled.
- Link's "internal deduplication" (`federated-identity.service.ts:25`) does not cover overlapping calls.
- KeycloakClientError's subclasses inherit a WithContext that calls their constructor with options in the place of the status.

CSRF and throttling
- A request queued behind one that is rejected gets its rejection; its own check never
  runs (`csrf.service.ts:397`, against lines 392-393).
- The promise of `finally` is dropped (`csrf.service.ts:420`), so that every 429 or 503 is an
  unhandled rejection, which ends a Node process with default settings.
- SharedThrottlerModule divides `ttl` by 1000, but @nestjs/throttler 6 takes milliseconds: a window of 15 minutes becomes 900 ms.

Metrics and profiling
- A listener that unsubscribes while it is called makes the loop skip the next one
  (`instrumentation-registry.ts:353`, against `__tests__/instrumentation-registry.spec.ts:484`).
- A gauge recorded twice between two scrapes shows the sum (`prometheus.exporter.ts:324`), where the README of
  the package promises the last value (line 273).
- An updown_counter recorded with label values `200` and `'200'` has two running totals
  for one series, which shows the one set last (`SeriesOf` can map two keys to one series).
- MetricsRegistryService.Clear detaches the HTTP metrics for ever; a collector that failed once can never be
  built again; RegisterMetric does nothing for metrics of prom-client; MetricFactory uses the global registry; Create* ignores Enabled.
- The active profiles of PyroscopeService are not bounded by 10,000 as its comment
  (line 41) and the package README (line 809, "older ones evicted") say: only stale ones are
  evicted. `OverLimitOnlyFresh` is what does hold. The service is degraded over 1,000 profiles and evicts
  over 10,000, so leaked profiles keep it degraded.
- A Pyroscope client whose import ends after onModuleDestroy is started and never
  stopped: the exception `late` in `ClientStopped`.
- A profile of a request whose stream ends without a value stays in the map until it
  is stale.
- GetMetrics of nestjs-pyroscope counts every request as successful when no MetricsService is given; GroupByTags and TagFormatter.Format
  join without escaping, so keys may collide; GetRetryDelay adds its jitter after the maximum; Percentile
  multiplies floating-point numbers (`profiling.utils.ts:207`) and may pick the next rank: 55 percent of 100 metrics is the 56th. For
  the percentages of `PercentilesAreRanks` the product rounds up to the exact rank for up to 200,000 metrics, and the model computes with integers.

NATS
- The comment on the start order (`subscriber-registry.service.ts:23-27`) holds only for some import orders; in
  the others the start fails. A connection opened after the shutdown hook is never closed
  (`late` in `ShutdownCloses`). A provider registered with useExisting is subscribed twice.
- drain() does not wait for handlers that run. A handler that requests a subject that its own subscription
  serves waits for itself until the timeout. Request throws synchronously when not connected.

Requests, errors and logs
- CommonModule registers HttpExceptionFilter before GlobalExceptionFilter, and NestJS asks the last one
  first: HttpExceptions are answered 500, against the header of `http-exception.filter.ts`. Errors of the body parser and CORS are answered 500 too.
- HTTPMetricsInterceptor's `get(MetricsRegistryService)` is strict and CommonModule does not provide it:
  every request is answered 500 unless the host module does (`metricsFound`). It records 200 or 201
  for errors that are no HttpException, where HTTPInstrumentationInterceptor records 500.
- HttpClientInterceptor reads `response.statusCode` (line 35): a handler that returns null is answered 500.
- An error of an object without `statusCode` has 500 in the body and another status; the sanitized context is sent
  in production although the comment on SanitizeErrorResponse says that it is omitted.
- The categorizer documents "server errors (5xx)" as transient and "bad requests (4xx)", "not found" and authorization as permanent
  (`error-categorizer.service.ts:38-39`). Of the 5xx only 502, 503 and 504 are transient (lines 368-373). Words are tested before the status, so
  a 404 or 403 whose message holds `connection`, `network` or `timeout` is transient: `RetriesAreJustified` excepts those (`WayBlamed`). StatusCode and Code of application errors are
  not read at all, so a 503 of one is permanent and a 404 that mentions a connection transient. `ETIMEDOUT` gets the backoff of a retry (1 s, line 113), not "medium" (2 s, line 49). The CreateError classes' WithContext nests context in `context`.
- With Express 5 `req.query` has a getter and no setter, and is an object for every request (`security-bootstrap.factory.ts:150`): with xss
  cleaning every request fails (`queryAssignable`). Keys that collide after cleaning overwrite each other,
  and a cleaned key can hold a pattern again: `__proto__` is replaced before `constructor`, so `constructor_proto__` becomes `_redacted__proto__` (sanitization.utils.ts:97-101).
- `error(msg, {obj})` drops its metadata; an object with the key `context` is taken for options; Dates become `{}`;
  shared objects are labelled circular; AppLogger's keys lack "key", "credential", "pin" and "jwt"; the adapter loses the
  stack of an error; GlobalExceptionFilter in development, MetricsController and HttpClientService pass text or objects in the place of the context. Failed audit events are logged at info where the comment says WARN.
- HttpClientService resolves for statuses of 400 and more, logging success; a response may still log
  success after "Payload too large".

Tracing and health
- Traced uses OTEL_NAMESPACE, not the configured namespace; a circular `attributes` option throws after
  the span was started, which then never ends; thenables are taken for finished; messages of errors are not redacted.
- Meters and instruments made before the SDK starts stay without effect for ever, against the comment of `metrics.ts` on lazy creation.
  The exporter's Shutdown forgets gauges whose sum the SDK keeps.
- Two methods that share a metric, or one whose labels differ between calls: the call throws before the method runs.
- The option `timing` of @Instrument is documented as recorded "for all invocations" (`instrument.decorator.ts:24-26`); HandleError
  (212-218) records error counters only. `CountsAreCalls` therefore asks for the durations of successes and allows those of
  failures, so that it holds of the code as it is and as it is documented.
- SanitizeArgument is said to redact the numbers of cards (`traced.decorator.ts:398`); one that is given as a number, also in a list,
  is shown verbatim (414-416, 442). `SpansShowNobody` speaks of texts only.
- A gauge is remembered under its name and its labels, sorted, written `k=v` and joined by `,` (`opentelemetry.exporter.ts:171-178`).
  The labels 200 and '200', or a value with a comma, therefore share one remembered value and are two series: what these show is then no
  value that was given.
  `GaugesShowTheLast` speaks of labels whose key no others share (`KeyOfItsOwn`).
- RecordCounter on the name of a gauge increments it, as a gauge of prom-client has `inc` too (`metrics-registry.service.ts:146-148`); every
  other mismatch throws and is logged. `ExposureIsExact` counts it as a recording of the gauge (`Accepts`).
- HealthCheckService.GetReadiness is READY whatever its checks say. QdrantService resolves the default client only.

## 4. Proofs

All theorems hold for every value of the constants that satisfies the named
ASSUMEs of the module (finite sets of requests and addresses for cardinalities,
natural bounds, `Null` outside the other sets).

`JwksCache_proofs`
- `TypeCorrect`: `Spec => []TypeOK`.
- `OneFlight`: `SingleFlight` and `WaitersAwaitTheFlight`. The first alone is not
  inductive: a settled fetch releases its waiters, so the invariant must say that
  whoever waits, waits for the fetch `fetchPromise` stands for.
- `ExpiryCorrect`: `ExpiryCoversKeys`. It needs that the expiry time is never later
  than now plus the TTL: a malformed response stores keys under the old expiry.
- `FetchedKeyCorrect`: `FetchedKeyStays`, from the fact that no fetch can be in
  flight between the `finally` of a fetch and the continuations it releases that
  touches the cache (`Drained`).
- `ServesUnderLease`: `Spec => Lease!Spec`; each step maps to a step of `KeyLease` or a
  stutter, using `ExpiryCoversKeys` for every answer with a key.

`CsrfTokens_proofs`
- `TypeCorrect`, `LocksCorrect`, `CapacityCorrect`.
- `RecordCorrect`, the inductive invariant behind the rest: the map holds *every*
  counted request that is still in the window, and only counted requests of the
  right address. Pruning keeps the first half because it uses the same window as the check.
- `RateLimitCorrect`: `RateLimit`, from the record and cardinality lemmas about a
  set that loses expired members and gains one.
- `DecisionsCorrect`: `Spec => Limiter!Spec` for the requests whose work runs: the record makes the map's `Recent` equal
  to the limiter's `InWindow`, so both take the same branch.

`GuardPipeline_proofs`
- `TypeCorrect`, `EvidenceCorrect` (`RunsOnEvidence`) and `AuthorizationCorrect`
  (`RunsAuthorized`). None of them is inductive. `IInv` adds where an execution can be (`Progress`),
  that an answer is evidence when it arrives (`Answered`: a lookup is granted under a
  lease that runs now, hence ran after the execution began), that evidence is never lost
  (`AcceptedOnEvidence`), that an attached user was accepted (`UserAccepted`), and that each guard was passed
  by right (`PassedGuards`). `EvidenceMonotone` carries the argument: a lease only ever
  becomes longer and nothing is taken back that was vouched for. Only the promise `KeyLease` is
  used of the cache.

`Telemetry_proofs`, on `PyroscopeService`
- `TypeCorrect`; `RecordedOnceCorrect` and `FunctionsLeaveCorrect` from the inductive
  `Bookkeeping`: a profile enters the map in the step in which its caller begins, and never again;
- `FreshProfilesStayCorrect`, an action property, from the same invariant;
- `OverLimitCorrect`, from the monotony of cardinalities, and `ClientStoppedCorrect`, which is inductive
  as it stands;
- `HistoryCorrect`, from the lemma `RecordedKeepsNewest` about the window.

`Telemetry_proofs`, on `OtelMetrics`
- `PushedCorrect` (`PushedIsKept`), for any size of the cache, number of requests and of pushed values. `MetersInOrder` says that
  the cache is the end of the sequence of meters that were put into it, so that the one evicted is the one put in first;
  `HttpCounted` that no request is in flight or counted before the HTTP metrics exist; `GaugesInStep` that the exporter's last value
  of a gauge whose key is its own is the last one it kept, and so is the sum its instrument was brought to, until Shutdown forgets the former.

`Telemetry_proofs`, on `Tracing`
- `TraceCorrect` (`TraceFollowsCalls`), for any table of methods and any number of calls that nest, await and interleave. The
  invariant (`Placed`, `StackRuns`) says that the context of a call is its own span where it has one and otherwise the context of its
  caller. That the recursive function `SpanAbove` finds the same span needs that following callers comes to an end: in every set of
  calls there is one whose caller is outside it (`CallersCameFirst`, `AboveIsContext`).
- `EndsCorrect` (`EndsAgree`): `Fits` relates how far a call is, its span and what @Instrument took its outcome for, in each state
  between; `CountsExact` compares each metric with the cardinality of the set of calls that are recorded in it. `TracingAssumption` asks of
  the table of methods only that no option names a metric twice.
- `SpansCorrect` (`SpansShowNobody`), for any methods, arguments, numbers and lists of texts and numbers. `ShownIsRedacted`: what a span shows is the
  sanitised form of an argument or a result. That other digits stay needs that a span never loses what it shows (`Shows`) and that
  only digits that pass the check are taken out of a text (`DigitsKept`). That IsValidCreditCard, which walks over the digits from the end, computes the sum of
  Luhn's formula is `CardIsLuhn`: the walk and the formula are folds over the same places, and a fold that adds up natural numbers
  over a finite set is the number of points under them, whatever it takes first (`SumUnique`). The digits of a text are those that
  the expression in traced.decorator.ts:322 matches: sixteen, or none.

`Telemetry_proofs`, on `ProfilingMetrics`
- `FiguresCorrect` (`FiguresAreRight`), for any number of requests, attempts, statuses and durations. The invariant (`Exact`) says that
  the counters are the numbers of the places of the requests that count and of those that failed, that their time is the number of
  points over those places, so that it does not depend on an order (`TotalIsTime`), and that it lies between as many times any bounds
  of the durations. The average and its rounding are then arithmetic (`Quotient`, `Mean`). A finite set can be sorted (`CanBeSorted`),
  and the i-th of an order has at least i values that are no greater, and any smaller value fewer than i (`Rank`), which is the
  percentile's definition. `Waits` says that each delay is one of those for its error and attempt; that delays grow needs that
  2 ^ n does, which is the number of the parts of n members (`PowersGrow`).

`NatsService_proofs`
- `TypeCorrect`: `Spec => []TypeOK`, which needs that an inbox and the history of handled messages stay
  sequences of messages.
- `ConnectionCorrect`, the inductive invariant of the life cycle (`LIInv`). `StartedListens` alone is not
  inductive: `Unconnected` adds that nothing is subscribed, delivered or asked before there is a connection, and
  `Listening` that a ready registry has every decorated method subscribed and that only the end of the
  connection ends such a subscription. It does not depend on `HooksInOrder`.
- `ListeningCorrect` (`StartedListens`) follows from it.
- `ConsumptionCorrect` (`ConsumedInOrder`): what was delivered to a subscription is what it handled, the message
  in the hands of its handler and its inbox, in this order. Each step moves a boundary in that
  concatenation: `YieldKeeps`, `EndKeeps`, `DeliveryKeeps`. Handlers are refused to send only once the connection
  drains or is closed (`RefusedWithoutConnectionOnly`), which needs no shutdown: the library may give up reconnecting.

`KeycloakAdmin_proofs`
- `EveryChangeAsks`: over the whole table of operations, one whose external call is not a GET asks for a
  write scope. The services are checked one by one.
- `CallsCorrect`, the inductive invariant: a call that is under way passed RequireScope under scopes that
  have not changed since (there is a client only after they are granted), what was applied was permitted, and
  an unwrapped call is over once its change is applied. The last part rests on `RawErrorsEnd`: what the
  external client throws is never retried.
- `WritesCorrect` (`WritesNeedWriteScope`) and `AppliedOnceCorrect` (`AppliedOnce`) follow, for every configuration,
  retry limit and number of calls.

- `LinkedOnceCorrect` (`LinkedOnceUnlessRaced`): the inductive invariant relates every identity to the calls of Link that
  added it; two calls can both add one only if each read the identities before the other was applied.
- `ToldCorrect` (`ToldAsAnswered`): what a caller is told is fixed by what Keycloak answered last and how HandleError mapped it.

`SharedServices_proofs`, on `InstrumentationRegistry`
- `TypeCorrect`, with the facts about the stack that the types need: a listener in progress has a position in its array.
- `BookkeepingCorrect` (`BookkeepingExact`): the rolling window and what each exporter was told of descriptors.
- `ReceivesCorrect` (`ReceivesEach`), under the hypothesis `EventHooksPresent`: every event-based exporter has the method
  that the interface names. The run `registry_pascal_case` shows that the hypothesis is needed.
- `ShutdownCorrect` (`ShutdownCompletes`).
- `DeliveryCorrect` (`DeliveredOnce`): for a stack of any depth. The invariant says of each recording in progress which
  listeners have had its value, by the position of the loop, and that positions below it do not move unless a listener
  is unsubscribed.

`SharedServices_proofs`, on `MetricsRegistryService` and `HttpClient`
- `ExposureCorrect` (`ExposureIsExact`). The property alone is not inductive: clearing gives a name up, which another owner may then
  take. `Owned` adds what each owner implies of the events: a name without an owner was not created since the last clear, a metric of
  the service is exposed as long as the service is attached and nothing was cleared, one of the application counts from its
  creation. The lemmas on `Since` and `CountAfter` say what one more event does to them.
- `SuccessCorrect` (`SuccessIsWhole`). `Whole` adds to the property that a promise that is still open lost no chunk and that what
  was read of an open socket is within the limit: the check comes before the chunk is kept, and the first chunk dropped rejects.

`SharedServices_proofs`, on `RequestPipeline`, `ErrorHandling`, `AppLogging` and `ObjectWalk`
- `PipelineInvariant`, the inductive invariant `AllOK`. It consists of `AllWhole` (see `SuccessCorrect`), of `Framed`, the domains of
  the variables, and of `RequestOK` for each request: up to the handler nothing but the entries of its start and the note is in the journal
  (`Begun`); once answered (`WellEnded`) answer, samples and journal are those of one outcome. No conjunct of it is the property of a
  run: those speak of answered requests, and a step to an answer needs to know what was in journal and samples before.
  `WellEnded` has one part for each kind of claim: `KeptIn`, `MeasuredIn`, `ToldIn`, `DiscreetIn`.
- The last step of a request, `Complete`, is taken apart by where the exception comes from: interceptors that do not find their
  services, the client's, the handler's. For each, what the interceptors write and record is a lemma about operators of the model, and
  so is what the filter selected (`Filtered`) answers and writes.
- `AnsweredCorrect`, `LogCorrect`, `RetriesCorrect` follow, for every set of deployments, inputs and exceptions within `PipelineAssumption`.
- The walk: that nothing secret is shown (`ShownIsPublic`) and that all the rest is (`PublicIsShown`). Both are about a recursive
  function on visits, which is defined because every visit asks only for earlier ones: fewer entries of the same object, or an object
  one deeper. The second needs that what was seen was or will be shown, although the set of seen objects grows across
  siblings, and that a path without repetition fits in the depth. Both take a first visit
  that fails, in the order of visits. `NothingSecretShown` states them of the answer and of every entry of the log.
- `DataCorrect` (`DataIsClean`) adds the payload: what the handler is given has no key that starts with `$` or is a dangerous name
  (`Harmful`), each other key is kept, and a key has one value. It holds for any keys, with what the code gives
  (`RenamedAssumption`: the first character is replaced first, and `_redacted_` is no dangerous name). A key that merely holds a dangerous
  name, such as `_redacted__proto__` (section 3), may reach the handler.
- `RetriesCorrect` (`RetriesAreJustified`): a failure for which the caller is at fault (4xx except 429) is logged as transient only
  where its code or message blames the way to a server (`WayBlamed`), and one that passes (`Passes`: the code of a lost connection, or
  429, 502, 503, 504) is never logged as permanent, whatever words its message has.

`PrometheusExporter_proofs`
- Lemmas on sums: `Added` is a recursive function, so what appending, dropping the first or replacing one amount does to a sum is
  proved by comparing the running sums (`UpTo`, which rests on the least element of a set of numbers).
- `BuffersCorrect`: types together with `Buffers`, where the buffer, the history, the last flush and what was culled
  are in each other's terms. Neither is inductive without the other: a culled value must have a position.
- `CountersCorrect`: `PendingKeepsNewest` and `CountersExact`. The step that matters is `SumsMove`: when a value is
  recorded into a full buffer, the sum of what is buffered and the sum of what was kept change by the same amount.
- `NothingMiscountedCorrect` (`NothingMiscounted`), under the hypothesis `OneKeyEach`: no two label keys are the same
  series. Without it the statement is false (section 3, label values `200` and `'200'`). The invariant is
  `RunningTotals`: the running total of a key is what its series shows.
- `CountersLedgerCorrect`: `Spec => Ledger!Spec`, from `CountersCorrect`'s sums and `Floors` (a counter never shows less than
  it did when a scrape began). No hypothesis on keys.

Proved, and not repeated in a run: `TypeOK`, `WaitersAwaitTheFlight` and `ExpiryCoversKeys` of
`JwksCache`; `TypeOK` of `GuardPipeline`; `TypeOK`, `CapacityBound` and `LocksAreTransient` of `CsrfTokens`;
`TypeOK`, `FunctionsLeave` and `HistoryKeepsNewest` of `PyroscopeService`.

Only model-checked: liveness (`LookupsEnd`, `RequestsSettle`, `ExecutionsEnd`, `ShutdownCloses`,
`DeliveredIsHandled`, `RequestsEnd`), as fairness and ENABLED are out of the prover's reach. Every invariant
and every action property that a run checks is the statement of a theorem.

## 5. Not modelled

- Qdrant: its services keep no state and forward each call to the external client.
- Throttling: options that are merged once for an external module, which does the counting.
- Configuration: read and validated once at start; nothing changes afterwards.
- Health checks of nestjs-shared: each call returns a fixed answer.
- Factories of modules, services and decorators, lazy getters: wiring while the application is
  built; what depends on its order (filters, interceptors, services that are not found) is in `RequestPipeline`.
- Of the modelled components: the tokens, cookies and
  secret checks of CSRF, session identifiers and address extraction (pure functions
  of the request), the parameter decorators of nestjs-auth (they read the attached user), GetConnection and JetStream of NATS
  (they hand out objects of the library), the payloads of the Keycloak operations, the regular expressions of
  SanitizeMessage and of the cleaning of strings, the text of log entries, the casts of attributes, the serialisation of metrics
  and errors of a gauge's `set`.

## 6. Plan

1. The composition of registry and exporters with hooks of the right name: a recorded value reaches the series.
