# GATHRA-Backend in TLA+

GATHRA-Backend is a NestJS service over PostgreSQL. Flood sensors (*Nodes*)
report distances by radio to *Gateways*; Gateways post batches to the Backend;
the Backend stores them, derives a flood level per sensor, publishes flood
snapshots to an Android client, and plans routes around the flooded areas. This
directory models the parts of it whose correctness depends on an order of
events, checks them with TLC on small instances, and proves the main results
with TLAPS for every instance.

Paths are relative to the repository root as it is laid out here, so the
service's code is below `src/src/` and its migrations below
`src/database/migrations/`.

## 1. Inventory

| Component | State | Operations | Correct when |
|---|---|---|---|
| **Sensor classifier** (`flood/sensors/sensor-classifier.ts`, validator, models) | none | classify a height with hysteresis, derive a state row, overlay it with the reader's time | a level never understates the water and overstates it by at most the hysteresis; unusable or old readings are UNKNOWN |
| **Derived sensor state** (`flood/sensors/sensor-deployment.{service,repository}.ts`, `flood/admin/sensor-deployment-admin.controller.ts`) | `iot_sensor_deployments`, `iot_sensor_state`, row locks | save a deployment, recompute a Node, read effective states | the state is that of the latest reading under the current configuration, whatever runs at the same time |
| **Sensor flood hazard provider** (`flood/providers/sensor-flood-hazard.provider.ts`) | none (reads the tables) | snapshot with id and `validUntil` | an equal id means equal hazards; nothing expires before `validUntil` |
| **In-memory flood hazards** (`flood/providers/in-memory-flood-hazard.provider.ts`, `flood/admin/flood-admin.controller.ts`, `flood/dev`) | a map, a version, an instance id; lost at restart | add, remove, clear, preset, snapshot | as above, and never more active hazards than configured |
| **Flood API and geometry** (`flood/flood.controller.ts`, `flood/geometry`) | none | filter by bounding box, validate polygons, judge a route | accepted polygons are simple; a stretch through one is noticed |
| **Telemetry ingestion** (`iot/services/telemetry-ingestion.service.ts`, `iot/repositories/iot-ingestion.repository.ts`) | `iot_gateways`, `iot_nodes`, `iot_telemetry` | store a batch, then recompute its Nodes | a batch is stored once and at once; what is acknowledged is stored |
| **Gateway heartbeat** (`iot/services/gateway-heartbeat.service.ts`, its repository) | `iot_gateways`, `iot_gateway_status`, samples of metrics | store a heartbeat | the status is that of the latest heartbeat |
| **IoT monitoring, public sensors** | none | read-only projections | - |
| **Node protocol 3 decoder** (`iot/protocol`) | none | decode 60 bytes | the vectors of its tests |
| **Concurrency limiter** (`geocoding/concurrency`) | a counter and a queue | run an operation in a slot | slots are neither lost nor overbooked; every waiter runs |
| **Geocoding service** (`geocoding/geocoding.service.ts`, cache, rate limit, tokens) | one cache, slots and queue, a signing secret, buckets per client | autocomplete, search, look up a token, reverse | an answer belongs to its question and is not too old; its tokens work |
| **Geocoding providers, mappers** | none | HTTP with a timeout, fixtures, mapping | every call ends in a result or a classified failure |
| **Route preview** (`routes/`) | none (one request) | snapshot, engine, diagnosis, evaluation, ranking | judged by the snapshot the engine was given; a multiplier of 0 excludes; a flood is blamed only if it is the reason |
| **Admin sessions, login limiter** (`admin/auth`) | `admin_sessions`, attempts in memory | log in, authenticate, log out, clean up | no dead session is accepted, no session in use dies, guesses are limited |
| **Admin traffic metrics** (`admin/metrics`) | accumulators in memory, `admin_http_metrics_minute` | record, flush, merge back, sum up | counts are neither lost nor doubled; totals and percentiles are those of the requests |
| **Admin dashboard, observer, host metrics** | none | display | - |
| **Migration runner** (`database/migration-runner.ts`) | `schema_migrations`, an advisory lock | apply each migration once | two releases together, a death anywhere |
| **PostgreSQL access** (`database/database.service.ts`) | a pool | one transaction | commit or roll back, always release |
| **Configuration, bootstrap, errors** | none | parse, wire, format | - |

### How they interact

A telemetry batch is one transaction (`persistBatch`). After its COMMIT, in the
same HTTP request, `ingest` starts `recomputeNode` for every Node that got a new
row: one more transaction per Node. An administrator's save is a third kind of
transaction that writes the deployment and the state derived from it. All of
them meet in the rows of `iot_sensor_deployments`. Readers (`listEffective`,
the snapshot provider, the route planner) take no lock and join the two tables
in one statement. Heartbeats share the registry `iot_gateways` with telemetry.

A route preview takes one snapshot, asks GraphHopper with its hazards, perhaps
once more without them, and judges what comes back by the same snapshot. The
geocoding endpoints pass the rate limit, then the cache, then the concurrency
limiter, then the provider; their tokens come back in later lookups. Every
request passes the traffic middleware, every admin request the session guard.

### What is hard

- **Interleavings** of READ COMMITTED transactions: each statement sees another
  committed state; `SELECT ... FOR UPDATE` of a row that does not exist locks
  nothing.
- **Partial failure**: a batch is committed and the recomputation after it
  fails; the failure is logged, and the Gateway's retry is a duplicate that
  starts no recomputation.
- **Delivery**: lost answers, repeated batches, two Gateways that hear one
  reading, readings out of order, two persistent sessions of a Node, Gateways
  without a trusted clock.
- **Time**: `now` is read before waiting for a lock; freshness and validity
  have closed and half-open boundaries; hazards expire without any write.
- **Deadlock**: batches lock the rows of `iot_nodes` in the order of their
  readings.
- **Limits**: queues, caches and counters at their bounds.
- **Awaits**: a handler keeps what it read (the clock, a session row, a
  snapshot, a cache miss) over an await while others run.
- **Restarts**: what is in memory goes, what is in tables or in the clients'
  hands stays.

`PROJECT.json` lists each of these as a hazard at its line, with the properties
that would notice it going wrong.

## 2. Modules

| Module | Models | Built on |
|---|---|---|
| `SensorClassifier` | the pure functions of the classifier | - |
| `SensorState` | deployments, states, telemetry rows and the tasks that work on them | `SensorClassifier` |
| `FloodSnapshot` | snapshots over those tables and a client that keeps one | `SensorState` |
| `TelemetryLog` | what ingestion promises: a batch is one atomic step | - |
| `TelemetryIngestion` | `persistBatch` statement by statement; implements `TelemetryLog` | instance of `TelemetryLog` |
| `GatewayHeartbeat` | heartbeats over the registry shared with telemetry | - |
| `InMemoryFloodHazards` | simulated hazards, their expiry, restarts, a client's snapshot | - |
| `ConcurrencyLimiter` | slots and queue before the geocoding provider | - |
| `TtlCache` | the Map of the cache, as operators | - |
| `BoundedTtlCache` | the cache under any calls | `TtlCache` |
| `GeocodingRateLimit` | the buckets before the geocoding endpoints | - |
| `GeocodingService` | requests, cache, tokens, providers | `TtlCache`, instance of `ConcurrencyLimiter` |
| `FloodGeometry` | polygons, points, segments; and reference definitions | - |
| `HazardGeometry` | hazards as they are submitted | `FloodGeometry` |
| `GraphHopperClient` | the routing client: parsing, checking, mapping of answers | `FloodGeometry` |
| `RoutePreview` | a preview while hazards change | `GraphHopperClient` |
| `AdminSession` | logins, the failure limiter, sessions | - |
| `AdminTraffic` | traffic metrics in memory and in their table | - |
| `MigrationRunner` | instances that boot and migrate | - |
| `*_proofs` | the theorems about the module of that name; `FloodSnapshot_proofs` also has those about `SensorState` and `SensorClassifier`, on which it is built | |
| `MC*` | the instances TLC checks | |

Definitions carry the names of the code where they translate one function.
Definitions marked *Mutant* are the code with a plausible mistake; no
specification uses them. They show that each property can fail (section 4).

### SensorState

A *task* is the work of one HTTP request on one Node: `pc` is the statement it
has reached, and `dep`, `prev`, `latest`, `now` are the local variables of
`upsert` and `recomputeNode`. An action is one SQL statement:

| Action | Code |
|---|---|
| `Ingest` | COMMIT of `persistBatch`, and the start of the recomputations |
| `AskUpsert`, `AskRecompute` | the administrator's requests arrive |
| `upsertDeployment` | `INSERT ... ON CONFLICT DO UPDATE`: waits for the row, bumps `config_version` when a column changes |
| `findDeploymentForUpdate` | `SELECT ... FOR UPDATE`: waits for the row |
| `NoDeployment` | the early `return null` |
| `findStateForUpdate`, `findLatestTelemetry` | the two reads, each with its own snapshot of the committed rows |
| `Commit` | `upsertState` and COMMIT |
| `Abort` | any failure: ROLLBACK |
| `Tick` | time passes |

`covered`, `owed` and `seen` are auxiliary: they record which rows a committed
state has taken into account and which rows lost their recomputation. No guard
reads them.

Telemetry rows of a Node are a sequence in the order of their ids. Ids are
given at INSERT, but `upsertNode` has locked the Node's row before, so for one
Node the order of ids is the order of commits. There is no foreign key from
`iot_sensor_deployments` to `iot_nodes` (a Node may be configured before it is
heard), so a save waits for no telemetry transaction.

Only data that some property can tell apart is kept: a reading has the fields
the classifier reads, and position, polygon and poll interval are one opaque
`coverage`. `gateway_time_trusted` is left out because a CHECK constraint ties
it to `gateway_received_at`. Multipliers are integers of hundredths; times are
integers in the unit of `staleAfterMinutes`.

### FloodSnapshot

`Read(time)` is a GET that read its clock at `time` and its rows now. The digest
in the snapshot id is taken to be injective, so the id is the set of the tuples
that are hashed.

### TelemetryIngestion

An *attempt* is one POST; a repetition is another attempt. `holds` are the row
locks of its transaction, `written` its uncommitted rows. `BreakDeadlock` is
PostgreSQL's detector: `Deadlocked` are the attempts in a set each member of
which waits for another and is waited for; an attempt wants one row, and a row
has one holder, so that these are the cycles. `Abort` is any failure before COMMIT; `LoseAnswer` one
after it. The content of a row is its `payload`: two Gateways may report one
reading with different signal strengths, and the first one stored stays.

Its state after COMMIT is the `Ingest` step of `SensorState`, which therefore
takes a batch as one step. `AtomicDelivery` is what justifies that.

### GatewayHeartbeat

A request is a heartbeat or the first statement of a batch (its `interval` is
`NULL`). `selectIdentity` is the `SELECT ... FOR UPDATE`, `resolveGateway` the
UPDATE or INSERT after it, then `statusUpsert`, `metricsInsert` and `Commit`.
`KeyBusy` is what a unique index does with a key that a transaction in progress
is writing: the other one waits, and fails if the first commits.
`GatewaysWait` says whether a Gateway awaits an answer before its next
heartbeat; its firmware is not part of the repository. Without it `LatestStored`
fails (section 6). `firmware_version`, `first_seen_at` and `last_seen_at` are
only displayed and are left out. The rows a SELECT waits for are taken at once:
that two of them are locked in different orders is not modelled.

### InMemoryFloodHazards and ConcurrencyLimiter

Both are plain JavaScript objects on one thread: a method is one action. In the
first the clock may advance inside a method between two calls of `new Date()`
(`clock` and `clock'`). The process may restart and lose everything, while
clients still hold snapshots. In the second `Start` is apart from `acquire`,
because a resolved promise continues in a later turn of the event loop.

### GeocodingService

A handler is synchronous up to its first await, so parsing, the cache and the
limiter are one action (`Reject`, `Hit` or `Miss`); `Start` and
`ProviderReturns` are the call of the provider, `Finish` the rest of the
handler. Nothing is deduplicated: two equal requests that both miss both call.
Coordinates are integers of micro-degrees, so the rounding of keys to 3 and 5
decimals is exact and keeps the sign in front of a zero, as `toFixed` does;
digests are injective. What Photon may do is a record
(`PhotonReplies`): no answer, too long, any status, malformed, a list of
features. `encode` names the secret a token is signed with; without a configured
secret `Restart` draws a new one. The `fetched` field of an answer is auxiliary.
`Photon` has no lookup by id, so with it a token can be resolved only while its
details are cached. Ids that the codec would refuse do not occur with the
repository's two providers.

`GeocodingRateLimit` keeps the Map of the guard as a function from clients to
buckets. The Map's order is not kept beside it: a bucket is inserted when its
window starts and all windows are equally long, so the order of insertion is the
order of `resetAt`, and the oldest bucket is one with the least. Which of two
buckets of the same millisecond goes first is left open (`Room`), so what is
shown holds for either. `admitted` is auxiliary: the requests let through since
the client's bucket was last evicted.

### RoutePreview, GraphHopperClient, FloodGeometry, HazardGeometry

Positions are integers, so every comparison is exact; the length of a segment
is |dx| + |dy|, which is positive exactly when the haversine distance is, and
bearings are those of eight directions. `preview` in `GraphHopperClient`
translates one call: how it ended, parsing, checks, deduplication, snapping and
the number of alternatives. The engine may answer anything: nothing is assumed
of it. `diagnosed` and `proposed` are auxiliary. `Overlap` is the code's
approximation, doubled to stay an integer. `FloodGeometry` ends with reference
definitions that share no algorithm with the code (triangles for the inside,
stepping along a segment for intersections); the properties compare with them.

### AdminSession, AdminTraffic, MigrationRunner

A handler of `AdminSession` reads the clock once and keeps it (`req[r].now`)
over hashing and statements; `MaxHash` bounds how long a password is hashed and
`MaxAge` how long the rest of a handler takes. A failure is counted with the
time its login started, and `prune` drops the clients that had expired by that
time once there are more than `maximumClients` of them. A login that started
still earlier and is hashing meanwhile then finds no counter and starts one in
the past. `guesses`, `sessions` and
`loggedOut` are auxiliary. A request that selected a row that was too old
deletes it afterwards whatever it has become, so it also ends a session that
another, earlier request refreshed in between; `SessionsLastAsPromised` allows
that one deletion and no other.

`cleanupExpired(t)` and the retention of `AdminTraffic` delete by a clock read
before their statement waited for a connection. The latter's clock is finer than
the minutes of the table, which is why a minute may or may not be old enough
(`cutoff`).

A flush of `AdminTraffic` takes the map and leaves an empty one; `FlushFailed`
covers a rollback and a COMMIT whose answer is lost, which the code cannot tell
apart and merges back, so these requests are counted twice (`doubled`). `fate`
is auxiliary.

`MigrationRunner` has one action per await; `Die` is the end of an instance or
of its connection, also during COMMIT. Names are numbers in sorted order, and
the sorted array the loop walks is the set of names still to come, of which it
takes the least (`First`).

## 3. Runs

TLC explores one specification per run. Components that share no state and are
asked the same kind of question share a run: a variable (`subject` or
`scenario`) that never changes says which one a behaviour is about, and the
others keep their initial state.

| Run | Question | States |
|---|---|---|
| `sensor_config` | a Node is heard, gets its first deployment and is reconfigured, all concurrently and while time passes | 1 107 000 |
| `sensor_order` | three readings of two sessions in any order, with failures, while stored states expire | 494 000 |
| `sensor_first_save` | the same as `sensor_order` for a Node not deployed yet: **violated** | - |
| `flood_snapshot` | two Nodes, one of them heard before its first deployment, and a client that keeps a snapshot | 559 000 |
| `telemetry_ingestion` | three attempts of two Gateways on two Nodes | 91 000 |
| `heartbeat` | three requests of two MACs with two logical ids, samples that age | 725 000 |
| `heartbeat_overlap` | is the status the latest heartbeat, also then? **violated** | - |
| `waiting` | does everything that waits go on: batches, heartbeats, recomputations, geocoding calls? and is the schema migrated once, whoever waits for its lock? | 18 500 |
| `geocoding` | two overlapping requests, three scenarios: Photon searches, Photon reverse lookups, fixtures with bad input and a restart; and the slots and the queue of the provider by themselves | 1 362 000 |
| `geocoding_rate` | three clients, two buckets, windows that end and buckets that are evicted | 222 000 |
| `routes` | simulated hazards under expiry and restart; a preview while hazards change twice; all rings of up to five points on a 3 x 3 grid | 354 000 |
| `bookkeeping` | cache, logins, sessions, traffic metrics | 447 000 |

What they show:

- `StateMatchesConfig`: a reader never meets a deployment without its state, nor
  a state of another configuration version.
- `LevelInBand`: a stored VALID level lies in the hysteresis band of the reading
  it names, whatever chain of recomputations led to it.
- `FreshIsRecent`: FRESH means no older than the `staleAfterMinutes` now in
  force, with the multiplier now configured.
- `VersionNamesConfig`: a version never falls and never names two
  configurations. `RecomputeIdempotent`: repeating a recomputation of a fresh
  state changes nothing.
- `CaughtUp`: when nothing is in progress and nothing failed, the state is that
  of the latest reading. `RowsReachState` is the same as a promise.
- `SessionMonotone`: within a session the state never goes back.
  `HysteresisHoldsReplacedLevel`: hysteresis only holds a level of the row that
  is replaced, of the same configuration version, and only if that row was fresh
  when the request came that replaces it. `src/docs/sensor-flood-hazards.md:79`
  says "still fresh" of the prior classification: the code means the time before
  the request waited for the row, so the row may expire until COMMIT, but one
  that had expired before is never used.
- `SameIdSameHazards`, `ValidWhileUnchanged` (for both providers): revalidation
  by id and trust in `validUntil` are sound.
- `AtomicDelivery`: `TelemetryIngestion` implements `TelemetryLog`.
  `OneGatewayNeverDeadlocks`: deadlocks need two Gateways. `AttemptsEnd`: they
  are broken.
- `OneMacPerGatewayId`: the check of `resolveGateway` and the write after it are
  two statements, and a batch writes without a check; the unique index holds the
  promise. `SamplesMatchAccepted`, `ToldIsAccepted`: samples and answers are
  those of committed heartbeats. `LatestStored`: the status is the latest one,
  if heartbeats of a Gateway do not overlap. `RequestsEnd`: nobody waits for
  ever, also when they do.
- `WithinLimit`: the limit of active hazards holds although expired ones stay in
  the map.
- `SlotsAndQueueSound`: the limiter's counter is the number of admitted calls,
  nobody waits beside a free slot, the queue is that of the waiting calls.
  `CallsAreAnswered`: every geocoding call ends, which needs the first waiter to
  be served first.
- `AnswersFitTheQuestion`: limit, language, cell and exact point of a cached
  answer are those of the request that gets it; with fixtures a token resolves
  exactly when this process signed it. `AnswersAreFresh`: repeating a query does
  not keep its places for ever, only for the two lifetimes together, a bound
  that the run attains. `SuggestionsCanBeLookedUp`: the entries of one
  answer do not evict each other. `RecentlyUsedSurvives`: eviction takes the
  least recently used.
- `RateIsLimited`: a bucket counts its window exactly, and any stretch as long
  as a window lets at most two limits through.
- `AnswersAvoidBlockedAreas`, `RecommendedIsSafest`, `FloodIsTheReason`: what a
  preview answers is right for the snapshot it names, whatever the engine
  proposes. `StepsFollowTheRoute`: no gaps, and the modifier where a roundabout
  is left is the side the route turns to.
- `AcceptedIffSimple`, `FloodedStretchesAreSeen`: the geometry agrees with the
  reference definitions. Points on an edge are left out of the second: there the
  code decides by rounding.
- `GuessesAreLimited`: although logins pass the check before they are counted,
  any window admits two limits, less two, plus the requests in progress. For one
  client the stretch is shorter than a window by twice the time of hashing: with
  `prune` the bound does not hold for a whole window (section 5).
  `SessionsLastAsPromised`: no session is accepted after its expiry, idle time
  or logout; a session in use survives.
- `CountsConserved`, `SummaryIsTruthful`: where every request is counted, and
  that totals and percentiles are those of the requests they stand for.
- `SchemaIsMigrated`: each migration once, in order, recorded exactly if it took
  effect, and all of them before an instance is up.

`TypeOK` documents the state of each module; it is proved for every module that
has theorems, and no run is spent on it.

### Bounds

- `MaxTime`, `MaxRows`, `MaxVersion`, `MaxInstance` only stop counters.
- Two requests are enough for the properties of `SensorState`: the row lock
  admits one transaction at a time, so a third could only wait; the theorems
  below do not depend on their number.
- The readings in `MCSensorState` are chosen around the thresholds: heights on a
  threshold, inside the hysteresis band and above all of them, an unusable
  reading, a second session, one without a Gateway clock. `OverrideConfig` has a
  reference shorter than a measured distance, so the height is clamped at 0.
- `MaxTime = 2` with `staleAfterMinutes` 1 and 2 reaches both sides of every
  expiry. `sensor_order` has only 1, so that a stored state can expire before
  and after the request that replaces it, and a stale `now` would hold it.
- Three attempts allow a repetition while another Gateway's batch names the
  Nodes in the opposite order.
- Three requests allow a first heartbeat, a concurrent one of the same MAC and a
  batch of another MAC after the same logical id; `MaxTime = 3` with
  `Retention = 1` and an interval of 1 passes the retention and the ONLINE
  limit.
- `maxActiveHazards = 3` with two ids and a preset of two binds both
  `addHazard` and the preset.
- `geocoding`: two searches share a cell but not a limit, a third differs in
  language; a cache of 3 for two suggestions and their query must evict; lookups
  live 2 units and queries 2 where a cached query renews them, else 1, so all
  boundaries are passed.
- `routes`: hazards across the way, beside it, around a hole and at the origin;
  answers with gaps, doubles, routes that snap too far and every kind of
  failure. Routes have odd and areas even coordinates, so no route runs along an
  edge. A ring of five points has four corners, the least that can cross itself.
- The limiter by itself has two slots and a queue of two for five calls.
- `geocoding_rate`: one client more than buckets, windows of 2 and a clock up to
  5, so that a stretch as long as a window lies across two windows of a client.
- `bookkeeping`: one key, failure or flush more than fits. Logins: limits of 2,
  windows of 4, blocks of 4 and 5, hashing for up to 1, six logins of two clients
  with a map for one, up to time 9; a stretch of one client has length 2, and
  six logins can exceed both bounds. Sessions: one, with an idle time of 3 and an
  end at 6, refreshed every 2 units, used by two requests that take up to 2 units
  each, up to time 9.
- `waiting`: two batches, two heartbeats, two deliveries, three geocoding calls
  for one slot; two releases, the newer one with a migration more, that boot
  twice.

Symmetry is used where the set's members are interchangeable and no liveness
property is checked.

### Deadlock

TLC's own deadlock check is off in the telemetry, heartbeat and `waiting` runs,
where a request is sent once and boots are bounded, in `routes`, where a preview
and a polygon are judged once and changes are bounded, and in `bookkeeping`, where bounds stop the logins
and records.

### Fairness

- `SensorState`: weak fairness for a statement that can run; strong fairness for
  the one that takes a row lock, because PostgreSQL queues the waiters of a row
  and a waiter is not overtaken for ever. None for arrivals, failures and time.
- `TelemetryIngestion`: weak fairness for statements and for the deadlock
  detector. Attempts are finite in number, so a waiter needs no more.
- `GatewayHeartbeat`: weak fairness for statements, for the same reason.
- `GeocodingService`: weak fairness for the continuations, because the event
  loop runs every callback, and for the end of a call, because the provider's
  requests are aborted by a timeout. None for arrivals, restarts and time.

## 4. Mutants

Each property of each passing run has a mutant in `PROJECT.json`: a definition
replaced by a mistaken form (a dropped `FOR UPDATE`, `>` for `>=`, a column left
out of the comparison, a rollback that keeps its locks, a popped instead of a
shifted waiter ...) under which TLC finds that property violated.

## 5. Proofs

The theorems hold for any number of Nodes, requests, attempts, instances,
readings, configurations and calls, for batches of any length and for any
limits. The assumptions are the named `ASSUME`s:

- configurations pass `validateSensorDeployment`, readings have the types of
  their columns;
- `NULL` is not a value of any column;
- a batch is a sequence of readings that decode or do not;
- a release ships every migration that sorts before one it ships
  (`ReleasesAssumption`: names are numbered and added at the end);
- bounds are natural numbers, calls are finitely many;
- the rate limit and its window are not zero (`parsePositiveInteger` in
  `src/src/configuration.ts` takes the default instead), nor is the number of
  buckets;
- `LimiterAssumption` of `AdminSession`: the limits of failures are not zero, a
  block is no shorter than the window (15 and 30 minutes after 15 in
  `admin-login-rate-limiter.ts`), and hashing a password takes less than a window
  (`MaxHash < WINDOW_MS`). The code has no timeout for it; one that took a
  quarter of an hour is outside of the theorem.

A module that declares such an `ASSUME` is extended by the module of a run, so
TLC evaluates it on that run's constants.

Two theorems have a hypothesis of their own: `DeployedNodesCatchUp` (every Node
had a deployment at the start) and `LatestWhenGatewaysWait` (`GatewaysWait`).
Section 6 shows that neither can do without.

**FloodSnapshot_proofs: the classifier.** `HysteresisBand`: the classification lies between
the direct level of the height and that of the height plus the hysteresis.
`HysteresisStable`: classifying again from the result changes nothing.
`HysteresisHoldsOrDirect`: a result that is not the direct level is no higher
than the previous one. All split on the four previous levels, after lemmas that
the two loops end in exactly one index.

**FloodSnapshot_proofs: the derived state.** The invariants of interest are not inductive. A task
carries copies of what it read, so one needs to know that the copies are
current: `TaskInv`. That holds because only the holder of the lock writes:
`LockInv`. And that a recomputation moves forward needs to know what the stored
state was made from: `CoveredInv`. So

    IndInv == TypeOK /\ LockInv /\ TaskInv /\ CoveredInv /\ StateMatchesConfig

is shown inductive, action by action. From it follow `TypeCorrect`,
`StateAlwaysMatchesConfig`, `VersionAlwaysNamesConfig`, `SessionAlwaysMonotone`
and, with `HysteresisBand`, `LevelAlwaysInBand`. A central lemma says that the
latest row among more rows is, within its session, never an earlier one.

`FreshIsAlwaysRecent` and `RecomputeIsIdempotent` also need to know how a stored
row came about, not only what it names. `DerivedInv` says that it is what
`deriveSensorState` makes of the reading it names under the configuration now in
force, from *some* earlier state at *some* time; `NowInv` that no task has a
`now` in the future, and that the holder of a lock took its `now` no earlier
than its request came. Then validity and multiplier are functions of reading and
configuration, and repeating the derivation while it is fresh gives the same row
by `HysteresisStable`. `HysteresisHoldsOnlyReplaced` follows from `TaskInv` (the
previous state a COMMIT used is the row it replaces), `NowInv` (it was judged by
the time of the request) and `HysteresisHoldsOrDirect`.

`DeployedNodesCatchUp` adds `PendingInv`: each row not covered yet is owed or
has a recomputation on its way that will see it.

**FloodSnapshot_proofs: the snapshot.** Readers write nothing, so `SnapshotSpec` implies
`Spec` and everything above holds under it. `HeldInv` relates the rows the kept
snapshot was made from to the rows of now: a version has grown or nothing of
the deployment changed, and the reading a state names is still there, since rows
are only appended. `RevalidationIsSound`: equal ids mean equal versions, hence
equal configurations; equal readings, hence equal times, reasons and status;
equal levels, hence equal multipliers; and equal freshness puts the two readers
on the same side of each `validUntil`, hence the same earliest one.
`ValidUntilIsKept`: what is fresh at the first reading ends no earlier than the
minimum of the validities; what is stale stays so.

**TelemetryIngestion_proofs.** `GatewaysNeverDeadlockAlone`: the row of the
Gateway is taken first and held to the end (`LocksInv`), so among attempts of
one Gateway only one is past it. `Refinement`: every step of `TelemetryIngestion`
is a step of `TelemetryLog` or leaves its variables alone; COMMIT is the atomic
delivery, all others stutter. What has to be shown is that the statuses given
statement by statement are those the atomic step would give at COMMIT. They stay
true because the lock on a Node's row keeps every other transaction from
committing a row of that Node: `TransactionInv`, with `Position` (where the loop
is and which rows it has locked) and `AsIfNow` (the statuses so far are those of
a delivery now).

**GatewayHeartbeat_proofs.** `KeysInv`: transactions in progress have written
different MACs and different logical ids, and none has written an id that a
committed row of another MAC has. That is what the unique index (`KeyBusy`)
gives, so `GatewayIdsStayUnique` follows from it and not from the SELECT before
the write. `SamplesAlwaysMatch` and `ToldIsAlwaysAccepted` need `CommittedInv`: a
request committed and not answered yet is accepted. `LatestWhenGatewaysWait` adds
`TurnsInv`: a MAC has at most one heartbeat in progress, received no earlier
than every one accepted from it.

**ConcurrencyLimiter_proofs.** `LimiterIsSound`, with its parts
`AdmitsWithinLimit`, `NoLostWakeUp` and `QueueAlwaysMatches`. The counter and
the queue are inductive only together: that a shifted waiter was not admitted
yet needs the queue to match the calls.

**InMemoryFloodHazards_proofs.** `SnapshotIdIsSound`: the id has only the number
of active hazards. While the version stays, the map does, and the active sets
are nested as time passes; two nested finite sets of equal size are equal. The
invariant says what the kept snapshot was made from. `ValidUntilIsKept`: until
the first expiry nothing leaves the active set. `LimitIsKept`: each method counts
the active hazards before it adds, and time only lowers the number.

**MigrationRunner_proofs.** `SchemaAlwaysMigrated`. `LockInv`: an instance
between the lock and the unlock is the one that holds it. `LoopInv`: what its
loop has left behind is recorded, and what it has not come to is recorded only
if it was when the table was read. `EffectsInv`: nothing is recorded before what
sorts before it, so that the next migration is the last in order; this is where
`ReleasesAssumption` is needed.

**AdminSession_proofs.** `SessionsAlwaysLast`: `SeenInv` ties a row to what
happened to its session. `last_seen_at` is never later than the last request
that found the session valid, so nothing is accepted too late; and it is less
than `refreshMs` behind the last one that was returned, so nothing is refused
too early. The second half survives requests that overtake each other because
the UPDATE never writes an earlier time over a later one. `LateInv`: a request
that came after an answered logout is about a session that has no row. With
these, two lemmas say that only `Select` decides about a request and list the
steps that delete a row.

`GuessesAlwaysLimited`: the bound counts failures by the time their logins
*started*, while the limiter counts them when they are *reported*. `GuessInv`
follows each stretch. It is open while neither the clock nor a block has reached
its end. In an open stretch the failures are those of at most two counting
windows: fewer than a limit from one that started before it, if a later one has
started in it, and what the present one counts. Once it is closed nobody is let
in with a start in it, because a block is no shorter than a window; only logins
that are hashing can still add, and the invariant counts these along with the
failures (`Within`). `Tracked` states this for one bucket, so that it serves for
the client's and for the global one, and the lemmas about asking, failing,
succeeding and passing time are proved once.

The two buckets differ in their *slack* `d`. The global one is never pruned and
has none: its stretches are whole windows. A client's bucket may be pruned while
one of its logins is hashing, and that login then starts the window anew as of
its own start, up to `MaxHash` ago: this window overlaps the end of the one
before, and its own end comes that much earlier. So a window may meet three
counting windows, and TLC does find more failures in it than two limits allow;
a stretch of `WINDOW_MS - 2 * MaxHash` meets two. `Forgotten` says what is known
of a client without a bucket: it has failed at nothing, or the bucket that was
pruned is tracked still and had expired (`PrunedTracked`).

**GeocodingRateLimit_proofs.** `RateAlwaysLimited`: that two windows bound any
stretch is not inductive, since it says nothing of what a window that is over
let through. `RateInv` gives each client one of two forms. With a live bucket
(`InWindow`): the bucket counts what was let through since its start, and a
stretch that ended when it started holds at most the limit. Without one
(`NoWindow`): a stretch of a window that ends now holds at most the limit. A
tick leads from the first to the second when the window ends, and the first
request leads back. The numbers are cardinalities of sets of requests, so that
a stretch may be split by a lemma about unions instead of an induction over
sums.

Four inductive invariants (`IndInv` of `TelemetryIngestion` and of
`MigrationRunner`, `GuessInv` and `RateInv`) were also checked by TLC on small
instances before they were proved.

### What is only model-checked

- All liveness, and with it what fairness is for (`AttemptsEnd`, `RequestsEnd`,
  `RowsReachState`, `CallsAreAnswered`): out of the prover's reach.
- `AnswersFitTheQuestion`, `AnswersAreFresh`, `SuggestionsCanBeLookedUp`,
  `RecentlyUsedSurvives`: the cache is a sequence in the order of use, kept with
  `SelectSeq` and, for the suggestions of an answer, with a fold. What these
  compute for every sequence needs induction with an operator as a parameter,
  which the installed provers cannot instantiate.
- `AcceptedIffSimple`, `FloodedStretchesAreSeen` and the properties of
  `RoutePreview`: products of coordinates, sorted sequences and sums over
  polygons, for the same reason.
- `CountsConserved` and `SummaryIsTruthful`: sums over maps and histograms.

Where only a least element is needed (`NextValid`, `Min`), it is taken from the
well-foundedness of the naturals in its form for sets: `LeastNatural`, stated in
each module that uses it.

## 6. Findings

`sensor_first_save`: the first deployment of a Node is saved while one of its
readings is delivered. The save's `findLatestTelemetry` runs before the reading
is committed; the delivery's recomputation finds no committed deployment, locks
nothing and returns null; then the save commits. Nothing failed and nothing is
in progress, and the stored state is not that of the latest reading, which is
what the migration calls the "Latest interpreted state derived from immutable
iot_telemetry" (`src/database/migrations/004_sensor_flood_hazards.sql:125`). The
next reading or save of the Node repairs it. For a Node that has a deployment
this cannot happen: `DeployedNodesCatchUp`.

`heartbeat_overlap`: `receivedAt`, which the answer calls `acceptedAt`, is read
before the transaction, and the upsert of `iot_gateway_status` compares no
times. When two heartbeats of one Gateway overlap, because it gave up waiting
for the first answer, the one accepted first may commit last: the status goes
back, although `src/docs/gateway-heartbeat.md:21` says that it is "the latest
accepted snapshot". The next heartbeat repairs it.

## 7. Not modelled

- **Monitoring, public sensors, dashboard, observer, host metrics**: read-only
  projections of tables, of `/proc` and of a local socket. They change nothing,
  and what they show is what the tables of the other modules hold.
- **Node protocol 3 decoder**: a stateless parser of 60 bytes, covered by the
  vectors of its tests. Its result is the `Reading` of `SensorState`; a reading
  that does not decode is in `TelemetryIngestion`.
- **Configuration, bootstrap, error formatting**: parsing and wiring. The limits
  they allow are the `ASSUME`s and the bounds.
- **Texts**: labels, addresses, categories, street names, instructions and the
  normalisation of HTTP routes are opaque values.
- **Bounding-box filter** of the public flood controller: a stateless selection.
- Quality tests, scripts and data preparation below `src/geocoding` and
  `src/scripts` are not part of the service.
- The connection pool: that no connection is free is one of the failures.
- Digests (snapshot ids, cache keys, session tokens) are injective by
  assumption.
- Clocks of the process do not run backwards. `WithinLimit` needs it: an
  expired hazard would come back.

## 8. What is left

1. `CountsConserved` by proof: it needs the tables of `AdminTraffic` restated as
   sets of requests, as `GeocodingRateLimit` does with `admitted`.
2. `AnswersAvoidBlockedAreas` and `FloodIsTheReason` by proof, with the geometry
   as an uninterpreted predicate: a preview is judged by the snapshot it took.
3. The read-only projections of section 7, as operators over the tables of
   `SensorState`, `TelemetryIngestion` and `GatewayHeartbeat`.
