------------------------------ MODULE MCWaiting ------------------------------
(***************************************************************************)
(* Everything that waits: batches and heartbeats for rows and keys,        *)
(* recomputations for a deployment row, geocoding calls for a slot and the *)
(* provider, instances that boot for the lock of the migrations.  No two   *)
(* of them have state in common, so a behaviour is about one of them, its  *)
(* subject, and the others stay as they were initially.                    *)
(***************************************************************************)
EXTENDS MigrationRunner

CONSTANTS NULL, r1, r2, r3, n1, n2, g1, g2, m1, m2  \* model values

VARIABLES
    subject,
    log, gateway, batch, ingestPc, next, written, status, ingestHolds,
    beatClock, gateways, statuses, metrics, job, beatPc, beatHolds, writes,
    accepted, told,
    clock, telemetry, deployments, state, lock, taskPc, kind, since, taskNow, dep,
    prev, latest, seen, covered, owed,
    cache, req, secret, restarts, now, active, waiting, pc

ingestVars == <<log, gateway, batch, ingestPc, next, written, status, ingestHolds>>
beatVars ==
    <<beatClock, gateways, statuses, metrics, job, beatPc, beatHolds, writes, accepted, told>>
stateVars ==
    <<clock, telemetry, deployments, state, lock, taskPc, kind, since, taskNow, dep,
      prev, latest, seen, covered, owed>>
geoVars == <<cache, req, secret, restarts, now, active, waiting, pc>>
allVars == <<subject, ingestVars, beatVars, stateVars, geoVars, vars>>

-----------------------------------------------------------------------------
\* Two batches that name two Nodes in opposite orders, one of them with a
\* damaged reading.
Reading(node, payload, decodes) ==
    [node |-> node, key |-> 1, payload |-> payload, decodes |-> decodes]
MCBatches ==
    LET x == Reading(n1, "x", TRUE)
        y == Reading(n2, "y", TRUE)
    IN  {<<x, y>>, <<y, x>>, <<Reading(n1, "x", FALSE), y>>}

Ingest == INSTANCE TelemetryIngestion WITH
    Attempts <- {r1, r2}, Gateways <- {g1, g2}, Batches <- MCBatches,
    MaximumBatchSize <- 2, pc <- ingestPc, holds <- ingestHolds

\* Two Gateways after two logical ids.
Beat == INSTANCE GatewayHeartbeat WITH
    Requests <- {r1, r2}, Macs <- {m1, m2}, GatewayIds <- {g1, g2}, Intervals <- {1},
    Retention <- 1, MaxTime <- 0, GatewaysWait <- FALSE,
    clock <- beatClock, pc <- beatPc, holds <- beatHolds

\* Two deliveries of one Node, in any order.
Config ==
    [enabled |-> TRUE, coverage |-> "A", referenceDistanceOverrideMm |-> NULL,
     staleAfterMinutes |-> 2, hysteresisMm |-> 1, mediumThresholdMm |-> 2,
     highThresholdMm |-> 4, blockedThresholdMm |-> 6,
     multiplier |-> [LOW |-> 100, MEDIUM |-> 70, HIGH |-> 30, BLOCKED |-> 0,
                     UNKNOWN |-> 50]]
MCReadings ==
    {[session |-> 1, sequence |-> s, gatewayReceivedAt |-> NULL,
      referenceDistanceMm |-> 10, acceptedDistanceMm |-> 10 - s, filterState |-> "STABLE",
      qualityFlags |-> {"ACCEPTED_DISTANCE_VALID"}, healthFlags |-> {}] : s \in 1..2}

State == INSTANCE SensorState WITH
    Nodes <- {n1}, Requests <- {r1, r2}, Readings <- MCReadings, Configs <- {Config},
    InitialDeployments <- [n \in {n1} |-> [config |-> Config, version |-> 1]],
    MaxTime <- 0, MaxRows <- 2, MaxVersion <- 1, pc <- taskPc, now <- taskNow

\* One slot and a queue of two for three requests.
Here == [lat |-> -6200000, lon |-> 106800000]
Geo == INSTANCE GeocodingService WITH
    Requests <- {r1, r2, r3}, Provider <- "photon",
    RawQueries <- {}, RawLookups <- {},
    RawReverses <- {[op |-> "reverse", point |-> Here, language |-> "id"]},
    LowerCase <- [monas |-> "monas"], Analyzer <- [id |-> "default"],
    PlacePosition <- [p1 |-> Here], Terms <- << >>, DistanceMeters <- << >>,
    FeatureLists <- {<<"p1">>},
    Region <- [minLat |-> -6437000, maxLat |-> -6025000, minLon |-> 106479000,
               maxLon |-> 106955000, fallbackFocus |-> Here],
    SecretConfigured <- FALSE, maximumConcurrent <- 1, maximumQueued <- 2,
    maximumEntries <- 2, geocodingCacheTtlMs <- 1, geocodingReverseCacheTtlMs <- 2,
    MaxTime <- 0, MaxRestarts <- 1

\* The migrations have the constants of the configuration: an old and a new
\* release that boot twice each.
ReleaseNames == [old |-> 1..2, new |-> 1..3]

-----------------------------------------------------------------------------
WaitingInit ==
    /\ subject \in {"ingest", "beat", "state", "geocode", "migrations"}
    /\ Ingest!Init /\ Beat!Init /\ State!Init /\ Geo!Init /\ Init

WaitingNext ==
    /\ UNCHANGED subject
    /\ \/ /\ subject = "ingest" /\ Ingest!Next
          /\ UNCHANGED <<beatVars, stateVars, geoVars, vars>>
       \/ /\ subject = "beat" /\ Beat!Next
          /\ UNCHANGED <<ingestVars, stateVars, geoVars, vars>>
       \/ /\ subject = "state" /\ State!Next
          /\ UNCHANGED <<ingestVars, beatVars, geoVars, vars>>
       \/ /\ subject = "geocode" /\ Geo!Next
          /\ UNCHANGED <<ingestVars, beatVars, stateVars, vars>>
       \/ /\ subject = "migrations" /\ Next
          /\ UNCHANGED <<ingestVars, beatVars, stateVars, geoVars>>

\* Nothing is fair but what each component says; initially nothing of that is
\* enabled, so it asks nothing of a component that is not the subject.
WaitingSpec ==
    /\ WaitingInit /\ [][WaitingNext]_allVars
    /\ Ingest!Fairness /\ Beat!Fairness /\ State!Fairness /\ Geo!Fairness

-----------------------------------------------------------------------------
\* Every received batch is answered, lost after COMMIT, or failed.
AttemptsEnd == Ingest!AttemptsEnd

\* Every heartbeat request ends: nobody waits for ever for a row or a key.
RequestsEnd == Beat!RequestsEnd

\* Every stored row of a deployed Node reaches a committed state, unless the
\* recomputation it started failed.
RowsReachState == State!RowsReachState

\* A geocoding call, queued or running, ends with an answer.
CallsAreAnswered == Geo!CallsAreAnswered
=============================================================================
