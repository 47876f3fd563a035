----------------------------- MODULE SensorState -----------------------------
(***************************************************************************)
(* How iot_sensor_state is kept up to date while telemetry is ingested,    *)
(* deployments are saved and recomputations are asked for, all at once.    *)
(*                                                                         *)
(*   src/src/flood/sensors/sensor-deployment.service.ts                    *)
(*   src/src/flood/sensors/sensor-deployment.repository.ts                 *)
(*   src/src/iot/services/telemetry-ingestion.service.ts (ingest)          *)
(*                                                                         *)
(* Every call of upsert or recomputeNode is one PostgreSQL transaction in  *)
(* READ COMMITTED: each statement sees what was committed when it started, *)
(* and the row of iot_sensor_deployments, locked by the first statement,   *)
(* is held until COMMIT or ROLLBACK.  An action is one statement.  The row *)
(* of iot_sensor_state is only written under that lock, so the second FOR  *)
(* UPDATE never waits.                                                     *)
(***************************************************************************)
EXTENDS SensorClassifier, Sequences, FiniteSets

CONSTANTS
    Nodes,               \* Node identifiers
    Requests,            \* HTTP requests in progress at the same time
    Readings,            \* decoded readings a Gateway may deliver
    Configs,             \* deployment configurations an administrator may save
    InitialDeployments,  \* the deployments saved before the model starts
    MaxTime,             \* bound of the clock
    MaxRows,             \* bound of the telemetry rows of a Node
    MaxVersion           \* bound of config_version

VARIABLES
    clock,        \* the time new Date() returns
    telemetry,    \* iot_telemetry per Node, in the order of the row ids
    deployments,  \* committed iot_sensor_deployments per Node, or NULL
    state,        \* committed iot_sensor_state per Node, or NULL
    lock,         \* the task that holds the deployment row, or NULL
    pc,           \* per task: the statement it has reached
    kind,         \* per task: who asked for it
    since,        \* per task: the clock when it was asked for
    now,          \* per task: `now` of upsert and recomputeNode
    dep,          \* per task: the deployment row in its transaction
    prev,         \* per task: previousState
    latest,       \* per task: the id of the row findLatestTelemetry chose
    seen,         \* per task, auxiliary: the rows findLatestTelemetry saw
    covered,      \* per Node, auxiliary: `seen` of the last commit
    owed          \* per Node, auxiliary: rows whose recomputation failed

database == <<telemetry, deployments, state, lock>>
tasks == <<pc, kind, since, now, dep, prev, latest, seen>>
vars == <<clock, database, tasks, covered, owed>>

\* A task is the work of one request on one Node: the promise that ingest
\* starts per Node, or the single one of a save or of a recompute request.
Tasks == Requests \X Nodes
RequestOf(t) == t[1]
NodeOf(t) == t[2]

Distances == Nat \cup {NULL}
Reading == [session : Nat, sequence : Nat, gatewayReceivedAt : Nat \cup {NULL},
            referenceDistanceMm : Distances, acceptedDistanceMm : Distances,
            filterState : STRING, qualityFlags : SUBSET STRING,
            healthFlags : SUBSET STRING]

Row == [session : Nat, sequence : Nat, gatewayReceivedAt : Nat \cup {NULL},
        serverReceivedAt : Nat, referenceDistanceMm : Distances,
        acceptedDistanceMm : Distances, filterState : STRING,
        qualityFlags : SUBSET STRING, healthFlags : SUBSET STRING]

Deployment == [config : Configs, version : Nat \ {0}]

StateRow ==
    [telemetryId : Nat \cup {NULL}, observedAt : Nat \cup {NULL},
     observationSource : {"GATEWAY", "SERVER", NULL},
     validUntil : Nat \cup {NULL}, waterHeightMm : Nat \cup {NULL},
     classifiedLevel : FloodRiskLevels,
     classificationStatus : {"VALID", "UNKNOWN", "DISABLED"},
     effectiveMultiplier : 0..One, reasonCodes : SUBSET SensorReasonCode,
     classificationConfigVersion : Nat \ {0}]

ASSUME ConstantsAssumption ==
    /\ Readings \subseteq Reading
    /\ \A c \in Configs : validateSensorDeployment(c)
    /\ InitialDeployments \in [Nodes -> Deployment \cup {NULL}]
    /\ MaxTime \in Nat
    /\ MaxRows \in Nat
    /\ MaxVersion \in Nat \ {0}
    /\ NULL \notin Tasks /\ NULL \notin Deployment /\ NULL \notin StateRow

-----------------------------------------------------------------------------
(* The query of findLatestTelemetry over the first m rows of a Node.       *)

\* DISTINCT ON (node_boot_session_id) ... ORDER BY node_sequence DESC, id DESC
LatestInSession(rows, m, i) ==
    \A j \in 1..m :
        rows[j].session = rows[i].session =>
            \/ rows[j].sequence < rows[i].sequence
            \/ rows[j].sequence = rows[i].sequence /\ j <= i

\* ORDER BY observation time DESC, server_received_at DESC, id DESC
OrderedBefore(rows, i, j) ==
    LET oi == selectObservationTime(rows[i]).observedAt
        oj == selectObservationTime(rows[j]).observedAt
        si == rows[i].serverReceivedAt
        sj == rows[j].serverReceivedAt
    IN  \/ oi > oj
        \/ oi = oj /\ si > sj
        \/ oi = oj /\ si = sj /\ i >= j

IsLatest(rows, m, i) ==
    /\ i \in 1..m
    /\ LatestInSession(rows, m, i)
    /\ \A j \in 1..m : LatestInSession(rows, m, j) => OrderedBefore(rows, i, j)

-----------------------------------------------------------------------------
(* Initial states: the deployments saved so far, nothing received yet.     *)

Init ==
    /\ clock = 0
    /\ telemetry = [n \in Nodes |-> <<>>]
    /\ deployments = InitialDeployments
    /\ state = [n \in Nodes |->
                  IF InitialDeployments[n] = NULL THEN NULL
                  ELSE deriveWithoutTelemetry(InitialDeployments[n].config,
                                              InitialDeployments[n].version)]
    /\ lock = [n \in Nodes |-> NULL]
    /\ pc = [t \in Tasks |-> "idle"]
    /\ kind = [t \in Tasks |-> "none"]
    /\ since = [t \in Tasks |-> 0]
    /\ now = [t \in Tasks |-> 0]
    /\ dep = [t \in Tasks |-> NULL]
    /\ prev = [t \in Tasks |-> NULL]
    /\ latest = [t \in Tasks |-> NULL]
    /\ seen = [t \in Tasks |-> 0]
    /\ covered = [n \in Nodes |-> 0]
    /\ owed = [n \in Nodes |-> 0]

-----------------------------------------------------------------------------
(* Requests arrive.                                                        *)

Tick ==
    /\ clock < MaxTime
    /\ clock' = clock + 1
    /\ UNCHANGED <<database, tasks, covered, owed>>

Idle(r) == \A n \in Nodes : pc[<<r, n>>] = "idle"

\* The unique key (node_id, node_boot_session_id, node_sequence).
Stored(rows, reading) ==
    \E i \in DOMAIN rows : /\ rows[i].session = reading.session
                           /\ rows[i].sequence = reading.sequence

RowOf(reading, at) ==
    [session |-> reading.session, sequence |-> reading.sequence,
     gatewayReceivedAt |-> reading.gatewayReceivedAt, serverReceivedAt |-> at,
     referenceDistanceMm |-> reading.referenceDistanceMm,
     acceptedDistanceMm |-> reading.acceptedDistanceMm,
     filterState |-> reading.filterState, qualityFlags |-> reading.qualityFlags,
     healthFlags |-> reading.healthFlags]

\* insertedNodeIds: the Nodes of the batch that got a new row.
Inserted(batch) ==
    {n \in Nodes : batch[n] # NULL /\ ~Stored(telemetry[n], batch[n])}

Asked(T, k) ==
    /\ pc' = [t \in Tasks |-> IF t \in T THEN "requested" ELSE pc[t]]
    /\ kind' = [t \in Tasks |-> IF t \in T THEN k ELSE kind[t]]
    /\ since' = [t \in Tasks |-> IF t \in T THEN clock ELSE since[t]]
    /\ UNCHANGED <<now, dep, prev, latest, seen>>

\* ingest: persistBatch commits the new rows of the batch (at most one
\* reading per Node here), then recomputeNode is started for every Node
\* that got one, and for no other.  serverReceivedAt was read before the
\* transaction, so it is any earlier time.
Ingest(r, batch, at) ==
    /\ Idle(r)
    /\ at <= clock
    /\ Inserted(batch) # {}
    /\ \A n \in Inserted(batch) : Len(telemetry[n]) < MaxRows
    /\ telemetry' = [n \in Nodes |->
                       IF n \in Inserted(batch)
                       THEN Append(telemetry[n], RowOf(batch[n], at))
                       ELSE telemetry[n]]
    /\ Asked({<<r, n>> : n \in Inserted(batch)}, "ingest")
    /\ UNCHANGED <<clock, deployments, state, lock, covered, owed>>

\* PUT of a deployment: upsert is called with a valid body.
AskUpsert(r, n) ==
    /\ Idle(r)
    /\ Asked({<<r, n>>}, "upsert")
    /\ UNCHANGED <<clock, database, covered, owed>>

\* The dashboard's recompute button.
AskRecompute(r, n) ==
    /\ Idle(r)
    /\ Asked({<<r, n>>}, "recompute")
    /\ UNCHANGED <<clock, database, covered, owed>>

-----------------------------------------------------------------------------
(* The statements of a transaction.                                        *)

\* The task is over; its local variables are forgotten.
Finish(t) ==
    /\ pc' = [pc EXCEPT ![t] = "idle"]
    /\ kind' = [kind EXCEPT ![t] = "none"]
    /\ since' = [since EXCEPT ![t] = 0]
    /\ now' = [now EXCEPT ![t] = 0]
    /\ dep' = [dep EXCEPT ![t] = NULL]
    /\ prev' = [prev EXCEPT ![t] = NULL]
    /\ latest' = [latest EXCEPT ![t] = NULL]
    /\ seen' = [seen EXCEPT ![t] = 0]

\* Mutant: the row is read without FOR UPDATE.
NotLocked(t, row, time) ==
    /\ time \in since[t]..clock
    /\ lock' = [lock EXCEPT ![NodeOf(t)] = t]
    /\ dep' = [dep EXCEPT ![t] = row]
    /\ now' = [now EXCEPT ![t] = time]
    /\ pc' = [pc EXCEPT ![t] = "locked"]
    /\ UNCHANGED <<clock, telemetry, deployments, state, kind, since, prev,
                   latest, seen, covered, owed>>

\* Mutant: `now` is an instant kept from before the request.
LockedStale(t, row, time) ==
    /\ time \in 0..clock
    /\ lock[NodeOf(t)] = NULL
    /\ lock' = [lock EXCEPT ![NodeOf(t)] = t]
    /\ dep' = [dep EXCEPT ![t] = row]
    /\ now' = [now EXCEPT ![t] = time]
    /\ pc' = [pc EXCEPT ![t] = "locked"]
    /\ UNCHANGED <<clock, telemetry, deployments, state, kind, since, prev,
                   latest, seen, covered, owed>>

\* `now` was read after the request came and before the transaction began
\* and waited for the row.
Locked(t, row, time) ==
    /\ time \in since[t]..clock
    /\ lock[NodeOf(t)] = NULL
    /\ lock' = [lock EXCEPT ![NodeOf(t)] = t]
    /\ dep' = [dep EXCEPT ![t] = row]
    /\ now' = [now EXCEPT ![t] = time]
    /\ pc' = [pc EXCEPT ![t] = "locked"]
    /\ UNCHANGED <<clock, telemetry, deployments, state, kind, since, prev,
                   latest, seen, covered, owed>>

\* Mutant: the column enabled is not compared.
UpsertedRowUnlessToggled(existing, c) ==
    IF existing = NULL THEN [config |-> c, version |-> 1]
    ELSE [config |-> c,
          version |-> existing.version
              + (IF [existing.config EXCEPT !.enabled = c.enabled] # c
                 THEN 1 ELSE 0)]

\* The row that INSERT ... ON CONFLICT (node_id) DO UPDATE returns: the
\* version grows exactly when some column changes.
UpsertedRow(existing, c) ==
    IF existing = NULL THEN [config |-> c, version |-> 1]
    ELSE [config |-> c,
          version |-> existing.version + (IF existing.config # c THEN 1 ELSE 0)]

upsertDeployment(t, c, time) ==
    /\ pc[t] = "requested" /\ kind[t] = "upsert"
    /\ UpsertedRow(deployments[NodeOf(t)], c).version <= MaxVersion
    /\ Locked(t, UpsertedRow(deployments[NodeOf(t)], c), time)

findDeploymentForUpdate(t, time) ==
    /\ pc[t] = "requested" /\ kind[t] \in {"ingest", "recompute"}
    /\ deployments[NodeOf(t)] # NULL
    /\ Locked(t, deployments[NodeOf(t)], time)

\* Mutant: FOR UPDATE SKIP LOCKED, a locked row is taken for a missing one.
SkipLocked(t) ==
    /\ pc[t] = "requested" /\ kind[t] \in {"ingest", "recompute"}
    /\ deployments[NodeOf(t)] = NULL \/ lock[NodeOf(t)] # NULL
    /\ Finish(t)
    /\ UNCHANGED <<clock, database, covered, owed>>

\* `if (deployment === null) return null`: a row that another transaction
\* has inserted and not committed is not seen, and not waited for.
NoDeployment(t) ==
    /\ pc[t] = "requested" /\ kind[t] \in {"ingest", "recompute"}
    /\ deployments[NodeOf(t)] = NULL
    /\ Finish(t)
    /\ UNCHANGED <<clock, database, covered, owed>>

findStateForUpdate(t) ==
    /\ pc[t] = "locked"
    /\ prev' = [prev EXCEPT ![t] = state[NodeOf(t)]]
    /\ pc' = [pc EXCEPT ![t] = "stateFound"]
    /\ UNCHANGED <<clock, database, kind, since, now, dep, latest, seen,
                   covered, owed>>

findLatestTelemetry(t, row) ==
    LET rows == telemetry[NodeOf(t)] IN
    /\ pc[t] = "stateFound"
    /\ IF rows = <<>> THEN row = NULL ELSE IsLatest(rows, Len(rows), row)
    /\ latest' = [latest EXCEPT ![t] = row]
    /\ seen' = [seen EXCEPT ![t] = Len(rows)]
    /\ pc' = [pc EXCEPT ![t] = "telemetryFound"]
    /\ UNCHANGED <<clock, database, kind, since, now, dep, prev, covered, owed>>

\* Mutant: nothing is derived again for the row already interpreted.
deriveUnlessSameRow(t) ==
    IF prev[t] # NULL /\ prev[t].telemetryId = latest[t] THEN prev[t]
    ELSE IF latest[t] = NULL
    THEN deriveWithoutTelemetry(dep[t].config, dep[t].version)
    ELSE deriveFromTelemetry(dep[t].config, dep[t].version,
                             telemetry[NodeOf(t)][latest[t]], latest[t],
                             prev[t], now[t])

deriveSensorState(t) ==
    IF latest[t] = NULL
    THEN deriveWithoutTelemetry(dep[t].config, dep[t].version)
    ELSE deriveFromTelemetry(dep[t].config, dep[t].version,
                             telemetry[NodeOf(t)][latest[t]], latest[t],
                             prev[t], now[t])

\* upsertState and COMMIT: the state appears, and with it, when the task is
\* a save, the deployment row it wrote.
Commit(t) ==
    LET n == NodeOf(t) IN
    /\ pc[t] = "telemetryFound"
    /\ state' = [state EXCEPT ![n] = deriveSensorState(t)]
    /\ deployments' = IF kind[t] = "upsert"
                      THEN [deployments EXCEPT ![n] = dep[t]]
                      ELSE deployments
    /\ lock' = [lock EXCEPT ![n] = NULL]
    /\ covered' = [covered EXCEPT ![n] = seen[t]]
    /\ owed' = [owed EXCEPT ![n] = IF seen[t] >= owed[n] THEN 0 ELSE owed[n]]
    /\ Finish(t)
    /\ UNCHANGED <<clock, telemetry>>

\* A statement fails, no connection is free, or the process dies: ROLLBACK.
\* ingest logs the failure of its recomputation and forgets it.
Abort(t) ==
    LET n == NodeOf(t) IN
    /\ pc[t] # "idle"
    /\ lock' = [lock EXCEPT ![n] = IF @ = t THEN NULL ELSE @]
    /\ owed' = [owed EXCEPT ![n] =
                  IF kind[t] = "ingest" THEN Len(telemetry[n]) ELSE @]
    /\ Finish(t)
    /\ UNCHANGED <<clock, telemetry, deployments, state, covered>>

-----------------------------------------------------------------------------
Batches == [Nodes -> Readings \cup {NULL}]

Arrive(r) ==
    \/ \E batch \in Batches, at \in 0..clock : Ingest(r, batch, at)
    \/ \E n \in Nodes : AskUpsert(r, n)
    \/ \E n \in Nodes : AskRecompute(r, n)

Acquire(t) ==
    \/ \E c \in Configs, time \in 0..clock : upsertDeployment(t, c, time)
    \/ \E time \in 0..clock : findDeploymentForUpdate(t, time)

Step(t) ==
    \/ NoDeployment(t)
    \/ findStateForUpdate(t)
    \/ \E row \in DOMAIN telemetry[NodeOf(t)] \cup {NULL} :
          findLatestTelemetry(t, row)
    \/ Commit(t)

Next ==
    \/ Tick
    \/ \E r \in Requests : Arrive(r)
    \/ \E t \in Tasks : Acquire(t) \/ Step(t) \/ Abort(t)

Spec == Init /\ [][Next]_vars

\* A statement that can run is run; PostgreSQL queues the waiters of a row,
\* so one that waits for it again and again gets it.
Fairness == \A t \in Tasks : SF_vars(Acquire(t)) /\ WF_vars(Step(t))

FairSpec == Spec /\ Fairness

-----------------------------------------------------------------------------
\* The variables hold what their columns and their TypeScript types allow.
TypeOK ==
    /\ clock \in Nat
    /\ telemetry \in [Nodes -> Seq(Row)]
    /\ deployments \in [Nodes -> Deployment \cup {NULL}]
    /\ state \in [Nodes -> StateRow \cup {NULL}]
    /\ lock \in [Nodes -> Tasks \cup {NULL}]
    /\ pc \in [Tasks -> {"idle", "requested", "locked", "stateFound",
                         "telemetryFound"}]
    /\ kind \in [Tasks -> {"none", "ingest", "upsert", "recompute"}]
    /\ since \in [Tasks -> Nat]
    /\ now \in [Tasks -> Nat]
    /\ dep \in [Tasks -> Deployment \cup {NULL}]
    /\ prev \in [Tasks -> StateRow \cup {NULL}]
    /\ latest \in [Tasks -> Nat \cup {NULL}]
    /\ seen \in [Tasks -> Nat]
    /\ covered \in [Nodes -> Nat]
    /\ owed \in [Nodes -> Nat]

-----------------------------------------------------------------------------
(* Safety.                                                                 *)

\* The transaction of upsert and the FOR UPDATE of recomputeNode together:
\* readers, who take no lock, never meet a deployment without its state or
\* a state classified under another version of the configuration.
StateMatchesConfig ==
    \A n \in Nodes :
        /\ deployments[n] = NULL <=> state[n] = NULL
        /\ state[n] # NULL =>
              state[n].classificationConfigVersion = deployments[n].version

\* A stored VALID level never understates the water of the row it names
\* under the thresholds now in force, and overstates it by no more than
\* the hysteresis: whatever chain of recomputations led to it.
LevelInBand ==
    \A n \in Nodes :
        state[n] # NULL /\ state[n].classificationStatus = "VALID" =>
            LET c == deployments[n].config
                t == telemetry[n][state[n].telemetryId]
                h == waterHeight(c, t)
                level == LevelIndex(state[n].classifiedLevel)
            IN  /\ telemetryReasonCodes(c, t) = {}
                /\ LevelIndex(classifyDirect(h, c)) <= level
                /\ level <= LevelIndex(classifyDirect(h + c.hysteresisMm, c))

\* What listEffective calls FRESH at this moment is no older than the
\* staleAfterMinutes now in force and carries the multiplier now configured
\* for its level; everything else is UNKNOWN.
FreshIsRecent ==
    \A n \in Nodes : deployments[n] # NULL =>
        LET c == deployments[n].config
            e == evaluateEffectiveSensorState(c, deployments[n].version,
                                              state[n], clock)
        IN  /\ e.effectiveMultiplier = c.multiplier[e.effectiveLevel]
            /\ e.freshness # "FRESH" => e.effectiveLevel = "UNKNOWN"
            /\ e.freshness = "FRESH" =>
                  /\ c.enabled
                  /\ clock <= selectObservationTime(
                                 telemetry[n][e.telemetryId]).observedAt
                              + c.staleAfterMinutes

\* "Latest interpreted state derived from immutable iot_telemetry": when no
\* task works on a Node and none of its recomputations failed, the stored
\* state is the one of the latest reading.
CaughtUp ==
    \A n \in Nodes :
        /\ deployments[n] # NULL
        /\ owed[n] = 0
        /\ \A r \in Requests : pc[<<r, n>>] = "idle"
        => IF telemetry[n] = <<>> THEN state[n].telemetryId = NULL
           ELSE IsLatest(telemetry[n], Len(telemetry[n]), state[n].telemetryId)

\* One step of SessionMonotone.
KeepsSession ==
    \A n \in Nodes :
      state[n] # NULL /\ state[n].telemetryId # NULL =>
        /\ state'[n].telemetryId # NULL
        /\ LET old == telemetry[n][state[n].telemetryId]
               new == telemetry'[n][state'[n].telemetryId]
           IN  old.session = new.session => old.sequence <= new.sequence

\* Within a persistent session the state never goes back to an earlier
\* reading, however the recomputations of concurrent deliveries interleave;
\* and it never loses its reading.
SessionMonotone == [][KeepsSession]_vars

\* One step of VersionNamesConfig.
KeepsVersion ==
    \A n \in Nodes :
      deployments[n] # NULL =>
        /\ deployments'[n] # NULL
        /\ deployments'[n].version >= deployments[n].version
        /\ deployments'[n].version = deployments[n].version =>
              deployments'[n] = deployments[n]

\* config_version names a configuration: it never falls, and it stays only
\* while no column changes.  canUseHysteresis and the snapshot id rely on it.
VersionNamesConfig == [][KeepsVersion]_vars

\* One step of HysteresisHoldsReplacedLevel.
HoldsReplacedLevel ==
    \A n \in Nodes :
      /\ state'[n] # state[n]
      /\ state'[n].classificationStatus = "VALID"
      /\ state'[n].classifiedLevel
           # classifyDirect(state'[n].waterHeightMm, deployments'[n].config)
      => /\ state[n] # NULL
         /\ state[n].classificationStatus = "VALID"
         /\ state[n].classificationConfigVersion = deployments'[n].version
         /\ LevelIndex(state[n].classifiedLevel)
              >= LevelIndex(state'[n].classifiedLevel)
         /\ state[n].validUntil # NULL
         /\ since[lock[n]] <= state[n].validUntil

\* Hysteresis only ever holds the level of the very row that is replaced:
\* a level above the direct one is a level that row already had, or more,
\* under the same configuration version, and that row had not expired when
\* the request came whose transaction, the holder of the lock, replaces it.
\* The row may expire while that transaction waits: `now` is read before.
HysteresisHoldsReplacedLevel == [][HoldsReplacedLevel]_vars

\* One step of RecomputeIdempotent.
RecomputesSame ==
    \A n \in Nodes :
      /\ state[n] # NULL
      /\ deployments'[n] = deployments[n]
      /\ state'[n].telemetryId = state[n].telemetryId
      /\ state[n].validUntil # NULL => clock <= state[n].validUntil
      => state'[n] = state[n]

\* Recomputing a state that is still fresh from the same row and the same
\* configuration changes nothing: a repeated recompute request, or a second
\* delivery that brought no newer reading, cannot move the level.
RecomputeIdempotent == [][RecomputesSame]_vars

-----------------------------------------------------------------------------
(* The inductive invariant behind the theorems of FloodSnapshot_proofs.    *)

InTransaction(t) == pc[t] \in {"locked", "stateFound", "telemetryFound"}

\* The deployment row is held by exactly the task whose transaction took it.
LockInv ==
    /\ \A n \in Nodes : lock[n] # NULL => NodeOf(lock[n]) = n
    /\ \A t \in Tasks : InTransaction(t) <=> lock[NodeOf(t)] = t

\* What the first m rows of a Node make the latest reading.
LatestOf(rows, m, id) ==
    \/ m = 0 /\ id = NULL
    \/ IsLatest(rows, m, id)

\* What a transaction has read is still what is stored: only telemetry moves
\* under a locked deployment row.
TaskInv ==
    \A t \in Tasks :
        LET n == NodeOf(t) IN
        /\ InTransaction(t) =>
              /\ dep[t] \in Deployment
              /\ kind[t] # "upsert" => dep[t] = deployments[n]
              /\ deployments[n] # NULL =>
                    /\ dep[t].version >= deployments[n].version
                    /\ dep[t].version = deployments[n].version =>
                          dep[t] = deployments[n]
        /\ pc[t] \in {"stateFound", "telemetryFound"} => prev[t] = state[n]
        /\ pc[t] = "telemetryFound" =>
              /\ covered[n] <= seen[t]
              /\ seen[t] <= Len(telemetry[n])
              /\ LatestOf(telemetry[n], seen[t], latest[t])

\* The stored state is the latest reading among the rows covered so far.
CoveredInv ==
    \A n \in Nodes :
        /\ covered[n] <= Len(telemetry[n])
        /\ owed[n] <= Len(telemetry[n])
        /\ state[n] # NULL =>
              LatestOf(telemetry[n], covered[n], state[n].telemetryId)

\* Every row not covered yet is owed, or the recomputation its delivery
\* started is still on its way and will see it.
PendingInv ==
    \A n \in Nodes : deployments[n] # NULL =>
        \A k \in (covered[n] + 1)..Len(telemetry[n]) :
            \/ k <= owed[n]
            \/ \E r \in Requests :
                  /\ kind[<<r, n>>] = "ingest"
                  /\ pc[<<r, n>>] # "idle"
                  /\ pc[<<r, n>>] = "telemetryFound" => k <= seen[<<r, n>>]

-----------------------------------------------------------------------------
(* Liveness.                                                               *)

\* Every stored row of a deployed Node is taken into account by a committed
\* state, unless the recomputation it started failed.
RowsReachState ==
    \A n \in Nodes : \A k \in 1..MaxRows :
        Len(telemetry[n]) >= k /\ deployments[n] # NULL
            ~> covered[n] >= k \/ owed[n] >= k

=============================================================================
