---------------------------- MODULE FloodSnapshot ----------------------------
(***************************************************************************)
(* The flood snapshot the public API, the route planner and the Android    *)
(* revalidation read, over the tables of SensorState.                      *)
(*                                                                         *)
(*   src/src/flood/providers/sensor-flood-hazard.provider.ts               *)
(*   src/src/flood/sensors/sensor-deployment.service.ts (listEffective)    *)
(*                                                                         *)
(* A client keeps one snapshot it was given and compares its id with later *)
(* ones.  The digest of snapshotId is taken to be injective.               *)
(***************************************************************************)
EXTENDS SensorState, FiniteSetsExt

VARIABLE held  \* the snapshot a client keeps, or NULL

snapshotVars == <<vars, held>>

-----------------------------------------------------------------------------
(* One SELECT joins deployments and states; `time` is the reader's now.    *)

Deployed(D) == {n \in Nodes : D[n] # NULL}

listEffective(D, S, time) ==
    [n \in Deployed(D) |->
        evaluateEffectiveSensorState(D[n].config, D[n].version, S[n], time)]

mapHazard(n, c, e) ==
    [id |-> n, level |-> e.effectiveLevel, geometry |-> c.coverage,
     confident |-> e.freshness = "FRESH" /\ e.classificationStatus = "VALID",
     observedAt |-> e.observedAt, validUntil |-> e.validUntil,
     routingMultiplier |-> e.effectiveMultiplier,
     reasonCodes |-> e.reasonCodes,
     freshness |-> IF e.freshness = "DISABLED" THEN "NO_TELEMETRY"
                   ELSE e.freshness]

\* Mutant: the id leaves out the configuration version.
idWithoutVersion(D, states) ==
    {<<n, states[n].telemetryId, states[n].effectiveLevel,
       states[n].freshness>> : n \in DOMAIN states}

deterministicSnapshotId(D, states) ==
    {<<n, D[n].version, states[n].telemetryId, states[n].effectiveLevel,
       states[n].freshness>> : n \in DOMAIN states}

\* Mutant: the last validity instead of the first.
latestFutureValidity(D, states, time) ==
    LET ends == {states[n].validUntil : n \in
                   {m \in DOMAIN states : /\ D[m].config.enabled
                                          /\ states[m].validUntil # NULL
                                          /\ states[m].validUntil >= time}}
    IN  IF ends = {} THEN NULL ELSE Max(ends)

\* The first moment after which some hazard of the snapshot is out of date.
earliestFutureValidity(D, states, time) ==
    LET ends == {states[n].validUntil : n \in
                   {m \in DOMAIN states : /\ D[m].config.enabled
                                          /\ states[m].validUntil # NULL
                                          /\ states[m].validUntil >= time}}
    IN  IF ends = {} THEN NULL ELSE Min(ends)

getActiveSnapshot(D, S, time) ==
    LET states == listEffective(D, S, time)
    IN  [snapshotId |-> deterministicSnapshotId(D, states),
         validUntil |-> earliestFutureValidity(D, states, time),
         hazards |-> {mapHazard(n, D[n].config, states[n]) :
                        n \in {m \in DOMAIN states : D[m].config.enabled}},
         generatedAt |-> time]

-----------------------------------------------------------------------------
SnapshotInit == Init /\ held = NULL

\* GET /flood-hazards: now is read, then the rows; the client keeps the
\* answer.  The rows it was made from are recorded for the properties.
Read(time) ==
    /\ held' = [snapshot |-> getActiveSnapshot(deployments, state, time),
                deployments |-> deployments, state |-> state]
    /\ UNCHANGED vars

SnapshotNext ==
    \/ Next /\ UNCHANGED held
    \/ \E time \in 0..clock : Read(time)

SnapshotSpec == SnapshotInit /\ [][SnapshotNext]_snapshotVars

-----------------------------------------------------------------------------
\* Revalidation by id is sound: a snapshot read at any later moment that has
\* the id of the kept one has its hazards and its validity too, although the
\* id leaves out times, multipliers, geometry and reasons.
SameIdSameHazards ==
    held # NULL =>
        \A time \in 0..clock :
            LET s == getActiveSnapshot(deployments, state, time)
            IN  s.snapshotId = held.snapshot.snapshotId =>
                    /\ s.hazards = held.snapshot.hazards
                    /\ s.validUntil = held.snapshot.validUntil

\* validUntil is kept: as long as no row changed and validUntil has not
\* passed, a new snapshot is the same one.
ValidWhileUnchanged ==
    held # NULL /\ held.deployments = deployments /\ held.state = state =>
        \A time \in held.snapshot.generatedAt..clock :
            \/ /\ held.snapshot.validUntil # NULL
               /\ time > held.snapshot.validUntil
            \/ LET s == getActiveSnapshot(deployments, state, time)
               IN  /\ s.snapshotId = held.snapshot.snapshotId
                   /\ s.hazards = held.snapshot.hazards
=============================================================================
