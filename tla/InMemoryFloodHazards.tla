------------------------ MODULE InMemoryFloodHazards ------------------------
(***************************************************************************)
(* The simulated flood hazards an administrator sets, and the snapshots    *)
(* made of them.                                                           *)
(*                                                                         *)
(*   src/src/flood/providers/in-memory-flood-hazard.provider.ts            *)
(*   src/src/flood/admin/flood-admin.controller.ts                         *)
(*   src/src/flood/dev/dev-flood.controller.ts                             *)
(*                                                                         *)
(* Every method runs without interruption but may read the clock twice:    *)
(* time passes inside it, so `clock` is the first reading and clock' the   *)
(* second.  The process may restart and forget everything.  A client keeps *)
(* a snapshot and compares its id with later ones.                         *)
(***************************************************************************)
EXTENDS Naturals, FiniteSetsExt

CONSTANTS
    Ids,               \* hazard ids of administrators
    Levels,            \* levels of the presets
    Contents,          \* level, polygon, multiplier ... of a hazard
    maxActiveHazards,  \* configuration
    PresetLifetime,    \* validity of a preset: 24 hours
    MaxTime,           \* bound of the clock
    MaxVersion,        \* bound of the version counter
    MaxInstance,       \* bound of the restarts
    NULL

ASSUME LimitsAssumption ==
    /\ maxActiveHazards \in Nat
    /\ PresetLifetime \in Nat \ {0}
    /\ MaxTime \in Nat /\ MaxVersion \in Nat /\ MaxInstance \in Nat
    /\ NULL \notin Nat

VARIABLES
    clock,
    hazardsMap,  \* id -> hazard
    version,
    instance,    \* snapshotInstanceId: fresh random bytes per process
    held         \* the snapshot a client keeps, or NULL

vars == <<clock, hazardsMap, version, instance, held>>

\* The two ids of a preset.
PresetIds(level) == {<<"central_corridor", level>>, <<"user_custom", level>>}

HazardIds == Ids \cup UNION {PresetIds(level) : level \in Levels}

Hazard == [content : Contents, validUntil : Nat]

Later == clock..MaxTime

Init ==
    /\ clock = 0
    /\ hazardsMap = [id \in {} |-> NULL]
    /\ version = 0
    /\ instance = 0
    /\ held = NULL

-----------------------------------------------------------------------------
\* The ids of listHazards at a time: validUntil is strictly later.
listHazards(map, time) == {id \in DOMAIN map : map[id].validUntil > time}

\* Mutant: the last validity instead of the first.
latestValidUntil(map, ids) ==
    IF ids = {} THEN NULL ELSE Max({map[id].validUntil : id \in ids})

earliestValidUntil(map, ids) ==
    IF ids = {} THEN NULL ELSE Min({map[id].validUntil : id \in ids})

snapshotId(v, ids) == <<instance, v, Cardinality(ids)>>

\* createSnapshot of the hazards `ids` of the map with version v.  Which
\* process and version it was made by is recorded for the properties.
createSnapshot(map, v, ids, time) ==
    [snapshotId |-> snapshotId(v, ids),
     generatedAt |-> time,
     validUntil |-> earliestValidUntil(map, ids),
     hazards |-> [id \in ids |-> map[id]],
     instance |-> instance, version |-> v]

\* What getActiveSnapshot answers now.
CurrentSnapshot ==
    createSnapshot(hazardsMap, version, listHazards(hazardsMap, clock), clock)

\* GET: the client keeps the answer.
getActiveSnapshot ==
    /\ held' = CurrentSnapshot
    /\ UNCHANGED <<clock, hazardsMap, version, instance>>

-----------------------------------------------------------------------------
Updated(new) == [id \in DOMAIN new \cup DOMAIN hazardsMap |->
                    IF id \in DOMAIN new THEN new[id] ELSE hazardsMap[id]]

Changed(map) ==
    /\ version < MaxVersion
    /\ hazardsMap' = map
    /\ version' = version + 1

\* Mutant: the limit lets one hazard more in.
addOneMore(id, hazard) ==
    LET activeHazardIds == listHazards(hazardsMap, clock) IN
    /\ clock' \in Later
    /\ \/ hazard.validUntil <= clock'
       \/ id \in activeHazardIds
       \/ Cardinality(activeHazardIds) <= maxActiveHazards
    /\ Changed(Updated([i \in {id} |-> hazard]))
    /\ UNCHANGED <<instance, held>>

\* Mutant: an update in place does not count as a change.
addUnversioned(id, hazard) ==
    LET activeHazardIds == listHazards(hazardsMap, clock) IN
    /\ clock' \in Later
    /\ \/ hazard.validUntil <= clock'
       \/ id \in activeHazardIds
       \/ Cardinality(activeHazardIds) < maxActiveHazards
    /\ IF id \in DOMAIN hazardsMap
       THEN /\ hazardsMap' = Updated([i \in {id} |-> hazard])
            /\ UNCHANGED version
       ELSE Changed(Updated([i \in {id} |-> hazard]))
    /\ UNCHANGED <<instance, held>>

\* The active ids are read at `clock`, the age of the new hazard at clock'.
\* A hazard that is over already is stored all the same.
addHazard(id, hazard) ==
    LET activeHazardIds == listHazards(hazardsMap, clock) IN
    /\ clock' \in Later
    /\ \/ hazard.validUntil <= clock'
       \/ id \in activeHazardIds
       \/ Cardinality(activeHazardIds) < maxActiveHazards
    /\ Changed(Updated([i \in {id} |-> hazard]))
    /\ UNCHANGED <<instance, held>>

removeHazard(id) ==
    /\ id \in DOMAIN hazardsMap
    /\ Changed([i \in DOMAIN hazardsMap \ {id} |-> hazardsMap[i]])
    /\ UNCHANGED <<clock, instance, held>>

clearHazards ==
    /\ DOMAIN hazardsMap # {}
    /\ Changed([i \in {} |-> NULL])
    /\ UNCHANGED <<clock, instance, held>>

\* The snapshot it returns lists the hazards active at clock', and says it
\* was generated at `clock`.
activateCentralCorridorPreset(level, content) ==
    LET hazard == [content |-> content, validUntil |-> clock + PresetLifetime]
        projected == listHazards(hazardsMap, clock) \cup PresetIds(level)
    IN
    /\ clock' \in Later
    /\ Cardinality(projected) <= maxActiveHazards
    /\ Changed(Updated([i \in PresetIds(level) |-> hazard]))
    /\ held' = createSnapshot(hazardsMap', version',
                              listHazards(hazardsMap', clock'), clock)
    /\ UNCHANGED instance

\* A new process: everything is forgotten but the clients' snapshots.
Restart ==
    /\ instance < MaxInstance
    /\ instance' = instance + 1
    /\ hazardsMap' = [i \in {} |-> NULL]
    /\ version' = 0
    /\ UNCHANGED <<clock, held>>

Tick ==
    /\ clock < MaxTime
    /\ clock' = clock + 1
    /\ UNCHANGED <<hazardsMap, version, instance, held>>

Next ==
    \/ getActiveSnapshot
    \/ \E id \in Ids, content \in Contents, until \in 1..MaxTime :
          addHazard(id, [content |-> content, validUntil |-> until])
    \/ \E id \in HazardIds : removeHazard(id)
    \/ clearHazards
    \/ \E level \in Levels, content \in Contents :
          activateCentralCorridorPreset(level, content)
    \/ Restart
    \/ Tick

Spec == Init /\ [][Next]_vars

-----------------------------------------------------------------------------
\* The variables hold what the class allows.
TypeOK ==
    /\ clock \in Nat /\ version \in Nat /\ instance \in Nat
    /\ DOMAIN hazardsMap \subseteq HazardIds
    /\ \A id \in DOMAIN hazardsMap : hazardsMap[id] \in Hazard
    /\ held = NULL \/ DOMAIN held.hazards \subseteq HazardIds

\* Never more active hazards than configured, although expired ones stay in
\* the map, are overwritten and are not counted.
WithinLimit == Cardinality(listHazards(hazardsMap, clock)) <= maxActiveHazards

\* Revalidation by id is sound: a snapshot with the id of the kept one has
\* its hazards and its validity, although the id holds only the process, the
\* version and a number, and hazards expire without a new version.
SameIdSameHazards ==
    held # NULL /\ CurrentSnapshot.snapshotId = held.snapshotId =>
        /\ CurrentSnapshot.hazards = held.hazards
        /\ CurrentSnapshot.validUntil = held.validUntil

\* validUntil is kept: as long as the map did not change and validUntil has
\* not come, a new snapshot is the same one.
ValidWhileUnchanged ==
    /\ held # NULL
    /\ held.instance = instance /\ held.version = version
    /\ held.validUntil = NULL \/ clock < held.validUntil
    => /\ CurrentSnapshot.snapshotId = held.snapshotId
       /\ CurrentSnapshot.hazards = held.hazards
=============================================================================
