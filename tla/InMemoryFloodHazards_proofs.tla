--------------------- MODULE InMemoryFloodHazards_proofs ---------------------
(***************************************************************************)
(* Simulated hazards for any ids, contents and limits.  The id of a        *)
(* snapshot determines its hazards: within one version of the map the sets *)
(* of active hazards are ordered by inclusion, so their number tells them  *)
(* apart.  A snapshot stays good until the first of its hazards ends, and  *)
(* the limit of active hazards is never passed.                            *)
(***************************************************************************)
EXTENDS InMemoryFloodHazards, FiniteSetTheorems, WellFoundedInduction, TLAPS

\* The types the argument needs; the map is finite.
MapInv ==
    /\ clock \in Nat /\ version \in Nat /\ instance \in Nat
    /\ IsFiniteSet(DOMAIN hazardsMap)
    /\ \A id \in DOMAIN hazardsMap : hazardsMap[id].validUntil \in Nat

\* The kept snapshot lists what the map held at some earlier time, when it was
\* made by this process and this version.
MadeFromMap ==
    \E time \in Nat :
        LET ids == listHazards(hazardsMap, time) IN
        /\ time <= clock
        /\ held.hazards = [id \in ids |-> hazardsMap[id]]
        /\ held.validUntil = earliestValidUntil(hazardsMap, ids)
        /\ held.snapshotId = <<held.instance, held.version, Cardinality(ids)>>

\* The kept snapshot is of this process and version, or of an earlier one
\* whose id can never come back.
HeldInv ==
    held # NULL =>
        /\ held.instance \in Nat /\ held.version \in Nat
        /\ held.snapshotId[1] = held.instance
        /\ held.snapshotId[2] = held.version
        /\ held.instance <= instance
        /\ held.instance = instance => held.version <= version
        /\ held.instance = instance /\ held.version = version => MadeFromMap

IndInv == MapInv /\ HeldInv

\* Of the active hazards at two times one set contains the other, so two of
\* the same size are equal.
LEMMA ActiveSetsAreOrdered ==
    ASSUME NEW map, NEW s \in Nat, NEW t \in Nat, IsFiniteSet(DOMAIN map),
           \A id \in DOMAIN map : map[id].validUntil \in Nat,
           Cardinality(listHazards(map, s)) = Cardinality(listHazards(map, t))
    PROVE  listHazards(map, s) = listHazards(map, t)
<1> DEFINE S == listHazards(map, s)
           T == listHazards(map, t)
<1>1. S \in SUBSET DOMAIN map /\ T \in SUBSET DOMAIN map
  BY DEF listHazards
<1>2. IsFiniteSet(S) /\ IsFiniteSet(T)
  BY <1>1, FS_Subset
<1>3. CASE s <= t
  <2>1. T \in SUBSET S
    BY <1>3 DEF listHazards
  <2> QED BY <1>2, <2>1, FS_Subset
<1>4. CASE t <= s
  <2>1. S \in SUBSET T
    BY <1>4 DEF listHazards
  <2> QED BY <1>2, <2>1, FS_Subset
<1> QED BY <1>3, <1>4

\* The invariant holds in a new process.
LEMMA InitInd == Init => IndInv
<1> SUFFICES ASSUME Init PROVE IndInv
  OBVIOUS
<1>1. DOMAIN hazardsMap = {}
  BY DEF Init
<1> QED BY <1>1, FS_EmptySet DEF Init, IndInv, MapInv, HeldInv

\* A changed map with a new version makes every kept snapshot an earlier one.
LEMMA ChangedHeld ==
    ASSUME IndInv, NEW map, Changed(map), held' = held, instance' = instance
    PROVE  HeldInv'
<1>1. version' = version + 1 /\ version \in Nat
  BY DEF Changed, IndInv, MapInv
<1> QED BY <1>1 DEF IndInv, HeldInv

\* A snapshot that a step makes is of this process and of its version.
LEMMA JustMade ==
    ASSUME MapInv', instance' = instance, NEW time \in Nat, time <= clock', NEW at,
           held' = createSnapshot(hazardsMap', version',
                                  listHazards(hazardsMap', time), at)
    PROVE  HeldInv'
<1> DEFINE ids == listHazards(hazardsMap', time)
<1>1. /\ held'.instance = instance' /\ held'.version = version'
      /\ held'.hazards = [id \in ids |-> hazardsMap'[id]]
      /\ held'.validUntil = earliestValidUntil(hazardsMap', ids)
      /\ held'.snapshotId = <<instance', version', Cardinality(ids)>>
  BY DEF createSnapshot, snapshotId
<1>2. MadeFromMap'
  BY <1>1 DEF MadeFromMap
<1> QED BY <1>1, <1>2 DEF HeldInv, MapInv

\* Entering finitely many hazards keeps the map finite and its times typed.
LEMMA UpdatedMap ==
    ASSUME MapInv, NEW new, IsFiniteSet(DOMAIN new),
           \A id \in DOMAIN new : new[id].validUntil \in Nat
    PROVE  /\ IsFiniteSet(DOMAIN Updated(new))
           /\ \A id \in DOMAIN Updated(new) :
                 Updated(new)[id].validUntil \in Nat
<1>1. DOMAIN Updated(new) = DOMAIN new \cup DOMAIN hazardsMap
  BY DEF Updated
<1>2. IsFiniteSet(DOMAIN Updated(new))
  BY <1>1, FS_Union DEF MapInv
<1> QED BY <1>1, <1>2 DEF MapInv, Updated

\* Adding a hazard keeps the invariant.
LEMMA AddStep ==
    ASSUME IndInv, NEW id, NEW hazard, hazard.validUntil \in Nat,
           addHazard(id, hazard)
    PROVE  IndInv'
<1> DEFINE new == [i \in {id} |-> hazard]
<1>1. IsFiniteSet(DOMAIN new) /\ \A i \in DOMAIN new : new[i].validUntil \in Nat
  BY FS_Singleton
<1>2. hazardsMap' = Updated(new) /\ version' = version + 1
  BY DEF addHazard, Changed
<1>3. /\ IsFiniteSet(DOMAIN hazardsMap')
      /\ \A i \in DOMAIN hazardsMap' : hazardsMap'[i].validUntil \in Nat
  <2> HIDE DEF new
  <2> QED BY <1>1, <1>2, UpdatedMap DEF IndInv
<1>4. MapInv'
  BY <1>2, <1>3, LimitsAssumption DEF addHazard, Later, IndInv, MapInv
<1>5. HeldInv'
  BY ChangedHeld DEF addHazard
<1> QED BY <1>4, <1>5 DEF IndInv

\* A preset enters two hazards and hands out a snapshot of the new version.
LEMMA PresetStep ==
    ASSUME IndInv, NEW level, NEW content,
           activateCentralCorridorPreset(level, content)
    PROVE  IndInv'
<1> DEFINE hazard == [content |-> content, validUntil |-> clock + PresetLifetime]
           new == [i \in PresetIds(level) |-> hazard]
<1>1. IsFiniteSet(DOMAIN new)
  <2>1. PresetIds(level)
          = {<<"central_corridor", level>>} \cup {<<"user_custom", level>>}
    BY DEF PresetIds
  <2>2. IsFiniteSet({<<"central_corridor", level>>})
    BY FS_Singleton
  <2>3. IsFiniteSet(PresetIds(level))
    BY <2>1, <2>2, FS_AddElement
  <2> QED BY <2>3
<1>2. \A i \in DOMAIN new : new[i].validUntil \in Nat
  BY LimitsAssumption DEF IndInv, MapInv
<1>3. hazardsMap' = Updated(new) /\ version' = version + 1
  BY DEF activateCentralCorridorPreset, Changed
<1>4. /\ IsFiniteSet(DOMAIN hazardsMap')
      /\ \A i \in DOMAIN hazardsMap' : hazardsMap'[i].validUntil \in Nat
  <2> HIDE DEF new
  <2> QED BY <1>1, <1>2, <1>3, UpdatedMap DEF IndInv
<1>5. /\ clock' \in Later /\ instance' = instance
      /\ held' = createSnapshot(hazardsMap', version',
                                listHazards(hazardsMap', clock'), clock)
  BY DEF activateCentralCorridorPreset
<1>6. clock' \in Nat
  BY <1>5, LimitsAssumption DEF Later, IndInv, MapInv
<1>7. MapInv'
  BY <1>3, <1>4, <1>5, <1>6 DEF IndInv, MapInv
<1>8. HeldInv'
  BY <1>5, <1>6, <1>7, JustMade DEF MapInv
<1> QED BY <1>7, <1>8 DEF IndInv

\* Removing one hazard or all of them keeps the invariant.
LEMMA RemoveStep ==
    ASSUME IndInv, (\E id \in HazardIds : removeHazard(id)) \/ clearHazards
    PROVE  IndInv'
<1>1. CASE clearHazards
  <2>1. DOMAIN hazardsMap' = {} /\ Changed([i \in {} |-> NULL])
    BY <1>1 DEF clearHazards, Changed
  <2>2. MapInv'
    BY <1>1, <2>1, FS_EmptySet DEF clearHazards, Changed, IndInv, MapInv
  <2>3. HeldInv'
    BY <1>1, ChangedHeld DEF clearHazards
  <2> QED BY <2>2, <2>3 DEF IndInv
<1>2. ASSUME NEW id \in HazardIds, removeHazard(id)
      PROVE  IndInv'
  <2>1. hazardsMap' = [i \in DOMAIN hazardsMap \ {id} |-> hazardsMap[i]]
    BY <1>2 DEF removeHazard, Changed
  <2>2. DOMAIN hazardsMap' = DOMAIN hazardsMap \ {id}
    BY <2>1
  <2>3. IsFiniteSet(DOMAIN hazardsMap')
    BY <2>2, FS_RemoveElement DEF IndInv, MapInv
  <2>4. MapInv'
    BY <1>2, <2>1, <2>3 DEF removeHazard, Changed, IndInv, MapInv
  <2>5. HeldInv'
    BY <1>2, ChangedHeld DEF removeHazard
  <2> QED BY <2>4, <2>5 DEF IndInv
<1> QED BY <1>1, <1>2

\* A restart forgets the map under a new instance id.
LEMMA RestartStep == IndInv /\ Restart => IndInv'
<1> SUFFICES ASSUME IndInv, Restart PROVE IndInv'
  OBVIOUS
<1>1. DOMAIN hazardsMap' = {}
  BY DEF Restart
<1>2. MapInv'
  BY <1>1, FS_EmptySet DEF Restart, IndInv, MapInv
<1>3. HeldInv'
  BY DEF Restart, IndInv, MapInv, HeldInv
<1> QED BY <1>2, <1>3 DEF IndInv

\* Handing out a snapshot keeps the invariant.
LEMMA SnapshotStep == IndInv /\ getActiveSnapshot => IndInv'
<1> SUFFICES ASSUME IndInv, getActiveSnapshot PROVE IndInv'
  OBVIOUS
<1>1. MapInv'
  BY DEF getActiveSnapshot, IndInv, MapInv
<1>2. held' = createSnapshot(hazardsMap', version',
                             listHazards(hazardsMap', clock), clock)
  BY DEF getActiveSnapshot, CurrentSnapshot
<1>3. HeldInv'
  BY <1>1, <1>2, JustMade DEF getActiveSnapshot, IndInv, MapInv
<1> QED BY <1>1, <1>3 DEF IndInv

\* A step that leaves map, version, process and client alone.
LEMMA QuietStep ==
    ASSUME IndInv, clock' \in Nat, clock <= clock',
           UNCHANGED <<hazardsMap, version, instance, held>>
    PROVE  IndInv'
<1>1. MapInv'
  BY DEF IndInv, MapInv
<1>2. MadeFromMap => MadeFromMap'
  BY DEF MadeFromMap, IndInv, MapInv
<1>3. HeldInv'
  BY <1>2 DEF IndInv, HeldInv
<1> QED BY <1>1, <1>3 DEF IndInv

\* Every step keeps the invariant.
LEMMA NextInd == IndInv /\ [Next]_vars => IndInv'
<1> SUFFICES ASSUME IndInv, [Next]_vars PROVE IndInv'
  OBVIOUS
<1>1. CASE getActiveSnapshot
  BY <1>1, SnapshotStep
<1>2. ASSUME NEW id \in Ids, NEW content \in Contents, NEW until \in 1..MaxTime,
             addHazard(id, [content |-> content, validUntil |-> until])
      PROVE  IndInv'
  <2> DEFINE hazard == [content |-> content, validUntil |-> until]
  <2>1. hazard.validUntil \in Nat
    BY LimitsAssumption
  <2> HIDE DEF hazard
  <2>2. addHazard(id, hazard)
    BY <1>2 DEF hazard
  <2> QED BY <2>1, <2>2, AddStep
<1>3. CASE (\E id \in HazardIds : removeHazard(id)) \/ clearHazards
  BY <1>3, RemoveStep
<1>4. ASSUME NEW level \in Levels, NEW content \in Contents,
             activateCentralCorridorPreset(level, content)
      PROVE  IndInv'
  BY <1>4, PresetStep
<1>5. CASE Restart
  BY <1>5, RestartStep
<1>6. CASE Tick \/ UNCHANGED vars
  BY <1>6, QuietStep DEF Tick, vars, IndInv, MapInv
<1> QED BY <1>1, <1>2, <1>3, <1>4, <1>5, <1>6 DEF Next

\* The kept snapshot is of this process and version and was made from the
\* map, or is of an earlier one.
THEOREM Inductive == Spec => []IndInv
BY InitInd, NextInd, PTL DEF Spec

\* A snapshot with the id of the kept one has its hazards and its validity.
THEOREM SnapshotIdIsSound == Spec => []SameIdSameHazards
<1>1. IndInv => SameIdSameHazards
  <2> SUFFICES ASSUME IndInv, held # NULL,
                      CurrentSnapshot.snapshotId = held.snapshotId
               PROVE  /\ CurrentSnapshot.hazards = held.hazards
                      /\ CurrentSnapshot.validUntil = held.validUntil
    BY DEF SameIdSameHazards
  <2> DEFINE now == listHazards(hazardsMap, clock)
  <2>1. /\ CurrentSnapshot.snapshotId = <<instance, version, Cardinality(now)>>
        /\ CurrentSnapshot.hazards = [id \in now |-> hazardsMap[id]]
        /\ CurrentSnapshot.validUntil = earliestValidUntil(hazardsMap, now)
    BY DEF CurrentSnapshot, createSnapshot, snapshotId
  <2>2. held.instance = instance /\ held.version = version
    BY <2>1 DEF IndInv, HeldInv
  <2>3. PICK time \in Nat :
          LET ids == listHazards(hazardsMap, time) IN
          /\ held.hazards = [id \in ids |-> hazardsMap[id]]
          /\ held.validUntil = earliestValidUntil(hazardsMap, ids)
          /\ held.snapshotId
               = <<held.instance, held.version, Cardinality(ids)>>
    BY <2>2 DEF IndInv, HeldInv, MadeFromMap
  <2>4. Cardinality(now) = Cardinality(listHazards(hazardsMap, time))
    <3>1. held.snapshotId[3] = Cardinality(listHazards(hazardsMap, time))
      BY <2>3
    <3>2. CurrentSnapshot.snapshotId[3] = Cardinality(now)
      BY <2>1
    <3> QED BY <3>1, <3>2
  <2>5. now = listHazards(hazardsMap, time)
    BY <2>4, ActiveSetsAreOrdered DEF IndInv, MapInv
  <2> QED BY <2>1, <2>3, <2>5
<1> QED BY <1>1, Inductive, PTL

-----------------------------------------------------------------------------
(* A snapshot is good until its validUntil.                                *)

\* Every set of naturals that is not empty has a least element.
LEMMA LeastNatural ==
    ASSUME NEW T \in SUBSET Nat, T # {}
    PROVE  \E m \in T : \A k \in T : m <= k
<1> DEFINE R == OpToRel(<, Nat)
<1>1. IsWellFoundedOn(R, Nat)
  BY NatLessThanWellFounded
<1>2. \E x \in T : \A y \in T : ~(<<y, x>> \in R)
  <2> HIDE DEF R
  <2> QED BY <1>1, WFMin
<1>3. \A x, y \in Nat : y < x => <<y, x>> \in R
  BY DEF OpToRel
<1> HIDE DEF R
<1>4. PICK x \in T : \A y \in T : ~(<<y, x>> \in R)
  BY <1>2
<1>5. ASSUME NEW y \in T PROVE x <= y
  <2>1. x \in Nat /\ y \in Nat
    OBVIOUS
  <2>2. ~(y < x)
    BY <1>3, <1>4, <2>1
  <2> QED BY <2>1, <2>2
<1> QED BY <1>4, <1>5

\* earliestValidUntil is a time, and no listed hazard ends before it.
LEMMA EarliestIsFirst ==
    ASSUME NEW map, NEW ids, ids # {}, ids \in SUBSET DOMAIN map,
           \A id \in ids : map[id].validUntil \in Nat
    PROVE  /\ earliestValidUntil(map, ids) \in Nat
           /\ \A id \in ids : earliestValidUntil(map, ids) <= map[id].validUntil
<1> DEFINE T == {map[id].validUntil : id \in ids}
<1>1. T \in SUBSET Nat /\ T # {}
  OBVIOUS
<1>2. \E m \in T : \A k \in T : m <= k
  <2> HIDE DEF T
  <2> QED BY <1>1, LeastNatural
<1>3. Min(T) \in T /\ \A k \in T : Min(T) <= k
  <2> HIDE DEF T
  <2> QED BY <1>2 DEF Min
<1>4. earliestValidUntil(map, ids) = Min(T)
  BY DEF earliestValidUntil
<1> HIDE DEF T
<1>5. \A id \in ids : map[id].validUntil \in T
  BY DEF T
<1> QED BY <1>1, <1>3, <1>4, <1>5

\* As long as the map did not change and validUntil has not come, a new
\* snapshot is the same one: hazards leave only when the first of them ends.
THEOREM ValidUntilIsKept == Spec => []ValidWhileUnchanged
<1>1. IndInv => ValidWhileUnchanged
  <2> SUFFICES ASSUME IndInv, held # NULL,
                      held.instance = instance, held.version = version,
                      held.validUntil = NULL \/ clock < held.validUntil
               PROVE  /\ CurrentSnapshot.snapshotId = held.snapshotId
                      /\ CurrentSnapshot.hazards = held.hazards
    BY DEF ValidWhileUnchanged
  <2> DEFINE now == listHazards(hazardsMap, clock)
  <2>1. PICK time \in Nat :
          LET ids == listHazards(hazardsMap, time) IN
          /\ time <= clock
          /\ held.hazards = [id \in ids |-> hazardsMap[id]]
          /\ held.validUntil = earliestValidUntil(hazardsMap, ids)
          /\ held.snapshotId
               = <<held.instance, held.version, Cardinality(ids)>>
    BY DEF IndInv, HeldInv, MadeFromMap
  <2> DEFINE then == listHazards(hazardsMap, time)
  <2>2. now \in SUBSET then
    BY <2>1 DEF listHazards, IndInv, MapInv
  <2>3. ASSUME NEW id \in then PROVE id \in now
    <3>1. then # {} /\ then \in SUBSET DOMAIN hazardsMap
      BY <2>3 DEF listHazards
    <3>2. \A i \in then : hazardsMap[i].validUntil \in Nat
      BY <3>1 DEF IndInv, MapInv
    <3>3. /\ earliestValidUntil(hazardsMap, then) \in Nat
          /\ earliestValidUntil(hazardsMap, then) <= hazardsMap[id].validUntil
      <4> HIDE DEF then
      <4> QED BY <2>3, <3>1, <3>2, EarliestIsFirst
    <3>4. held.validUntil \in Nat /\ held.validUntil <= hazardsMap[id].validUntil
      BY <2>1, <3>3
    <3>5. clock < held.validUntil
      BY <3>4, LimitsAssumption
    <3>6. clock \in Nat /\ hazardsMap[id].validUntil \in Nat /\ id \in DOMAIN hazardsMap
      BY <3>1, <3>2, <2>3 DEF IndInv, MapInv
    <3>7. hazardsMap[id].validUntil > clock
      BY <3>4, <3>5, <3>6
    <3> QED BY <3>6, <3>7 DEF listHazards
  <2>4. now = then
    BY <2>2, <2>3
  <2>5. /\ CurrentSnapshot.snapshotId = <<instance, version, Cardinality(now)>>
        /\ CurrentSnapshot.hazards = [id \in now |-> hazardsMap[id]]
    BY DEF CurrentSnapshot, createSnapshot, snapshotId
  <2> QED BY <2>1, <2>4, <2>5
<1> QED BY <1>1, Inductive, PTL

-----------------------------------------------------------------------------
(* The limit.                                                              *)

\* Fewer hazards are within the limit if more are.
LEMMA SmallerFits ==
    ASSUME NEW S, NEW T, IsFiniteSet(T), S \in SUBSET T, Cardinality(T) <= maxActiveHazards
    PROVE  Cardinality(S) <= maxActiveHazards
<1>1. IsFiniteSet(S) /\ Cardinality(S) <= Cardinality(T)
  BY FS_Subset
<1>2. Cardinality(S) \in Nat /\ Cardinality(T) \in Nat
  BY <1>1, FS_CardinalityType
<1> QED BY <1>1, <1>2, LimitsAssumption

\* What is active later was active before or has been entered.
LEMMA ActiveAfterUpdate ==
    ASSUME MapInv, clock' \in Later, NEW new, \A i \in DOMAIN new : new[i].validUntil \in Nat,
           hazardsMap' = Updated(new)
    PROVE  listHazards(hazardsMap', clock') \subseteq
               listHazards(hazardsMap, clock)
                   \cup {id \in DOMAIN new : new[id].validUntil > clock'}
<1>1. clock' \in Nat /\ clock <= clock' /\ clock \in Nat
  BY LimitsAssumption DEF Later, MapInv
<1>2. ASSUME NEW id \in listHazards(hazardsMap', clock'), id \notin DOMAIN new
      PROVE  id \in listHazards(hazardsMap, clock)
  <2>1. /\ id \in DOMAIN hazardsMap
        /\ hazardsMap'[id] = hazardsMap[id] /\ hazardsMap[id].validUntil > clock'
    BY <1>2 DEF listHazards, Updated
  <2>2. hazardsMap[id].validUntil \in Nat
    BY <2>1 DEF MapInv
  <2> QED BY <1>1, <2>1, <2>2 DEF listHazards
<1>3. ASSUME NEW id \in listHazards(hazardsMap', clock'), id \in DOMAIN new
      PROVE  new[id].validUntil > clock'
  BY <1>3 DEF listHazards, Updated
<1> QED BY <1>2, <1>3

\* The active hazards are finitely many.
LEMMA ActiveIsFinite == MapInv => IsFiniteSet(listHazards(hazardsMap, clock))
<1>1. listHazards(hazardsMap, clock) \in SUBSET DOMAIN hazardsMap
  BY DEF listHazards
<1> QED BY <1>1, FS_Subset DEF MapInv

\* One more hazard fits, replaces an active one, or is over already.
LEMMA AddFits ==
    ASSUME MapInv, WithinLimit, NEW id, NEW hazard, hazard.validUntil \in Nat,
           addHazard(id, hazard)
    PROVE  WithinLimit'
<1> DEFINE active == listHazards(hazardsMap, clock)
           after == listHazards(hazardsMap', clock')
           new == [i \in {id} |-> hazard]
<1>1. clock' \in Later /\ hazardsMap' = Updated(new)
  BY DEF addHazard, Changed
<1>2. after \subseteq active \cup {i \in DOMAIN new : new[i].validUntil > clock'}
  BY <1>1, ActiveAfterUpdate
<1>3. IsFiniteSet(active) /\ Cardinality(active) \in Nat
  BY ActiveIsFinite, FS_CardinalityType
<1>4. clock' \in Nat
  BY <1>1, LimitsAssumption DEF Later, MapInv
<1>5. CASE hazard.validUntil <= clock' \/ id \in active
  <2>1. after \in SUBSET active
    BY <1>2, <1>4, <1>5
  <2>2. Cardinality(after) <= maxActiveHazards
    <3> HIDE DEF active, after
    <3> QED BY <1>3, <2>1, SmallerFits DEF WithinLimit, active
  <2> QED BY <2>2 DEF WithinLimit
<1>6. CASE id \notin active /\ Cardinality(active) < maxActiveHazards
  <2>1. after \in SUBSET (active \cup {id})
    BY <1>2
  <2>2. /\ IsFiniteSet(active \cup {id})
        /\ Cardinality(active \cup {id}) = Cardinality(active) + 1
    <3> HIDE DEF active
    <3> QED BY <1>3, <1>6, FS_AddElement
  <2>3. Cardinality(active \cup {id}) <= maxActiveHazards
    BY <1>3, <1>6, <2>2, LimitsAssumption
  <2>4. Cardinality(after) <= maxActiveHazards
    <3> HIDE DEF active, after
    <3> QED BY <2>1, <2>2, <2>3, SmallerFits
  <2> QED BY <2>4 DEF WithinLimit
<1> QED BY <1>5, <1>6 DEF addHazard

\* The preset counts what its two hazards would make of the active ones.
LEMMA PresetFits ==
    ASSUME MapInv, WithinLimit, NEW level, NEW content,
           activateCentralCorridorPreset(level, content)
    PROVE  WithinLimit'
<1> DEFINE active == listHazards(hazardsMap, clock)
           after == listHazards(hazardsMap', clock')
           hazard == [content |-> content, validUntil |-> clock + PresetLifetime]
           new == [i \in PresetIds(level) |-> hazard]
           projected == active \cup PresetIds(level)
<1>1. /\ clock' \in Later /\ hazardsMap' = Updated(new)
      /\ Cardinality(projected) <= maxActiveHazards
  BY DEF activateCentralCorridorPreset, Changed
<1>2. \A i \in DOMAIN new : new[i].validUntil \in Nat
  BY LimitsAssumption DEF MapInv
<1>3. after \in SUBSET projected
  <2>1. after \subseteq active \cup {i \in DOMAIN new : new[i].validUntil > clock'}
    <3> HIDE DEF new
    <3> QED BY <1>1, <1>2, ActiveAfterUpdate
  <2> QED BY <2>1
<1>4. IsFiniteSet(projected)
  <2>1. IsFiniteSet(active)
    BY ActiveIsFinite
  <2>2. projected = active \cup {<<"central_corridor", level>>}
                           \cup {<<"user_custom", level>>}
    BY DEF PresetIds
  <2>3. IsFiniteSet(active \cup {<<"central_corridor", level>>})
    BY <2>1, FS_AddElement
  <2> QED BY <2>2, <2>3, FS_AddElement
<1>5. Cardinality(after) <= maxActiveHazards
  <2> HIDE DEF after, projected
  <2> QED BY <1>1, <1>3, <1>4, SmallerFits
<1> QED BY <1>5 DEF WithinLimit

\* Nothing is entered by any other step, and time only ends hazards.
LEMMA OthersFit ==
    ASSUME MapInv, WithinLimit, DOMAIN hazardsMap' \subseteq DOMAIN hazardsMap,
           \A id \in DOMAIN hazardsMap' : hazardsMap'[id] = hazardsMap[id],
           clock' \in Nat, clock <= clock'
    PROVE  WithinLimit'
<1>1. listHazards(hazardsMap', clock') \in SUBSET listHazards(hazardsMap, clock)
  <2> SUFFICES ASSUME NEW id \in DOMAIN hazardsMap', hazardsMap'[id].validUntil > clock'
               PROVE  hazardsMap[id].validUntil > clock
    BY DEF listHazards
  <2>1. hazardsMap[id].validUntil \in Nat /\ hazardsMap[id].validUntil > clock'
    BY DEF MapInv
  <2> QED BY <2>1 DEF MapInv
<1>2. Cardinality(listHazards(hazardsMap', clock')) <= maxActiveHazards
  BY <1>1, ActiveIsFinite, SmallerFits DEF WithinLimit
<1> QED BY <1>2 DEF WithinLimit

\* There are never more active hazards than configured, although expired ones
\* stay in the map and the clock is read twice.
THEOREM LimitIsKept == Spec => []WithinLimit
<1>1. Init => WithinLimit
  <2> SUFFICES ASSUME Init PROVE WithinLimit
    OBVIOUS
  <2>1. listHazards(hazardsMap, clock) = {}
    BY DEF Init, listHazards
  <2> QED BY <2>1, FS_EmptySet, LimitsAssumption DEF WithinLimit
<1>2. IndInv /\ WithinLimit /\ [Next]_vars => WithinLimit'
  <2> SUFFICES ASSUME MapInv, WithinLimit, [Next]_vars PROVE WithinLimit'
    BY DEF IndInv
  <2>1. ASSUME NEW id \in Ids, NEW content \in Contents, NEW until \in 1..MaxTime,
               addHazard(id, [content |-> content, validUntil |-> until])
        PROVE  WithinLimit'
    <3> DEFINE hazard == [content |-> content, validUntil |-> until]
    <3>1. hazard.validUntil \in Nat
      BY LimitsAssumption
    <3> HIDE DEF hazard
    <3>2. addHazard(id, hazard)
      BY <2>1 DEF hazard
    <3> QED BY <3>1, <3>2, AddFits
  <2>2. ASSUME NEW level \in Levels, NEW content \in Contents,
               activateCentralCorridorPreset(level, content)
        PROVE  WithinLimit'
    BY <2>2, PresetFits
  <2>3. CASE \/ getActiveSnapshot \/ Restart \/ Tick \/ clearHazards \/ UNCHANGED vars
             \/ \E id \in HazardIds : removeHazard(id)
    <3>1. /\ DOMAIN hazardsMap' \subseteq DOMAIN hazardsMap
          /\ \A id \in DOMAIN hazardsMap' : hazardsMap'[id] = hazardsMap[id]
      BY <2>3 DEF getActiveSnapshot, Restart, Tick, clearHazards, removeHazard, Changed, vars
    <3>2. clock' = clock \/ clock' = clock + 1
      BY <2>3 DEF getActiveSnapshot, Restart, Tick, clearHazards, removeHazard, vars
    <3>3. clock' \in Nat /\ clock <= clock'
      BY <3>2 DEF MapInv
    <3> QED BY <3>1, <3>3, OthersFit
  <2> QED BY <2>1, <2>2, <2>3 DEF Next
<1> QED BY <1>1, <1>2, Inductive, PTL DEF Spec

-----------------------------------------------------------------------------
\* The variables hold what the class allows.
THEOREM TypeCorrect == Spec => []TypeOK
<1>1. Init => TypeOK
  BY DEF Init, TypeOK
<1>2. TypeOK /\ [Next]_vars => TypeOK'
  <2> SUFFICES ASSUME TypeOK, [Next]_vars PROVE TypeOK'
    OBVIOUS
  <2>1. \A map, v, ids, time :
          ids \in SUBSET HazardIds =>
              DOMAIN createSnapshot(map, v, ids, time).hazards \subseteq HazardIds
    BY DEF createSnapshot
  <2>2. CASE getActiveSnapshot
    <3>1. listHazards(hazardsMap, clock) \in SUBSET HazardIds
      BY DEF TypeOK, listHazards
    <3>2. DOMAIN held'.hazards \subseteq HazardIds
      BY <2>1, <2>2, <3>1 DEF getActiveSnapshot, CurrentSnapshot
    <3> QED BY <2>2, <3>2 DEF getActiveSnapshot, TypeOK
  <2>3. ASSUME NEW id \in Ids, NEW content \in Contents, NEW until \in 1..MaxTime,
               addHazard(id, [content |-> content, validUntil |-> until])
        PROVE  TypeOK'
    <3> DEFINE hazard == [content |-> content, validUntil |-> until]
    <3>1. hazard \in Hazard /\ id \in HazardIds
      BY LimitsAssumption DEF Hazard, HazardIds
    <3>2. /\ clock' \in Later /\ version' = version + 1 /\ UNCHANGED <<instance, held>>
          /\ hazardsMap' = Updated([i \in {id} |-> hazard])
      BY <2>3 DEF addHazard, Changed
    <3> HIDE DEF hazard
    <3>3. clock' \in Nat
      BY <3>2, LimitsAssumption DEF Later, TypeOK
    <3> QED BY <3>1, <3>2, <3>3 DEF Updated, TypeOK
  <2>4. ASSUME NEW level \in Levels, NEW content \in Contents,
               activateCentralCorridorPreset(level, content)
        PROVE  TypeOK'
    <3> DEFINE hazard == [content |-> content, validUntil |-> clock + PresetLifetime]
    <3>1. hazard \in Hazard /\ PresetIds(level) \subseteq HazardIds
      BY LimitsAssumption DEF Hazard, HazardIds, TypeOK
    <3>2. /\ clock' \in Later /\ version' = version + 1 /\ instance' = instance
          /\ hazardsMap' = Updated([i \in PresetIds(level) |-> hazard])
          /\ held' = createSnapshot(hazardsMap', version',
                                    listHazards(hazardsMap', clock'), clock)
      BY <2>4 DEF activateCentralCorridorPreset, Changed
    <3> HIDE DEF hazard
    <3>3. clock' \in Nat
      BY <3>2, LimitsAssumption DEF Later, TypeOK
    <3>4. /\ DOMAIN hazardsMap' \subseteq HazardIds
          /\ \A i \in DOMAIN hazardsMap' : hazardsMap'[i] \in Hazard
      BY <3>1, <3>2 DEF Updated, TypeOK
    <3>5. listHazards(hazardsMap', clock') \in SUBSET HazardIds
      BY <3>4 DEF listHazards
    <3>6. DOMAIN held'.hazards \subseteq HazardIds
      BY <2>1, <3>2, <3>5
    <3> QED BY <3>2, <3>3, <3>4, <3>6 DEF TypeOK
  <2>5. CASE Restart \/ Tick \/ clearHazards
    BY <2>5 DEF Restart, Tick, clearHazards, Changed, TypeOK
  <2>6. ASSUME NEW id \in HazardIds, removeHazard(id) PROVE TypeOK'
    BY <2>6 DEF removeHazard, Changed, TypeOK
  <2>7. CASE UNCHANGED vars
    BY <2>7 DEF vars, TypeOK
  <2> QED BY <2>2, <2>3, <2>4, <2>5, <2>6, <2>7 DEF Next
<1> QED BY <1>1, <1>2, PTL DEF Spec
=============================================================================
