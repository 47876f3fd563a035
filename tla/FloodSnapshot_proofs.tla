------------------------- MODULE FloodSnapshot_proofs -------------------------
(***************************************************************************)
(* What sensors say of the flood, for every set of Nodes, requests,        *)
(* readings and configurations and every bound, from the inside out: the   *)
(* classifier, the derived state that transactions keep, and the snapshot  *)
(* that readers build from it.                                             *)
(***************************************************************************)
EXTENDS FloodSnapshot, WellFoundedInduction, TLAPS

-----------------------------------------------------------------------------
(***************************************************************************)
(* The classifier, for every integer height and every valid configuration. *)
(***************************************************************************)

\* Ordered thresholds that a hysteresis does not overlap: the part of
\* validateSensorDeployment that the classification rests on.
OrderedThresholds(c) ==
    /\ c.hysteresisMm \in Nat
    /\ c.mediumThresholdMm \in Nat
    /\ c.highThresholdMm \in Nat
    /\ c.blockedThresholdMm \in Nat
    /\ c.mediumThresholdMm < c.highThresholdMm
    /\ c.highThresholdMm < c.blockedThresholdMm
    /\ c.hysteresisMm <= c.mediumThresholdMm

\* The validator accepts only ordered thresholds.
LEMMA ValidIsOrdered ==
    ASSUME NEW c, validateSensorDeployment(c)
    PROVE  OrderedThresholds(c)
BY DEF validateSensorDeployment, OrderedThresholds

\* The thresholds, by index.
LEMMA Thresholds ==
    ASSUME NEW c
    PROVE  /\ upwardThresholds(c)[1] = c.mediumThresholdMm
           /\ upwardThresholds(c)[2] = c.highThresholdMm
           /\ upwardThresholds(c)[3] = c.blockedThresholdMm
BY DEF upwardThresholds

\* classifyDirect returns one of the four levels, at its index.
LEMMA DirectIndex ==
    ASSUME NEW c, OrderedThresholds(c), NEW h \in Int
    PROVE  /\ classifyDirect(h, c) \in ClassifiedLevels
           /\ LevelIndex(classifyDirect(h, c)) \in 0..3
           /\ h >= c.mediumThresholdMm <=> LevelIndex(classifyDirect(h, c)) >= 1
           /\ h >= c.highThresholdMm <=> LevelIndex(classifyDirect(h, c)) >= 2
           /\ h >= c.blockedThresholdMm <=> LevelIndex(classifyDirect(h, c)) >= 3
<1>1. CASE h >= c.blockedThresholdMm
  BY <1>1 DEF OrderedThresholds, classifyDirect, ClassifiedLevels, LevelIndex
<1>2. CASE h < c.blockedThresholdMm /\ h >= c.highThresholdMm
  BY <1>2 DEF OrderedThresholds, classifyDirect, ClassifiedLevels, LevelIndex
<1>3. CASE h < c.highThresholdMm /\ h >= c.mediumThresholdMm
  BY <1>3 DEF OrderedThresholds, classifyDirect, ClassifiedLevels, LevelIndex
<1>4. CASE h < c.mediumThresholdMm
  BY <1>4 DEF OrderedThresholds, classifyDirect, ClassifiedLevels, LevelIndex
<1> QED BY <1>1, <1>2, <1>3, <1>4 DEF OrderedThresholds

\* Either loop of classifyWithHysteresis stops at some level.
LEMMA ClimbStops ==
    ASSUME NEW c, OrderedThresholds(c), NEW h \in Int, NEW s \in 0..3
    PROVE  \E i \in 0..3 : ClimbsTo(h, c, s, i)
<1> DEFINE T == upwardThresholds(c)
<1>1. CASE s = 3 \/ h >= c.blockedThresholdMm
  <2>1. ClimbsTo(h, c, s, 3)
    BY <1>1, Thresholds DEF OrderedThresholds, ClimbsTo
  <2> QED BY <2>1
<1>2. CASE s < 3 /\ h < T[s + 1]
  <2>1. ClimbsTo(h, c, s, s)
    BY <1>2 DEF ClimbsTo
  <2> QED BY <2>1
<1>3. CASE s < 2 /\ h >= T[s + 1] /\ h < T[s + 2]
  <2>1. ClimbsTo(h, c, s, s + 1)
    BY <1>3 DEF ClimbsTo
  <2> QED BY <1>3, <2>1
<1>4. CASE s = 0 /\ h >= c.highThresholdMm /\ h < c.blockedThresholdMm
  <2>1. ClimbsTo(h, c, s, 2)
    BY <1>4, Thresholds DEF OrderedThresholds, ClimbsTo
  <2> QED BY <2>1
<1> QED BY <1>1, <1>2, <1>3, <1>4, Thresholds DEF OrderedThresholds

\* The second loop stops as well.
LEMMA DropStops ==
    ASSUME NEW c, OrderedThresholds(c), NEW h \in Int, NEW s \in 0..3
    PROVE  \E i \in 0..3 : DropsTo(h, c, s, i)
<1> DEFINE R(k) == upwardThresholds(c)[k] - c.hysteresisMm
<1>1. CASE s = 0 \/ (s > 0 /\ h >= R(s))
  <2>1. DropsTo(h, c, s, s)
    BY <1>1 DEF DropsTo
  <2> QED BY <2>1
<1>2. CASE s > 0 /\ h < R(1)
  <2>1. DropsTo(h, c, s, 0)
    BY <1>2, Thresholds DEF OrderedThresholds, DropsTo
  <2> QED BY <2>1
<1>3. CASE s > 1 /\ h < R(s) /\ h >= R(s - 1)
  <2>1. DropsTo(h, c, s, s - 1)
    BY <1>3 DEF DropsTo
  <2> QED BY <1>3, <2>1
<1>4. CASE s = 3 /\ h < R(2) /\ h >= R(1)
  <2>1. DropsTo(h, c, s, 1)
    BY <1>4, Thresholds DEF OrderedThresholds, DropsTo
  <2> QED BY <2>1
<1> QED BY <1>1, <1>2, <1>3, <1>4, Thresholds DEF OrderedThresholds

\* The indices the two loops of classifyWithHysteresis stop at.
LEMMA HysteresisIndices ==
    ASSUME NEW c, OrderedThresholds(c), NEW h \in Int,
           NEW p \in ClassifiedLevels
    PROVE  \E up \in 0..3 : \E down \in 0..3 :
              /\ LevelIndex(p) \in 0..3
              /\ ClimbsTo(h, c, LevelIndex(p), up)
              /\ DropsTo(h, c, up, down)
              /\ classifyWithHysteresis(h, p, c) = LevelNames[down + 1]
<1> DEFINE up == CHOOSE i \in 0..3 : ClimbsTo(h, c, LevelIndex(p), i)
           down == CHOOSE i \in 0..3 : DropsTo(h, c, up, i)
<1>1. LevelIndex(p) \in 0..3
  BY DEF LevelIndex, ClassifiedLevels
<1>2. up \in 0..3 /\ ClimbsTo(h, c, LevelIndex(p), up)
  BY <1>1, ClimbStops
<1>3. down \in 0..3 /\ DropsTo(h, c, up, down)
  BY <1>2, DropStops
<1>4. classifyWithHysteresis(h, p, c) = LevelNames[down + 1]
  BY DEF classifyWithHysteresis
<1> QED BY <1>1, <1>2, <1>3, <1>4

\* A level name and its index determine each other.
LEMMA IndexOfName ==
    ASSUME NEW i \in 0..3
    PROVE  LevelNames[i + 1] \in ClassifiedLevels /\ LevelIndex(LevelNames[i + 1]) = i
BY DEF LevelNames, ClassifiedLevels, LevelIndex

\* And back: an index names one level.
LEMMA NameOfIndex ==
    ASSUME NEW p \in ClassifiedLevels
    PROVE  LevelIndex(p) \in 0..3 /\ LevelNames[LevelIndex(p) + 1] = p
BY DEF LevelNames, ClassifiedLevels, LevelIndex

\* Whatever the level before, classifyWithHysteresis never understates the
\* water, and overstates it by at most the hysteresis.
THEOREM HysteresisBand ==
    ASSUME NEW c, OrderedThresholds(c), NEW h \in Int,
           NEW p \in ClassifiedLevels
    PROVE  LET level == classifyWithHysteresis(h, p, c)
           IN  /\ level \in ClassifiedLevels
               /\ LevelIndex(classifyDirect(h, c)) <= LevelIndex(level)
               /\ LevelIndex(level)
                    <= LevelIndex(classifyDirect(h + c.hysteresisMm, c))
<1>1. PICK up \in 0..3, down \in 0..3 :
         /\ LevelIndex(p) \in 0..3
         /\ ClimbsTo(h, c, LevelIndex(p), up)
         /\ DropsTo(h, c, up, down)
         /\ classifyWithHysteresis(h, p, c) = LevelNames[down + 1]
  BY HysteresisIndices
<1>2. classifyWithHysteresis(h, p, c) \in ClassifiedLevels
      /\ LevelIndex(classifyWithHysteresis(h, p, c)) = down
  BY <1>1, IndexOfName
<1>3. h + c.hysteresisMm \in Int
  BY DEF OrderedThresholds
<1>4. LevelIndex(classifyDirect(h, c)) <= down
  BY <1>1, DirectIndex, Thresholds DEF ClimbsTo, DropsTo, OrderedThresholds
<1>5. down <= LevelIndex(classifyDirect(h + c.hysteresisMm, c))
  BY <1>1, <1>3, DirectIndex, Thresholds
     DEF ClimbsTo, DropsTo, OrderedThresholds
<1> QED BY <1>2, <1>4, <1>5

\* A level inside the band of its own height is kept: classifying the same
\* water again from its own result changes nothing.
THEOREM HysteresisStable ==
    ASSUME NEW c, OrderedThresholds(c), NEW h \in Int,
           NEW p \in ClassifiedLevels,
           LevelIndex(classifyDirect(h, c)) <= LevelIndex(p),
           LevelIndex(p) <= LevelIndex(classifyDirect(h + c.hysteresisMm, c))
    PROVE  classifyWithHysteresis(h, p, c) = p
<1>1. PICK up \in 0..3, down \in 0..3 :
         /\ LevelIndex(p) \in 0..3
         /\ ClimbsTo(h, c, LevelIndex(p), up)
         /\ DropsTo(h, c, up, down)
         /\ classifyWithHysteresis(h, p, c) = LevelNames[down + 1]
  BY HysteresisIndices
<1>2. h + c.hysteresisMm \in Int
  BY DEF OrderedThresholds
<1>3. up = LevelIndex(p)
  BY <1>1, DirectIndex, Thresholds DEF ClimbsTo, OrderedThresholds
<1>4. down = up
  BY <1>1, <1>2, <1>3, DirectIndex, Thresholds DEF DropsTo, OrderedThresholds
<1> QED BY <1>1, <1>3, <1>4, NameOfIndex

\* A level above the one before is the direct one: the hysteresis delays a
\* fall, never a rise.
THEOREM HysteresisHoldsOrDirect ==
    ASSUME NEW c, OrderedThresholds(c), NEW h \in Int,
           NEW p \in ClassifiedLevels
    PROVE  \/ LevelIndex(classifyWithHysteresis(h, p, c)) <= LevelIndex(p)
           \/ classifyWithHysteresis(h, p, c) = classifyDirect(h, c)
<1>1. PICK up \in 0..3, down \in 0..3 :
         /\ LevelIndex(p) \in 0..3
         /\ ClimbsTo(h, c, LevelIndex(p), up)
         /\ DropsTo(h, c, up, down)
         /\ classifyWithHysteresis(h, p, c) = LevelNames[down + 1]
  BY HysteresisIndices
<1>2. LevelIndex(classifyWithHysteresis(h, p, c)) = down
  BY <1>1, IndexOfName
<1>3. CASE up = LevelIndex(p)
  BY <1>1, <1>2, <1>3 DEF DropsTo
<1>4. CASE up # LevelIndex(p)
  <2>1. up > LevelIndex(p) /\ up \in 1..3
    BY <1>1, <1>4 DEF ClimbsTo
  <2>2. up - 1 \in LevelIndex(p)..(up - 1)
    BY <1>1, <2>1
  <2>3. h >= upwardThresholds(c)[up] /\ (up < 3 => h < upwardThresholds(c)[up + 1])
    BY <1>1, <2>1, <2>2 DEF ClimbsTo
  <2>4. down = up
    BY <1>1, <2>1, <2>3, Thresholds DEF DropsTo, OrderedThresholds
  <2>5. LevelIndex(classifyDirect(h, c)) = up
    BY <2>1, <2>3, DirectIndex, Thresholds DEF OrderedThresholds
  <2> QED BY <1>1, <2>4, <2>5, DirectIndex, NameOfIndex
<1> QED BY <1>3, <1>4

-----------------------------------------------------------------------------
(***************************************************************************)
(* The derived sensor state.                                               *)
(***************************************************************************)

USE DEF RequestOf, NodeOf

-----------------------------------------------------------------------------
(* The rows that deriveSensorState produces.                               *)

\* A configuration that may be saved has a multiplier for every level.
LEMMA ConfigFacts ==
    ASSUME NEW c \in Configs
    PROVE  /\ OrderedThresholds(c)
           /\ c.enabled \in BOOLEAN
           /\ c.staleAfterMinutes \in Nat
           /\ c.referenceDistanceOverrideMm \in Nat \cup {NULL}
           /\ \A level \in FloodRiskLevels : c.multiplier[level] \in 0..One
<1>1. validateSensorDeployment(c)
  BY ConstantsAssumption
<1> QED BY <1>1, ValidIsOrdered DEF validateSensorDeployment

\* A reading without reason codes has a height in millimetres.
LEMMA HeightType ==
    ASSUME NEW c \in Configs, NEW t \in Row, telemetryReasonCodes(c, t) = {}
    PROVE  waterHeight(c, t) \in Nat
<1>1. effectiveReference(c, t) # NULL /\ t.acceptedDistanceMm # NULL
  BY DEF telemetryReasonCodes
<1>2. effectiveReference(c, t) \in Nat /\ t.acceptedDistanceMm \in Nat
  BY <1>1, ConfigFacts DEF effectiveReference, Row, Distances
<1> QED BY <1>2 DEF waterHeight

\* The level, the status and the reasons fit their columns, and a VALID
\* level lies in the band of its height.
LEMMA ClassificationFacts ==
    ASSUME NEW c \in Configs, NEW v \in Nat \ {0}, NEW t \in Row,
           NEW p \in StateRow \cup {NULL}, NEW time \in Nat
    PROVE  LET r == classificationOf(c, v, t, p, time) IN
           /\ r.height \in Nat \cup {NULL}
           /\ r.level \in FloodRiskLevels
           /\ r.status \in {"VALID", "UNKNOWN", "DISABLED"}
           /\ r.reasons \in SUBSET SensorReasonCode
           /\ r.status = "VALID" =>
                /\ c.enabled
                /\ telemetryReasonCodes(c, t) = {}
                /\ r.height = waterHeight(c, t)
                /\ r.level \in ClassifiedLevels
                /\ LevelIndex(classifyDirect(waterHeight(c, t), c))
                     <= LevelIndex(r.level)
                /\ LevelIndex(r.level)
                     <= LevelIndex(classifyDirect(waterHeight(c, t)
                                                  + c.hysteresisMm, c))
<1> DEFINE r == classificationOf(c, v, t, p, time)
           h == waterHeight(c, t)
<1>1. CASE ~c.enabled
  <2>1. r = [height |-> NULL, level |-> "UNKNOWN", status |-> "DISABLED",
             reasons |-> {"DEPLOYMENT_DISABLED"}]
    BY <1>1 DEF classificationOf
  <2> QED BY <2>1 DEF FloodRiskLevels, SensorReasonCode
<1>2. CASE c.enabled /\ telemetryReasonCodes(c, t) # {}
  <2>1. telemetryReasonCodes(c, t) \in SUBSET SensorReasonCode
    BY DEF telemetryReasonCodes, SensorReasonCode
  <2>2. r = [height |-> NULL, level |-> "UNKNOWN", status |-> "UNKNOWN",
             reasons |-> telemetryReasonCodes(c, t)]
    BY <1>2 DEF classificationOf
  <2> QED BY <2>1, <2>2 DEF FloodRiskLevels
<1>3. CASE c.enabled /\ telemetryReasonCodes(c, t) = {}
  <2>1. h \in Nat /\ OrderedThresholds(c) /\ c.hysteresisMm \in Nat
    BY <1>3, HeightType, ConfigFacts DEF OrderedThresholds
  <2>2. CASE canUseHysteresis(p, v, time)
    <3>1. p.classifiedLevel \in ClassifiedLevels
      BY <2>2 DEF canUseHysteresis, StateRow, FloodRiskLevels
    <3>2. r = [height |-> h,
               level |-> classifyWithHysteresis(h, p.classifiedLevel, c),
               status |-> "VALID", reasons |-> {}]
      BY <1>3, <2>2 DEF classificationOf
    <3> HIDE DEF r, h
    <3> QED BY <1>3, <2>1, <3>1, <3>2, HysteresisBand
            DEF FloodRiskLevels, r, h
  <2>3. CASE ~canUseHysteresis(p, v, time)
    <3>1. r = [height |-> h, level |-> classifyDirect(h, c),
               status |-> "VALID", reasons |-> {}]
      BY <1>3, <2>3 DEF classificationOf
    <3>2. /\ classifyDirect(h, c) \in ClassifiedLevels
          /\ LevelIndex(classifyDirect(h, c))
               <= LevelIndex(classifyDirect(h + c.hysteresisMm, c))
      BY <2>1, DirectIndex DEF OrderedThresholds
    <3>3. LevelIndex(classifyDirect(h, c)) \in 0..3
      BY <2>1, DirectIndex
    <3> QED BY <1>3, <2>1, <3>1, <3>2, <3>3 DEF FloodRiskLevels
  <2> QED BY <2>2, <2>3
<1> QED BY <1>1, <1>2, <1>3, ConfigFacts

\* deriveSensorState fills every column of iot_sensor_state.
LEMMA DeriveFromType ==
    ASSUME NEW c \in Configs, NEW v \in Nat \ {0}, NEW t \in Row, NEW id \in Nat,
           NEW p \in StateRow \cup {NULL}, NEW time \in Nat
    PROVE  deriveFromTelemetry(c, v, t, id, p, time) \in StateRow
<1> DEFINE r == classificationOf(c, v, t, p, time)
           o == selectObservationTime(t)
<1>1. o.observedAt \in Nat /\ o.source \in {"GATEWAY", "SERVER"}
  BY DEF selectObservationTime, Row
<1>2. /\ r.height \in Nat \cup {NULL}
      /\ r.level \in FloodRiskLevels
      /\ r.status \in {"VALID", "UNKNOWN", "DISABLED"}
      /\ r.reasons \in SUBSET SensorReasonCode
  BY ClassificationFacts
<1>3. multiplierForLevel(c, r.level) \in 0..One
  BY <1>2, ConfigFacts DEF multiplierForLevel
<1>4. o.observedAt + c.staleAfterMinutes \in Nat
  BY <1>1, ConfigFacts
<1> HIDE DEF r, o
<1> QED BY <1>1, <1>2, <1>3, <1>4 DEF deriveFromTelemetry, StateRow, r, o

\* So does the state of a Node that was never heard.
LEMMA DeriveWithoutType ==
    ASSUME NEW c \in Configs, NEW v \in Nat \ {0}
    PROVE  deriveWithoutTelemetry(c, v) \in StateRow
<1>1. c.multiplier["UNKNOWN"] \in 0..One
  BY ConfigFacts DEF FloodRiskLevels
<1> QED BY <1>1
        DEF deriveWithoutTelemetry, unknownState, StateRow, FloodRiskLevels,
            SensorReasonCode

-----------------------------------------------------------------------------
(* The latest reading among the first rows.                                *)

\* Appending a row does not change which of the first m rows is the latest.
LEMMA LatestKept ==
    ASSUME NEW rows \in Seq(Row), NEW row \in Row,
           NEW m \in 0..Len(rows), NEW id, LatestOf(rows, m, id)
    PROVE  LatestOf(Append(rows, row), m, id)
<1>1. \A i \in 1..m : Append(rows, row)[i] = rows[i]
  OBVIOUS
<1>2. ASSUME IsLatest(rows, m, id)
      PROVE  IsLatest(Append(rows, row), m, id)
  <2>1. id \in 1..m
    BY <1>2 DEF IsLatest
  <2>2. \A i \in 1..m : LatestInSession(rows, m, i)
                          <=> LatestInSession(Append(rows, row), m, i)
    BY <1>1 DEF LatestInSession
  <2>3. \A j \in 1..m : OrderedBefore(rows, id, j)
                          <=> OrderedBefore(Append(rows, row), id, j)
    BY <1>1, <2>1 DEF OrderedBefore
  <2> QED BY <1>2, <2>1, <2>2, <2>3 DEF IsLatest
<1> QED BY <1>2 DEF LatestOf

\* The latest reading is one of the rows.
LEMMA LatestIsRow ==
    ASSUME NEW rows, NEW m \in Nat, NEW id, LatestOf(rows, m, id)
    PROVE  (id = NULL /\ m = 0) \/ id \in 1..m
BY DEF LatestOf, IsLatest

\* A batch row is a row of the table.
LEMMA RowType ==
    ASSUME NEW reading \in Readings, NEW at \in Nat
    PROVE  RowOf(reading, at) \in Row
BY ConstantsAssumption DEF RowOf, Row, Reading, Distances

-----------------------------------------------------------------------------
\* The inductive invariant, which implies TypeOK and StateMatchesConfig.
IndInv == TypeOK /\ LockInv /\ TaskInv /\ CoveredInv /\ StateMatchesConfig

\* The initial states satisfy the inductive invariant.
LEMMA InitInd == Init => IndInv
<1> SUFFICES ASSUME Init PROVE IndInv
  OBVIOUS
<1>1. state \in [Nodes -> StateRow \cup {NULL}]
  <2> SUFFICES ASSUME NEW n \in Nodes, InitialDeployments[n] # NULL
               PROVE  deriveWithoutTelemetry(InitialDeployments[n].config,
                                             InitialDeployments[n].version)
                        \in StateRow
    BY DEF Init
  <2> QED BY ConstantsAssumption, DeriveWithoutType DEF Deployment
<1>2. TypeOK
  <2>1. telemetry \in [Nodes -> Seq(Row)]
    BY DEF Init
  <2>2. clock \in Nat /\ deployments \in [Nodes -> Deployment \cup {NULL}]
    BY ConstantsAssumption DEF Init, Deployment
  <2> QED BY <1>1, <2>1, <2>2 DEF Init, TypeOK
<1>3. LockInv
  BY ConstantsAssumption DEF Init, LockInv, InTransaction, Tasks
<1>4. TaskInv
  BY DEF Init, TaskInv, InTransaction
<1>5. ASSUME NEW n \in Nodes, state[n] # NULL
      PROVE  /\ InitialDeployments[n] # NULL
             /\ state[n].telemetryId = NULL
             /\ state[n].classificationConfigVersion = deployments[n].version
  BY <1>5 DEF Init, deriveWithoutTelemetry, unknownState
<1>6. CoveredInv
  BY <1>5 DEF Init, CoveredInv, LatestOf
<1>7. ASSUME NEW n \in Nodes, InitialDeployments[n] # NULL
      PROVE  state[n] # NULL
  BY <1>7, ConstantsAssumption, DeriveWithoutType DEF Init, Deployment
<1> QED BY <1>2, <1>3, <1>4, <1>5, <1>6, <1>7 DEF IndInv, StateMatchesConfig, Init

-----------------------------------------------------------------------------
(* Every step keeps the inductive invariant: one lemma per kind of step.   *)

\* A request of n that is asked for was idle before, so it is not in a
\* transaction after: used by the three ways a request arrives.
LEMMA AskedTypes ==
    ASSUME TypeOK, NEW T \in SUBSET Tasks, NEW k \in {"ingest", "upsert", "recompute"},
           Asked(T, k)
    PROVE  /\ pc' \in [Tasks -> {"idle", "requested", "locked", "stateFound",
                                  "telemetryFound"}]
           /\ kind' \in [Tasks -> {"none", "ingest", "upsert", "recompute"}]
           /\ since' \in [Tasks -> Nat]
           /\ now' = now /\ dep' = dep /\ prev' = prev
           /\ latest' = latest /\ seen' = seen
BY DEF TypeOK, Asked

\* A stored batch keeps the inductive invariant: rows are only appended.
LEMMA IngestStep ==
    ASSUME IndInv, NEW r \in Requests, NEW batch \in Batches,
           NEW at \in 0..clock, Ingest(r, batch, at)
    PROVE  IndInv'
<1> DEFINE T == {<<r, n>> : n \in Inserted(batch)}
<1> USE DEF IndInv
<1>1. T \in SUBSET Tasks /\ Asked(T, "ingest")
  BY DEF Ingest, Inserted, Tasks
<1>2. \A t \in T : pc[t] = "idle"
  BY DEF Ingest, Idle, Inserted
<1>3. ASSUME NEW n \in Nodes
      PROVE  /\ telemetry'[n] \in Seq(Row)
             /\ Len(telemetry[n]) <= Len(telemetry'[n])
             /\ \A m \in 0..Len(telemetry[n]) : \A id :
                  LatestOf(telemetry[n], m, id) => LatestOf(telemetry'[n], m, id)
  <2>1. CASE n \in Inserted(batch)
    <3>1. batch[n] \in Readings /\ at \in Nat
      BY <2>1 DEF Inserted, Batches, TypeOK
    <3>2. RowOf(batch[n], at) \in Row
      BY <3>1, RowType
    <3>3. telemetry[n] \in Seq(Row) /\ telemetry'[n] = Append(telemetry[n], RowOf(batch[n], at))
      BY <2>1 DEF Ingest, TypeOK
    <3> QED BY <3>2, <3>3, LatestKept
  <2>2. CASE n \notin Inserted(batch)
    <3>1. telemetry'[n] = telemetry[n] /\ telemetry[n] \in Seq(Row)
      BY <2>2 DEF Ingest, TypeOK
    <3> QED BY <3>1
  <2> QED BY <2>1, <2>2
<1>4. telemetry' \in [Nodes -> Seq(Row)]
  BY <1>3 DEF Ingest
<1>5. /\ clock' = clock /\ deployments' = deployments /\ state' = state
      /\ lock' = lock /\ covered' = covered /\ owed' = owed
  BY DEF Ingest
<1>6. TypeOK'
  BY <1>1, <1>4, <1>5, AskedTypes DEF TypeOK
<1>7. \A t \in Tasks :
         /\ InTransaction(t)' <=> InTransaction(t)
         /\ InTransaction(t) => pc'[t] = pc[t] /\ kind'[t] = kind[t]
  BY <1>1, <1>2 DEF Asked, InTransaction
<1>8. LockInv'
  BY <1>5, <1>7 DEF LockInv, InTransaction
<1>9. TaskInv'
  <2> SUFFICES ASSUME NEW t \in Tasks, InTransaction(t)
               PROVE  TaskInv!(t)'
    BY <1>7 DEF TaskInv, InTransaction
  <2>1. NodeOf(t) \in Nodes
    BY DEF Tasks
  <2>2. pc'[t] = pc[t] /\ kind'[t] = kind[t] /\ dep' = dep /\ prev' = prev
        /\ latest' = latest /\ seen' = seen
    BY <1>1, <1>7, AskedTypes
  <2>3. seen[t] \in Nat /\ Len(telemetry[t[2]]) \in Nat
    BY <2>1 DEF TypeOK
  <2>4. pc[t] = "telemetryFound" =>
           /\ seen[t] <= Len(telemetry'[t[2]])
           /\ LatestOf(telemetry'[t[2]], seen[t], latest[t])
    BY <1>3, <1>4, <2>1, <2>3 DEF TaskInv, TypeOK
  <2> QED BY <1>5, <1>7, <2>2, <2>4 DEF TaskInv, InTransaction
<1>10. CoveredInv'
  <2> SUFFICES ASSUME NEW n \in Nodes PROVE CoveredInv!(n)'
    BY DEF CoveredInv
  <2>1. covered[n] \in Nat /\ owed[n] \in Nat /\ Len(telemetry[n]) \in Nat
        /\ Len(telemetry'[n]) \in Nat
    BY <1>3 DEF TypeOK
  <2>2. covered[n] \in 0..Len(telemetry[n]) /\ owed[n] <= Len(telemetry[n])
    BY <2>1 DEF CoveredInv
  <2>3. state[n] # NULL =>
           LatestOf(telemetry'[n], covered[n], state[n].telemetryId)
    BY <1>3, <2>2 DEF CoveredInv
  <2>4. covered[n] <= Len(telemetry'[n]) /\ owed[n] <= Len(telemetry'[n])
    BY <1>3, <2>1, <2>2
  <2> QED BY <1>5, <2>3, <2>4
<1>11. StateMatchesConfig'
  BY <1>5 DEF StateMatchesConfig
<1> QED BY <1>6, <1>8, <1>9, <1>10, <1>11

\* A request that starts one task keeps the inductive invariant.
LEMMA AskStep ==
    ASSUME IndInv, NEW r \in Requests, NEW n \in Nodes,
           AskUpsert(r, n) \/ AskRecompute(r, n)
    PROVE  IndInv'
<1> USE DEF IndInv
<1>1. PICK k \in {"upsert", "recompute"} : Asked({<<r, n>>}, k)
  BY DEF AskUpsert, AskRecompute
<1>2. {<<r, n>>} \in SUBSET Tasks /\ pc[<<r, n>>] = "idle"
  BY DEF AskUpsert, AskRecompute, Idle, Tasks
<1>3. /\ clock' = clock /\ telemetry' = telemetry /\ deployments' = deployments
      /\ state' = state /\ lock' = lock /\ covered' = covered /\ owed' = owed
  BY DEF AskUpsert, AskRecompute, database
<1>4. TypeOK'
  BY <1>1, <1>2, <1>3, AskedTypes DEF TypeOK
<1>5. /\ \A t \in Tasks :
            /\ InTransaction(t)' <=> InTransaction(t)
            /\ InTransaction(t) => pc'[t] = pc[t] /\ kind'[t] = kind[t]
      /\ dep' = dep /\ prev' = prev /\ latest' = latest /\ seen' = seen
  BY <1>1, <1>2 DEF Asked, InTransaction
<1>6. LockInv'
  BY <1>3, <1>5 DEF LockInv, InTransaction
<1>7. TaskInv'
  BY <1>3, <1>5 DEF TaskInv, InTransaction
<1>8. CoveredInv' /\ StateMatchesConfig'
  BY <1>3 DEF CoveredInv, StateMatchesConfig
<1> QED BY <1>4, <1>6, <1>7, <1>8

\* The row INSERT ... ON CONFLICT DO UPDATE returns follows the existing one.
LEMMA UpsertedFacts ==
    ASSUME NEW e \in Deployment \cup {NULL}, NEW c \in Configs
    PROVE  /\ UpsertedRow(e, c) \in Deployment
           /\ e # NULL => /\ UpsertedRow(e, c).version >= e.version
                          /\ UpsertedRow(e, c).version = e.version
                               => UpsertedRow(e, c) = e
BY DEF UpsertedRow, Deployment

\* Taking the deployment row keeps the inductive invariant: it was free.
LEMMA AcquireStep ==
    ASSUME IndInv, NEW t \in Tasks, Acquire(t)
    PROVE  IndInv'
<1> USE DEF IndInv
<1> DEFINE n == NodeOf(t)
<1>1. n \in Nodes
  BY DEF Tasks
<1> DEFINE Acquired(row, time) ==
             /\ Locked(t, row, time)
             /\ pc[t] = "requested"
             /\ row \in Deployment
             /\ kind[t] # "upsert" => row = deployments[n]
             /\ deployments[n] # NULL =>
                   /\ row.version >= deployments[n].version
                   /\ row.version = deployments[n].version => row = deployments[n]
<1>2. PICK time \in 0..clock : \E row \in Deployment : Acquired(row, time)
  <2>1. deployments[n] \in Deployment \cup {NULL}
    BY <1>1 DEF TypeOK
  <2>2. ASSUME NEW c \in Configs, NEW time \in 0..clock,
               upsertDeployment(t, c, time)
        PROVE  Acquired(UpsertedRow(deployments[n], c), time)
    BY <2>1, <2>2, UpsertedFacts DEF upsertDeployment
  <2>3. ASSUME NEW time \in 0..clock, findDeploymentForUpdate(t, time)
        PROVE  Acquired(deployments[n], time)
    BY <2>1, <2>3 DEF findDeploymentForUpdate, Deployment
  <2> QED BY <2>2, <2>3 DEF Acquire
<1>9. PICK row \in Deployment : Acquired(row, time)
  BY <1>2
<1>3. lock[n] = NULL
  BY <1>9 DEF Locked
<1>4. TypeOK'
  BY <1>1, <1>9 DEF TypeOK, Locked
<1>5. \A u \in Tasks : NodeOf(u) = n => ~InTransaction(u)
  BY <1>3, ConstantsAssumption DEF LockInv
<1>6. LockInv'
  <2>1. lock' = [lock EXCEPT ![n] = t] /\ pc' = [pc EXCEPT ![t] = "locked"]
    BY <1>9 DEF Locked
  <2> QED BY <1>1, <1>5, <2>1 DEF LockInv, InTransaction, TypeOK
<1>7. TaskInv'
  <2> SUFFICES ASSUME NEW u \in Tasks PROVE TaskInv!(u)'
    BY DEF TaskInv
  <2>1. CASE u = t
    BY <1>1, <1>9, <2>1 DEF Locked, InTransaction, TypeOK
  <2>2. CASE u # t
    BY <1>9, <2>2 DEF Locked, TaskInv, InTransaction, TypeOK
  <2> QED BY <2>1, <2>2
<1>8. CoveredInv' /\ StateMatchesConfig'
  BY <1>9 DEF Locked, CoveredInv, StateMatchesConfig
<1> QED BY <1>4, <1>6, <1>7, <1>8

\* A task that ends without a transaction of its own.
LEMMA NoDeploymentStep ==
    ASSUME IndInv, NEW t \in Tasks, NoDeployment(t)
    PROVE  IndInv'
<1> USE DEF IndInv
<1>1. /\ clock' = clock /\ telemetry' = telemetry /\ deployments' = deployments
      /\ state' = state /\ lock' = lock /\ covered' = covered /\ owed' = owed
  BY DEF NoDeployment, database
<1>2. TypeOK'
  BY <1>1 DEF TypeOK, NoDeployment, Finish
<1>3. LockInv'
  BY <1>1 DEF LockInv, NoDeployment, Finish, InTransaction, TypeOK
<1>4. TaskInv'
  <2> SUFFICES ASSUME NEW u \in Tasks PROVE TaskInv!(u)'
    BY DEF TaskInv
  <2>1. CASE u = t
    BY <2>1 DEF NoDeployment, Finish, InTransaction, TypeOK
  <2>2. CASE u # t
    BY <1>1, <2>2 DEF NoDeployment, Finish, InTransaction, TypeOK, TaskInv
  <2> QED BY <2>1, <2>2
<1>5. CoveredInv' /\ StateMatchesConfig'
  BY <1>1 DEF CoveredInv, StateMatchesConfig
<1> QED BY <1>2, <1>3, <1>4, <1>5

\* Reading the previous state keeps the inductive invariant.
LEMMA FindStateStep ==
    ASSUME IndInv, NEW t \in Tasks, findStateForUpdate(t)
    PROVE  IndInv'
<1> USE DEF IndInv
<1>1. /\ clock' = clock /\ telemetry' = telemetry /\ deployments' = deployments
      /\ state' = state /\ lock' = lock /\ covered' = covered /\ owed' = owed
  BY DEF findStateForUpdate, database
<1>2. state[NodeOf(t)] \in StateRow \cup {NULL}
  BY DEF Tasks, TypeOK
<1>3. TypeOK'
  BY <1>1, <1>2 DEF TypeOK, findStateForUpdate
<1>4. LockInv'
  BY <1>1 DEF LockInv, findStateForUpdate, InTransaction, TypeOK
<1>5. TaskInv'
  <2> SUFFICES ASSUME NEW u \in Tasks PROVE TaskInv!(u)'
    BY DEF TaskInv
  <2>1. CASE u = t
    BY <1>1, <2>1 DEF findStateForUpdate, InTransaction, TypeOK, TaskInv
  <2>2. CASE u # t
    BY <1>1, <2>2 DEF findStateForUpdate, InTransaction, TypeOK, TaskInv
  <2> QED BY <2>1, <2>2
<1>6. CoveredInv' /\ StateMatchesConfig'
  BY <1>1 DEF CoveredInv, StateMatchesConfig
<1> QED BY <1>3, <1>4, <1>5, <1>6

\* Choosing the latest reading keeps the inductive invariant.
LEMMA FindLatestStep ==
    ASSUME IndInv, NEW t \in Tasks,
           NEW row \in DOMAIN telemetry[NodeOf(t)] \cup {NULL},
           findLatestTelemetry(t, row)
    PROVE  IndInv'
<1> USE DEF IndInv
<1> DEFINE n == NodeOf(t)
<1>1. /\ clock' = clock /\ telemetry' = telemetry /\ deployments' = deployments
      /\ state' = state /\ lock' = lock /\ covered' = covered /\ owed' = owed
  BY DEF findLatestTelemetry, database
<1>2. n \in Nodes /\ telemetry[n] \in Seq(Row) /\ Len(telemetry[n]) \in Nat
  BY DEF Tasks, TypeOK
<1>3. row \in Nat \cup {NULL}
  BY <1>2
<1>4. LatestOf(telemetry[n], Len(telemetry[n]), row)
  BY <1>2 DEF findLatestTelemetry, LatestOf
<1>5. TypeOK'
  BY <1>1, <1>2, <1>3 DEF TypeOK, findLatestTelemetry
<1>6. LockInv'
  BY <1>1 DEF LockInv, findLatestTelemetry, InTransaction, TypeOK
<1>7. TaskInv'
  <2> SUFFICES ASSUME NEW u \in Tasks PROVE TaskInv!(u)'
    BY DEF TaskInv
  <2>1. CASE u = t
    <3>1. /\ pc[t] = "stateFound" /\ pc'[t] = "telemetryFound"
          /\ seen'[t] = Len(telemetry[n]) /\ latest'[t] = row
          /\ dep' = dep /\ prev' = prev /\ kind' = kind
      BY DEF findLatestTelemetry, TypeOK
    <3>2. covered[n] <= Len(telemetry[n])
      BY <1>2 DEF CoveredInv
    <3> QED BY <1>1, <1>2, <1>4, <2>1, <3>1, <3>2 DEF InTransaction, TaskInv
  <2>2. CASE u # t
    BY <1>1, <2>2 DEF findLatestTelemetry, InTransaction, TypeOK, TaskInv
  <2> QED BY <2>1, <2>2
<1>8. CoveredInv' /\ StateMatchesConfig'
  BY <1>1 DEF CoveredInv, StateMatchesConfig
<1> QED BY <1>5, <1>6, <1>7, <1>8

\* What a transaction is about to write.
LEMMA DeriveFacts ==
    ASSUME IndInv, NEW t \in Tasks, pc[t] = "telemetryFound"
    PROVE  /\ dep[t] \in Deployment
           /\ deriveSensorState(t) \in StateRow
           /\ deriveSensorState(t).telemetryId = latest[t]
           /\ deriveSensorState(t).classificationConfigVersion = dep[t].version
<1> USE DEF IndInv
<1> DEFINE n == NodeOf(t)
<1>1. n \in Nodes /\ telemetry[n] \in Seq(Row)
  BY DEF Tasks, TypeOK
<1>2. dep[t] \in Deployment
  BY DEF TaskInv, InTransaction
<1>3. dep[t].config \in Configs /\ dep[t].version \in Nat \ {0}
  BY <1>2 DEF Deployment
<1>4. CASE latest[t] = NULL
  <2>1. deriveSensorState(t)
          = deriveWithoutTelemetry(dep[t].config, dep[t].version)
    BY <1>4 DEF deriveSensorState
  <2>2. deriveSensorState(t) \in StateRow
    BY <1>3, <2>1, DeriveWithoutType
  <2> QED BY <1>2, <1>4, <2>1, <2>2 DEF deriveWithoutTelemetry, unknownState
<1>5. CASE latest[t] # NULL
  <2>1. latest[t] \in 1..Len(telemetry[n])
    <3>1. seen[t] \in Nat /\ seen[t] <= Len(telemetry[n])
          /\ LatestOf(telemetry[n], seen[t], latest[t])
      BY DEF TaskInv, TypeOK
    <3>2. latest[t] \in 1..seen[t]
      BY <1>5, <3>1, LatestIsRow
    <3> QED BY <1>1, <3>1, <3>2
  <2>2. telemetry[n][latest[t]] \in Row /\ latest[t] \in Nat
    BY <1>1, <2>1
  <2>3. prev[t] \in StateRow \cup {NULL} /\ now[t] \in Nat
    BY DEF TypeOK
  <2>4. deriveSensorState(t)
          = deriveFromTelemetry(dep[t].config, dep[t].version,
                                telemetry[n][latest[t]], latest[t],
                                prev[t], now[t])
    BY <1>5 DEF deriveSensorState
  <2>5. deriveSensorState(t) \in StateRow
    <3>1. deriveFromTelemetry(dep[t].config, dep[t].version,
                              telemetry[n][latest[t]], latest[t],
                              prev[t], now[t]) \in StateRow
      BY <1>3, <2>2, <2>3, DeriveFromType, Zenon
    <3> QED BY <2>4, <3>1
  <2> QED BY <1>2, <2>4, <2>5 DEF deriveFromTelemetry
<1> QED BY <1>4, <1>5

\* After a COMMIT the deployment row is the one of the task's transaction:
\* a save has written it, any other task has read it under the lock.
LEMMA CommitKeepsRow ==
    ASSUME IndInv, NEW t \in Tasks, Commit(t)
    PROVE  deployments' = [deployments EXCEPT ![NodeOf(t)] = dep[t]]
<1>1. CASE kind[t] = "upsert"
  BY <1>1 DEF Commit
<1>2. CASE kind[t] # "upsert"
  <2>1. dep[t] = deployments[NodeOf(t)]
    BY <1>2 DEF Commit, IndInv, TaskInv, InTransaction
  <2>2. deployments' = deployments
    BY <1>2 DEF Commit
  <2> QED BY <2>1, <2>2 DEF IndInv, TypeOK
<1> QED BY <1>1, <1>2

\* COMMIT keeps the inductive invariant: it writes what the task has read.
LEMMA CommitStep ==
    ASSUME IndInv, NEW t \in Tasks, Commit(t)
    PROVE  IndInv'
<1> USE DEF IndInv
<1> DEFINE n == NodeOf(t)
<1>1. n \in Nodes /\ pc[t] = "telemetryFound"
  BY DEF Tasks, Commit
<1>2. /\ dep[t] \in Deployment
      /\ deriveSensorState(t) \in StateRow
      /\ deriveSensorState(t).telemetryId = latest[t]
      /\ deriveSensorState(t).classificationConfigVersion = dep[t].version
  BY <1>1, DeriveFacts
<1>3. /\ clock' = clock /\ telemetry' = telemetry
      /\ state' = [state EXCEPT ![n] = deriveSensorState(t)]
      /\ deployments' = [deployments EXCEPT ![n] = dep[t]]
      /\ lock' = [lock EXCEPT ![n] = NULL]
      /\ covered' = [covered EXCEPT ![n] = seen[t]]
      /\ owed' = [owed EXCEPT ![n] = IF seen[t] >= owed[n] THEN 0 ELSE owed[n]]
      /\ Finish(t)
  BY CommitKeepsRow DEF Commit
<1>4. TypeOK'
  <2>1. state' \in [Nodes -> StateRow \cup {NULL}]
        /\ deployments' \in [Nodes -> Deployment \cup {NULL}]
    BY <1>2, <1>3 DEF TypeOK
  <2>2. covered' \in [Nodes -> Nat] /\ owed' \in [Nodes -> Nat]
        /\ lock' \in [Nodes -> Tasks \cup {NULL}]
    BY <1>3 DEF TypeOK
  <2> QED BY <1>3, <2>1, <2>2 DEF TypeOK, Finish
<1>5. lock[n] = t /\ \A u \in Tasks : u # t /\ NodeOf(u) = n => ~InTransaction(u)
  BY <1>1 DEF LockInv, InTransaction
<1>6. LockInv'
  BY <1>1, <1>3, <1>5, ConstantsAssumption
     DEF LockInv, Finish, InTransaction, TypeOK
<1>7. TaskInv'
  <2> SUFFICES ASSUME NEW u \in Tasks, u # t, InTransaction(u)
               PROVE  TaskInv!(u)'
    BY <1>3 DEF TaskInv, InTransaction, Finish, TypeOK
  <2>1. NodeOf(u) # n
    BY <1>5
  <2>2. /\ state'[NodeOf(u)] = state[NodeOf(u)]
        /\ deployments'[NodeOf(u)] = deployments[NodeOf(u)]
        /\ covered'[NodeOf(u)] = covered[NodeOf(u)]
    BY <1>3, <2>1 DEF TypeOK, Tasks
  <2>3. /\ pc'[u] = pc[u] /\ kind'[u] = kind[u] /\ dep'[u] = dep[u]
        /\ prev'[u] = prev[u] /\ latest'[u] = latest[u] /\ seen'[u] = seen[u]
    BY <1>3 DEF TypeOK, Finish
  <2> QED BY <1>3, <2>2, <2>3 DEF TaskInv, InTransaction
<1>8. CoveredInv'
  <2> SUFFICES ASSUME NEW m \in Nodes PROVE CoveredInv!(m)'
    BY DEF CoveredInv
  <2>1. CASE m = n
    <3>1. /\ seen[t] \in Nat /\ seen[t] <= Len(telemetry[n])
          /\ LatestOf(telemetry[n], seen[t], latest[t])
          /\ owed[n] <= Len(telemetry[n]) /\ Len(telemetry[n]) \in Nat
      BY <1>1 DEF TaskInv, TypeOK, CoveredInv
    <3>2. /\ state'[n] = deriveSensorState(t) /\ covered'[n] = seen[t]
          /\ owed'[n] \in {0, owed[n]}
      BY <1>1, <1>3 DEF TypeOK
    <3> QED BY <1>2, <1>3, <2>1, <3>1, <3>2
  <2>2. CASE m # n
    BY <1>3, <2>2 DEF CoveredInv, TypeOK
  <2> QED BY <2>1, <2>2
<1>9. StateMatchesConfig'
  <2> SUFFICES ASSUME NEW m \in Nodes PROVE StateMatchesConfig!(m)'
    BY DEF StateMatchesConfig
  <2>1. CASE m = n
    BY <1>1, <1>2, <1>3, <2>1, ConstantsAssumption DEF TypeOK
  <2>2. CASE m # n
    BY <1>3, <2>2 DEF StateMatchesConfig, TypeOK
  <2> QED BY <2>1, <2>2
<1> QED BY <1>4, <1>6, <1>7, <1>8, <1>9

\* ROLLBACK keeps the inductive invariant: it only frees the row.
LEMMA AbortStep ==
    ASSUME IndInv, NEW t \in Tasks, Abort(t)
    PROVE  IndInv'
<1> USE DEF IndInv
<1> DEFINE n == NodeOf(t)
<1>1. n \in Nodes /\ Len(telemetry[n]) \in Nat
  BY DEF Tasks, TypeOK
<1>2. /\ clock' = clock /\ telemetry' = telemetry /\ state' = state
      /\ deployments' = deployments /\ covered' = covered
      /\ lock' = [lock EXCEPT ![n] = IF @ = t THEN NULL ELSE @]
      /\ owed' = [owed EXCEPT ![n] =
                    IF kind[t] = "ingest" THEN Len(telemetry[n]) ELSE @]
      /\ Finish(t)
  BY DEF Abort
<1>3. TypeOK'
  <2>1. owed' \in [Nodes -> Nat] /\ lock' \in [Nodes -> Tasks \cup {NULL}]
    BY <1>1, <1>2 DEF TypeOK
  <2> QED BY <1>2, <2>1 DEF TypeOK, Finish
<1>4. LockInv'
  <2>1. ASSUME NEW m \in Nodes, lock'[m] # NULL
        PROVE  lock'[m] = lock[m] /\ lock[m] # t
    BY <1>1, <1>2, <2>1 DEF TypeOK, LockInv
  <2>2. ASSUME NEW u \in Tasks
        PROVE  InTransaction(u)' <=> lock'[NodeOf(u)] = u
    <3>1. CASE u = t
      BY <1>1, <1>2, <3>1, ConstantsAssumption DEF TypeOK, Finish, InTransaction
    <3>2. CASE u # t
      BY <1>1, <1>2, <3>2, ConstantsAssumption
         DEF TypeOK, Finish, InTransaction, LockInv, Tasks
    <3> QED BY <3>1, <3>2
  <2> QED BY <2>1, <2>2 DEF LockInv
<1>5. TaskInv'
  <2> SUFFICES ASSUME NEW u \in Tasks PROVE TaskInv!(u)'
    BY DEF TaskInv
  <2>1. CASE u = t
    BY <1>2, <2>1 DEF Finish, InTransaction, TypeOK
  <2>2. CASE u # t
    BY <1>2, <2>2 DEF Finish, InTransaction, TypeOK, TaskInv
  <2> QED BY <2>1, <2>2
<1>6. CoveredInv'
  BY <1>1, <1>2 DEF CoveredInv, TypeOK
<1>7. StateMatchesConfig'
  BY <1>2 DEF StateMatchesConfig
<1> QED BY <1>3, <1>4, <1>5, <1>6, <1>7

\* The clock does not touch the inductive invariant.
LEMMA TickStep ==
    ASSUME IndInv, Tick \/ UNCHANGED vars
    PROVE  IndInv'
<1> USE DEF IndInv
<1>1. /\ telemetry' = telemetry /\ deployments' = deployments /\ state' = state
      /\ lock' = lock /\ covered' = covered /\ owed' = owed
      /\ pc' = pc /\ kind' = kind /\ since' = since /\ now' = now /\ dep' = dep
      /\ prev' = prev /\ latest' = latest /\ seen' = seen
  BY DEF Tick, vars, database, tasks
<1>2. clock' \in Nat
  BY DEF Tick, vars, TypeOK
<1>3. TypeOK'
  BY <1>1, <1>2 DEF TypeOK
<1>4. LockInv'
  BY <1>1 DEF LockInv, InTransaction
<1>5. TaskInv'
  BY <1>1 DEF TaskInv, InTransaction
<1>6. CoveredInv' /\ StateMatchesConfig'
  BY <1>1 DEF CoveredInv, StateMatchesConfig
<1> QED BY <1>3, <1>4, <1>5, <1>6

\* Every step of the specification keeps the inductive invariant.
LEMMA NextInd == IndInv /\ [Next]_vars => IndInv'
<1> SUFFICES ASSUME IndInv, [Next]_vars PROVE IndInv'
  OBVIOUS
<1>1. CASE Tick \/ UNCHANGED vars
  BY <1>1, TickStep
<1>2. ASSUME NEW r \in Requests, Arrive(r) PROVE IndInv'
  BY <1>2, IngestStep, AskStep DEF Arrive
<1>3. ASSUME NEW t \in Tasks, Step(t) PROVE IndInv'
  BY <1>3, NoDeploymentStep, FindStateStep, FindLatestStep, CommitStep DEF Step
<1> QED BY <1>1, <1>2, <1>3, AcquireStep, AbortStep DEF Next

\* Every reachable state satisfies the inductive invariant.
THEOREM Inductive == Spec => []IndInv
<1> QED BY InitInd, NextInd, PTL DEF Spec

\* The tables and the tasks keep their types.
THEOREM TypeCorrect == Spec => []TypeOK
<1>1. IndInv => TypeOK
  BY DEF IndInv
<1> QED BY <1>1, Inductive, PTL

\* Readers never meet a deployment without its state, nor a state classified
\* under another version of the configuration.
THEOREM StateAlwaysMatchesConfig == Spec => []StateMatchesConfig
<1>1. IndInv => StateMatchesConfig
  BY DEF IndInv
<1> QED BY <1>1, Inductive, PTL

-----------------------------------------------------------------------------
(* What a step may change.                                                 *)

\* Telemetry is only ever appended to.
LEMMA TelemetryGrows ==
    ASSUME IndInv, [Next]_vars, NEW n \in Nodes
    PROVE  /\ telemetry[n] \in Seq(Row) /\ telemetry'[n] \in Seq(Row)
           /\ Len(telemetry[n]) <= Len(telemetry'[n])
           /\ \A i \in 1..Len(telemetry[n]) : telemetry'[n][i] = telemetry[n][i]
<1>1. telemetry[n] \in Seq(Row) /\ telemetry'[n] \in Seq(Row)
  <2>1. TypeOK /\ TypeOK'
    BY NextInd DEF IndInv
  <2> QED BY <2>1 DEF TypeOK
<1>2. telemetry' = telemetry
      \/ \E r \in Requests, batch \in Batches, at \in 0..clock : Ingest(r, batch, at)
  BY DEF Next, Arrive, Acquire, Step, Tick, AskUpsert, AskRecompute, Locked,
         upsertDeployment, findDeploymentForUpdate, NoDeployment,
         findStateForUpdate, findLatestTelemetry, Commit, Abort, vars, database
<1>3. CASE telemetry' = telemetry
  BY <1>1, <1>3
<1>4. ASSUME NEW r \in Requests, NEW batch \in Batches, NEW at \in 0..clock,
             Ingest(r, batch, at)
      PROVE  telemetry'[n] = telemetry[n]
             \/ \E row : telemetry'[n] = Append(telemetry[n], row)
  BY <1>4 DEF Ingest
<1> QED BY <1>1, <1>2, <1>3, <1>4

\* Deployments and states are only written by a COMMIT.
LEMMA OnlyCommitWrites ==
    ASSUME IndInv, [Next]_vars, NEW n \in Nodes
    PROVE  \/ state'[n] = state[n] /\ deployments'[n] = deployments[n]
           \/ \E t \in Tasks : NodeOf(t) = n /\ Commit(t)
<1>1. \/ state' = state /\ deployments' = deployments
      \/ \E t \in Tasks : Commit(t)
  BY DEF Next, Arrive, Acquire, Step, Tick, AskUpsert, AskRecompute, Locked,
         upsertDeployment, findDeploymentForUpdate, NoDeployment, Ingest,
         findStateForUpdate, findLatestTelemetry, Abort, vars, database
<1>2. ASSUME NEW t \in Tasks, Commit(t), NodeOf(t) # n
      PROVE  state'[n] = state[n] /\ deployments'[n] = deployments[n]
  <2>1. deployments' = [deployments EXCEPT ![NodeOf(t)] = dep[t]]
    BY <1>2, CommitKeepsRow
  <2> QED BY <1>2, <2>1 DEF Commit, IndInv, TypeOK
<1> QED BY <1>1, <1>2

\* What a COMMIT writes, in terms of what is stored before it.
LEMMA CommitFacts ==
    ASSUME IndInv, NEW t \in Tasks, Commit(t), NEW n \in Nodes, NodeOf(t) = n
    PROVE  /\ telemetry' = telemetry
           /\ state'[n] = deriveSensorState(t)
           /\ state'[n].telemetryId = latest[t]
           /\ deployments'[n] = dep[t] /\ dep[t] \in Deployment
           /\ prev[t] = state[n]
           /\ covered'[n] = seen[t]
           /\ covered[n] <= seen[t] /\ seen[t] <= Len(telemetry[n])
           /\ LatestOf(telemetry[n], seen[t], latest[t])
           /\ deployments[n] # NULL =>
                 /\ dep[t].version >= deployments[n].version
                 /\ dep[t].version = deployments[n].version =>
                       dep[t] = deployments[n]
<1>1. pc[t] = "telemetryFound"
  BY DEF Commit
<1>2. deriveSensorState(t).telemetryId = latest[t]
  BY <1>1, DeriveFacts
<1>3. /\ telemetry' = telemetry
      /\ state'[n] = deriveSensorState(t)
      /\ deployments'[n] = dep[t]
      /\ covered'[n] = seen[t]
  BY CommitKeepsRow DEF Commit, IndInv, TypeOK
<1> QED BY <1>1, <1>2, <1>3 DEF IndInv, TaskInv, InTransaction

-----------------------------------------------------------------------------
(* The properties.                                                         *)

\* Every step keeps versions and configurations together.
LEMMA NextKeepsVersion == IndInv /\ [Next]_vars => KeepsVersion
<1>1. ASSUME IndInv, [Next]_vars, NEW n \in Nodes, deployments[n] # NULL
      PROVE  /\ deployments'[n] # NULL
             /\ deployments'[n].version >= deployments[n].version
             /\ deployments'[n].version = deployments[n].version =>
                   deployments'[n] = deployments[n]
  <2>1. CASE deployments'[n] = deployments[n]
    <3>1. deployments[n].version \in Nat
      BY <1>1 DEF IndInv, TypeOK, Deployment
    <3> QED BY <1>1, <2>1, <3>1
  <2> QED BY <1>1, <2>1, CommitFacts, OnlyCommitWrites, ConstantsAssumption
<1> QED BY <1>1 DEF KeepsVersion

\* config_version names a configuration: the version never falls, and stays
\* only while no column changes.
THEOREM VersionAlwaysNamesConfig == Spec => VersionNamesConfig
<1> QED BY NextKeepsVersion, Inductive, PTL DEF Spec, VersionNamesConfig

\* Within a session the stored reading never goes back.
THEOREM SessionAlwaysMonotone == Spec => SessionMonotone
<1>1. ASSUME IndInv, [Next]_vars, NEW n \in Nodes,
             state[n] # NULL, state[n].telemetryId # NULL
      PROVE  /\ state'[n].telemetryId # NULL
             /\ LET old == telemetry[n][state[n].telemetryId]
                    new == telemetry'[n][state'[n].telemetryId]
                IN  old.session = new.session => old.sequence <= new.sequence
  <2> DEFINE i == state[n].telemetryId
             rows == telemetry[n]
  <2>1. i \in 1..covered[n] /\ covered[n] \in Nat /\ covered[n] <= Len(rows)
    BY <1>1, LatestIsRow DEF IndInv, CoveredInv, TypeOK
  <2>2. rows \in Seq(Row) /\ rows[i] \in Row
    <3>1. rows \in Seq(Row)
      BY <1>1 DEF IndInv, TypeOK
    <3>2. i \in 1..Len(rows)
      BY <2>1, <3>1
    <3> QED BY <3>1, <3>2
  <2>3. CASE state'[n] = state[n]
    <3>1. telemetry'[n][i] = rows[i]
      BY <1>1, <2>1, <2>2, TelemetryGrows
    <3>2. rows[i].sequence \in Nat
      BY <2>2 DEF Row
    <3> QED BY <1>1, <2>3, <3>1, <3>2
  <2>4. ASSUME NEW t \in Tasks, NodeOf(t) = n, Commit(t)
        PROVE  /\ latest[t] # NULL
               /\ state'[n].telemetryId = latest[t]
               /\ telemetry' = telemetry
               /\ rows[i].session = rows[latest[t]].session =>
                    rows[i].sequence <= rows[latest[t]].sequence
    <3>1. /\ state'[n].telemetryId = latest[t] /\ telemetry' = telemetry
          /\ covered[n] <= seen[t] /\ seen[t] <= Len(rows)
          /\ LatestOf(rows, seen[t], latest[t])
      BY <1>1, <2>4, CommitFacts
    <3>2. seen[t] \in Nat
      BY <1>1 DEF IndInv, TypeOK
    <3>3. i \in 1..seen[t] /\ IsLatest(rows, seen[t], latest[t])
      BY <2>1, <3>1, <3>2 DEF LatestOf
    <3>4. latest[t] \in 1..seen[t] /\ latest[t] # NULL
      BY <3>3, NullAssumption DEF IsLatest
    <3>5. rows[latest[t]].sequence \in Nat /\ rows[i].sequence \in Nat
      <4>1. latest[t] \in 1..Len(rows)
        BY <2>2, <3>1, <3>2, <3>4
      <4>2. rows[latest[t]] \in Row
        BY <2>2, <4>1
      <4> QED BY <2>2, <4>2 DEF Row
    <3>6. LatestInSession(rows, seen[t], latest[t])
      BY <3>3 DEF IsLatest
    <3>7. rows[i].session = rows[latest[t]].session =>
             rows[i].sequence <= rows[latest[t]].sequence
      BY <3>3, <3>5, <3>6 DEF LatestInSession
    <3> QED BY <3>1, <3>4, <3>7
  <2> QED BY <1>1, <2>3, <2>4, OnlyCommitWrites
<1>2. IndInv /\ [Next]_vars => KeepsSession
  BY <1>1 DEF KeepsSession
<1> QED BY <1>2, Inductive, PTL DEF Spec, SessionMonotone

\* A VALID state names the reading it was classified from.
ValidNamesRow ==
    \A n \in Nodes :
        state[n] # NULL /\ state[n].classificationStatus = "VALID" =>
            state[n].telemetryId # NULL

\* A VALID state is one that deriveSensorState gave a usable row.
LEMMA ValidNames == Spec => []ValidNamesRow
<1>1. Init => ValidNamesRow
  BY DEF Init, ValidNamesRow, deriveWithoutTelemetry, unknownState
<1>2. ASSUME IndInv, ValidNamesRow, [Next]_vars, NEW n \in Nodes,
             state'[n] # NULL, state'[n].classificationStatus = "VALID"
      PROVE  state'[n].telemetryId # NULL
  <2>1. CASE state'[n] = state[n]
    BY <1>2, <2>1 DEF ValidNamesRow
  <2>2. ASSUME NEW t \in Tasks, NodeOf(t) = n, Commit(t)
        PROVE  state'[n].telemetryId # NULL
    <3>1. state'[n] = deriveSensorState(t) /\ state'[n].telemetryId = latest[t]
      BY <1>2, <2>2, CommitFacts
    <3> QED BY <1>2, <3>1
            DEF deriveSensorState, deriveWithoutTelemetry, unknownState
  <2> QED BY <1>2, <2>1, <2>2, OnlyCommitWrites
<1>3. IndInv /\ ValidNamesRow /\ [Next]_vars => ValidNamesRow'
  BY <1>2 DEF ValidNamesRow
<1> QED BY <1>1, <1>3, Inductive, PTL DEF Spec

\* A stored VALID level never understates the water of its row under the
\* thresholds in force, and overstates it by at most the hysteresis.
THEOREM LevelAlwaysInBand == Spec => []LevelInBand
<1> DEFINE Band(c, t, level) ==
             LET h == waterHeight(c, t) IN
             /\ telemetryReasonCodes(c, t) = {}
             /\ LevelIndex(classifyDirect(h, c)) <= LevelIndex(level)
             /\ LevelIndex(level)
                  <= LevelIndex(classifyDirect(h + c.hysteresisMm, c))
           InBand(n) ==
             state[n] # NULL /\ state[n].classificationStatus = "VALID" =>
               Band(deployments[n].config, telemetry[n][state[n].telemetryId],
                    state[n].classifiedLevel)
<1>1. LevelInBand <=> \A n \in Nodes : InBand(n)
  BY DEF LevelInBand
<1>2. LevelInBand' <=> \A n \in Nodes : InBand(n)'
  BY DEF LevelInBand
<1>3. Init => LevelInBand
  <2> SUFFICES ASSUME Init, NEW n \in Nodes PROVE InBand(n)
    BY <1>1
  <2> QED BY DEF Init, deriveWithoutTelemetry, unknownState
<1>4. ASSUME IndInv, ValidNamesRow, LevelInBand, [Next]_vars, NEW n \in Nodes,
             state'[n] # NULL, state'[n].classificationStatus = "VALID"
      PROVE  Band(deployments[n].config, telemetry[n][state[n].telemetryId],
                  state[n].classifiedLevel)'
  <2>1. CASE state'[n] = state[n] /\ deployments'[n] = deployments[n]
    <3> DEFINE i == state[n].telemetryId
    <3>1. Band(deployments[n].config, telemetry[n][i], state[n].classifiedLevel)
      BY <1>1, <1>4, <2>1
    <3>2. i \in 1..Len(telemetry[n]) => telemetry'[n][i] = telemetry[n][i]
      BY <1>4, TelemetryGrows
    <3>3. i \in 1..Len(telemetry[n])
      <4>1. i # NULL /\ LatestOf(telemetry[n], covered[n], i)
            /\ covered[n] \in Nat /\ covered[n] <= Len(telemetry[n])
        BY <1>4, <2>1 DEF ValidNamesRow, IndInv, CoveredInv, TypeOK
      <4>2. telemetry[n] \in Seq(Row) /\ i \in 1..covered[n]
        BY <1>4, <4>1, LatestIsRow DEF IndInv, TypeOK
      <4> QED BY <4>1, <4>2
    <3> QED BY <2>1, <3>1, <3>2, <3>3
  <2>2. ASSUME NEW t \in Tasks, NodeOf(t) = n, Commit(t)
        PROVE  Band(deployments[n].config, telemetry[n][state[n].telemetryId],
                    state[n].classifiedLevel)'
    <3> DEFINE c == dep[t].config
               row == telemetry[n][latest[t]]
               r == classificationOf(c, dep[t].version, row, prev[t], now[t])
    <3>1. /\ telemetry' = telemetry /\ state'[n] = deriveSensorState(t)
          /\ deployments'[n] = dep[t] /\ dep[t] \in Deployment
          /\ state'[n].telemetryId = latest[t]
          /\ seen[t] <= Len(telemetry[n])
          /\ LatestOf(telemetry[n], seen[t], latest[t])
      BY <1>4, <2>2, CommitFacts
    <3>2. latest[t] # NULL
      BY <1>4, <3>1 DEF deriveSensorState, deriveWithoutTelemetry, unknownState
    <3>3. row \in Row
      <4>1. seen[t] \in Nat /\ telemetry[n] \in Seq(Row)
        BY <1>4 DEF IndInv, TypeOK
      <4>2. latest[t] \in 1..seen[t]
        BY <3>1, <3>2, <4>1, LatestIsRow
      <4>3. latest[t] \in 1..Len(telemetry[n])
        BY <3>1, <4>1, <4>2
      <4> QED BY <4>1, <4>3
    <3>4. /\ c \in Configs /\ dep[t].version \in Nat \ {0}
          /\ prev[t] \in StateRow \cup {NULL} /\ now[t] \in Nat
      BY <1>4, <3>1 DEF Deployment, IndInv, TypeOK
    <3>5. state'[n] = deriveFromTelemetry(c, dep[t].version, row, latest[t],
                                          prev[t], now[t])
      BY <2>2, <3>1, <3>2 DEF deriveSensorState
    <3>6. state'[n].classifiedLevel = r.level /\ r.status = "VALID"
      BY <1>4, <3>5 DEF deriveFromTelemetry
    <3>7. Band(c, row, r.level)
      BY <3>3, <3>4, <3>6, ClassificationFacts
    <3> QED BY <3>1, <3>6, <3>7
  <2> QED BY <1>4, <2>1, <2>2, OnlyCommitWrites
<1>5. IndInv /\ ValidNamesRow /\ LevelInBand /\ [Next]_vars => LevelInBand'
  BY <1>2, <1>4
<1> QED BY <1>3, <1>5, Inductive, ValidNames, PTL DEF Spec

-----------------------------------------------------------------------------
(* Nothing is forgotten, when the deployments were saved beforehand.       *)

\* Every Node has a deployment: no path deletes one.
AllDeployed == \A n \in Nodes : deployments[n] # NULL

\* The recomputation that will take row k of Node n into account.
Pending(r, n, k) ==
    /\ kind[<<r, n>>] = "ingest"
    /\ pc[<<r, n>>] # "idle"
    /\ pc[<<r, n>>] = "telemetryFound" => k <= seen[<<r, n>>]

\* The rows not yet covered stay owed or on their way.
LEMMA PendingStep ==
    ASSUME IndInv, AllDeployed, PendingInv, [Next]_vars
    PROVE  PendingInv'
<1> USE DEF IndInv
<1> SUFFICES ASSUME NEW n \in Nodes,
                    NEW k \in (covered'[n] + 1)..Len(telemetry'[n])
             PROVE  k <= owed'[n] \/ \E r \in Requests : Pending(r, n, k)'
  BY DEF PendingInv, Pending
<1>1. /\ Len(telemetry[n]) \in Nat /\ covered[n] \in Nat /\ owed[n] \in Nat
      /\ owed[n] <= Len(telemetry[n]) /\ telemetry[n] \in Seq(Row)
  BY DEF TypeOK, CoveredInv
<1>2. k \in Int /\ covered'[n] < k /\ k <= Len(telemetry'[n])
  <2>1. TypeOK'
    BY NextInd
  <2>2. covered'[n] \in Nat /\ telemetry'[n] \in Seq(Row)
    BY <2>1 DEF TypeOK
  <2> QED BY <2>2
<1>3. ASSUME covered[n] < k, k <= Len(telemetry[n])
      PROVE  k <= owed[n] \/ \E r \in Requests : Pending(r, n, k)
  <2>1. k \in (covered[n] + 1)..Len(telemetry[n])
    BY <1>1, <1>2, <1>3
  <2>2. deployments[n] # NULL
    BY DEF AllDeployed
  <2> QED BY <2>1, <2>2 DEF PendingInv, Pending
<1>4. CASE Tick \/ UNCHANGED vars
  <2>1. /\ covered' = covered /\ owed' = owed /\ telemetry' = telemetry
        /\ kind' = kind /\ seen' = seen /\ pc' = pc
    BY <1>4 DEF Tick, vars, database, tasks
  <2>2. ASSUME NEW r \in Requests, Pending(r, n, k) PROVE Pending(r, n, k)'
    BY <2>1, <2>2 DEF Pending
  <2> QED BY <1>2, <1>3, <2>1, <2>2
<1>5. ASSUME NEW q \in Requests, NEW batch \in Batches, NEW at \in 0..clock,
             Ingest(q, batch, at)
      PROVE  k <= owed'[n] \/ \E r \in Requests : Pending(r, n, k)'
  <2>1. covered' = covered /\ owed' = owed /\ seen' = seen
    BY <1>5 DEF Ingest, Asked
  <2>2. CASE k <= Len(telemetry[n])
    <3>1. ASSUME NEW r \in Requests, Pending(r, n, k) PROVE Pending(r, n, k)'
      <4>1. <<r, n>> \in Tasks
        BY DEF Tasks
      <4>2. <<r, n>> \notin {<<q, m>> : m \in Inserted(batch)}
        BY <1>5, <3>1 DEF Ingest, Idle, Pending
      <4> QED BY <1>5, <2>1, <3>1, <4>1, <4>2 DEF Ingest, Asked, Pending
    <3> QED BY <1>2, <1>3, <2>1, <2>2, <3>1
  <2>3. CASE ~(k <= Len(telemetry[n]))
    <3>1. n \in Inserted(batch)
      BY <1>2, <1>5, <2>3 DEF Ingest
    <3>2. <<q, n>> \in Tasks /\ <<q, n>> \in {<<q, m>> : m \in Inserted(batch)}
      BY <3>1 DEF Tasks
    <3>3. Pending(q, n, k)'
      BY <1>5, <3>2 DEF Ingest, Asked, Pending
    <3> QED BY <3>3
  <2> QED BY <2>2, <2>3
<1>6. ASSUME NEW q \in Requests, NEW m \in Nodes,
             AskUpsert(q, m) \/ AskRecompute(q, m)
      PROVE  k <= owed'[n] \/ \E r \in Requests : Pending(r, n, k)'
  <2>1. /\ covered' = covered /\ owed' = owed /\ telemetry' = telemetry
        /\ pc[<<q, m>>] = "idle"
    BY <1>6 DEF AskUpsert, AskRecompute, database, Idle
  <2>2. ASSUME NEW r \in Requests, Pending(r, n, k) PROVE Pending(r, n, k)'
    <3>1. <<r, n>> \in Tasks /\ <<r, n>> \notin {<<q, m>>}
      BY <2>1, <2>2 DEF Tasks, Pending
    <3> QED BY <1>6, <2>2, <3>1 DEF AskUpsert, AskRecompute, Asked, Pending
  <2> QED BY <1>2, <1>3, <2>1, <2>2
<1>7. ASSUME NEW t \in Tasks, Acquire(t)
      PROVE  k <= owed'[n] \/ \E r \in Requests : Pending(r, n, k)'
  <2>1. /\ covered' = covered /\ owed' = owed /\ telemetry' = telemetry
        /\ kind' = kind /\ seen' = seen
        /\ pc' = [pc EXCEPT ![t] = "locked"]
    BY <1>7 DEF Acquire, upsertDeployment, findDeploymentForUpdate, Locked
  <2>2. ASSUME NEW r \in Requests, Pending(r, n, k) PROVE Pending(r, n, k)'
    <3>1. <<r, n>> \in Tasks
      BY DEF Tasks
    <3> QED BY <2>1, <2>2, <3>1 DEF Pending, TypeOK
  <2> QED BY <1>2, <1>3, <2>1, <2>2
<1>8. ASSUME NEW t \in Tasks, NoDeployment(t)
      PROVE  k <= owed'[n] \/ \E r \in Requests : Pending(r, n, k)'
  <2>1. NodeOf(t) \in Nodes
    BY DEF Tasks
  <2> QED BY <1>8, <2>1 DEF NoDeployment, AllDeployed
<1>9. ASSUME NEW t \in Tasks, findStateForUpdate(t)
      PROVE  k <= owed'[n] \/ \E r \in Requests : Pending(r, n, k)'
  <2>1. /\ covered' = covered /\ owed' = owed /\ telemetry' = telemetry
        /\ kind' = kind /\ seen' = seen
        /\ pc' = [pc EXCEPT ![t] = "stateFound"]
    BY <1>9 DEF findStateForUpdate, database
  <2>2. ASSUME NEW r \in Requests, Pending(r, n, k) PROVE Pending(r, n, k)'
    <3>1. <<r, n>> \in Tasks
      BY DEF Tasks
    <3> QED BY <2>1, <2>2, <3>1 DEF Pending, TypeOK
  <2> QED BY <1>2, <1>3, <2>1, <2>2
<1>10. ASSUME NEW t \in Tasks, NEW row, findLatestTelemetry(t, row)
       PROVE  k <= owed'[n] \/ \E r \in Requests : Pending(r, n, k)'
  <2>1. /\ covered' = covered /\ owed' = owed /\ telemetry' = telemetry
        /\ kind' = kind
        /\ seen' = [seen EXCEPT ![t] = Len(telemetry[NodeOf(t)])]
        /\ pc' = [pc EXCEPT ![t] = "telemetryFound"]
    BY <1>10 DEF findLatestTelemetry, database
  <2>2. ASSUME NEW r \in Requests, Pending(r, n, k) PROVE Pending(r, n, k)'
    <3>1. <<r, n>> \in Tasks
      BY DEF Tasks
    <3> QED BY <1>2, <2>1, <2>2, <3>1 DEF Pending, TypeOK
  <2> QED BY <1>2, <1>3, <2>1, <2>2
<1>11. ASSUME NEW t \in Tasks, Commit(t)
       PROVE  k <= owed'[n] \/ \E r \in Requests : Pending(r, n, k)'
  <2>1. telemetry' = telemetry /\ Finish(t)
    BY <1>11 DEF Commit
  <2>2. ASSUME NEW r \in Requests, <<r, n>> # t, Pending(r, n, k)
        PROVE  Pending(r, n, k)'
    <3>1. <<r, n>> \in Tasks
      BY DEF Tasks
    <3> QED BY <2>1, <2>2, <3>1 DEF Pending, Finish, TypeOK
  <2>3. CASE NodeOf(t) = n
    <3>1. /\ covered'[n] = seen[t] /\ covered[n] <= seen[t] /\ seen[t] \in Nat
          /\ pc[t] = "telemetryFound"
      BY <1>11, <2>3, CommitFacts DEF Commit, TypeOK
    <3>2. owed'[n] = IF seen[t] >= owed[n] THEN 0 ELSE owed[n]
      BY <1>11, <2>3 DEF Commit, TypeOK
    <3>3. ASSUME NEW r \in Requests, Pending(r, n, k) PROVE <<r, n>> # t
      BY <1>2, <3>1, <3>3 DEF Pending
    <3>4. covered[n] < k /\ k <= Len(telemetry[n])
      BY <1>1, <1>2, <2>1, <3>1
    <3> QED BY <1>1, <1>2, <1>3, <2>2, <3>1, <3>2, <3>3, <3>4
  <2>4. CASE NodeOf(t) # n
    <3>1. covered'[n] = covered[n] /\ owed'[n] = owed[n]
      BY <1>11, <2>4 DEF Commit, TypeOK
    <3> QED BY <1>2, <1>3, <2>1, <2>2, <2>4, <3>1
  <2> QED BY <2>3, <2>4
<1>12. ASSUME NEW t \in Tasks, Abort(t)
       PROVE  k <= owed'[n] \/ \E r \in Requests : Pending(r, n, k)'
  <2>1. telemetry' = telemetry /\ covered' = covered /\ Finish(t)
    BY <1>12 DEF Abort
  <2>2. ASSUME NEW r \in Requests, <<r, n>> # t, Pending(r, n, k)
        PROVE  Pending(r, n, k)'
    <3>1. <<r, n>> \in Tasks
      BY DEF Tasks
    <3> QED BY <2>1, <2>2, <3>1 DEF Pending, Finish, TypeOK
  <2>3. CASE NodeOf(t) = n /\ kind[t] = "ingest"
    BY <1>2, <1>12, <2>1, <2>3 DEF Abort, TypeOK
  <2>4. CASE ~(NodeOf(t) = n /\ kind[t] = "ingest")
    <3>1. owed'[n] = owed[n]
      BY <1>12, <2>4 DEF Abort, TypeOK
    <3>2. ASSUME NEW r \in Requests, Pending(r, n, k) PROVE <<r, n>> # t
      BY <2>4, <3>2 DEF Pending
    <3> QED BY <1>2, <1>3, <2>1, <2>2, <3>1, <3>2
  <2> QED BY <2>3, <2>4
<1>13. ASSUME NEW r \in Requests, Arrive(r)
       PROVE  k <= owed'[n] \/ \E q \in Requests : Pending(q, n, k)'
  BY <1>5, <1>6, <1>13 DEF Arrive
<1>14. ASSUME NEW t \in Tasks, Step(t)
       PROVE  k <= owed'[n] \/ \E r \in Requests : Pending(r, n, k)'
  BY <1>8, <1>9, <1>10, <1>11, <1>14 DEF Step
<1> QED BY <1>4, <1>7, <1>12, <1>13, <1>14 DEF Next

\* When every Node's deployment was saved before telemetry and requests are
\* served, a Node at rest whose recomputations all succeeded shows its latest
\* reading: no interleaving of deliveries, saves and recomputations loses one.
THEOREM DeployedNodesCatchUp ==
    ASSUME \A n \in Nodes : InitialDeployments[n] # NULL
    PROVE  Spec => []CaughtUp
<1>1. Init => AllDeployed /\ PendingInv
  BY DEF Init, AllDeployed, PendingInv
<1>2. IndInv /\ AllDeployed /\ [Next]_vars => AllDeployed'
  <2> SUFFICES ASSUME IndInv, AllDeployed, [Next]_vars, NEW n \in Nodes
               PROVE  deployments'[n] # NULL
    BY DEF AllDeployed
  <2> QED BY OnlyCommitWrites, CommitFacts, ConstantsAssumption DEF AllDeployed
<1>3. IndInv /\ PendingInv => CaughtUp
  <2> SUFFICES ASSUME IndInv, PendingInv, NEW n \in Nodes,
                      deployments[n] # NULL, owed[n] = 0,
                      \A r \in Requests : pc[<<r, n>>] = "idle"
               PROVE  IF telemetry[n] = <<>> THEN state[n].telemetryId = NULL
                      ELSE IsLatest(telemetry[n], Len(telemetry[n]),
                                    state[n].telemetryId)
    BY DEF CaughtUp
  <2>1. /\ telemetry[n] \in Seq(Row) /\ Len(telemetry[n]) \in Nat
        /\ covered[n] \in Nat /\ covered[n] <= Len(telemetry[n])
        /\ LatestOf(telemetry[n], covered[n], state[n].telemetryId)
    BY DEF IndInv, TypeOK, CoveredInv, StateMatchesConfig
  <2>2. covered[n] = Len(telemetry[n])
    <3> SUFFICES ASSUME covered[n] < Len(telemetry[n]) PROVE FALSE
      BY <2>1
    <3>1. Len(telemetry[n]) \in (covered[n] + 1)..Len(telemetry[n])
      BY <2>1
    <3>2. \A k \in (covered[n] + 1)..Len(telemetry[n]) : k <= owed[n]
      BY DEF PendingInv
    <3>3. Len(telemetry[n]) <= owed[n]
      BY <3>1, <3>2
    <3> QED BY <2>1, <3>3
  <2>3. telemetry[n] = <<>> <=> Len(telemetry[n]) = 0
    BY <2>1
  <2> QED BY <2>1, <2>2, <2>3 DEF LatestOf, IsLatest
<1> QED BY <1>1, <1>2, <1>3, PendingStep, Inductive, PTL DEF Spec

-----------------------------------------------------------------------------
(* What is stored is what deriveSensorState makes of the reading it names, *)
(* under the configuration now in force, from some earlier state.          *)

Derived(c, v, rows, s) ==
    IF s.telemetryId = NULL THEN s = deriveWithoutTelemetry(c, v)
    ELSE \E p \in StateRow \cup {NULL}, time \in Nat :
            s = deriveFromTelemetry(c, v, rows[s.telemetryId], s.telemetryId, p, time)

DerivedInv ==
    \A n \in Nodes : state[n] # NULL =>
        Derived(deployments[n].config, deployments[n].version, telemetry[n], state[n])

\* No task has a `now` in the future, and none in a transaction has one from
\* before its request.
NowInv == \A t \in Tasks : /\ now[t] <= clock
                           /\ InTransaction(t) => since[t] <= now[t]

\* The row a state names exists.
LEMMA NamedRow ==
    ASSUME IndInv, NEW n \in Nodes, state[n] # NULL, state[n].telemetryId # NULL
    PROVE  /\ state[n].telemetryId \in 1..Len(telemetry[n])
           /\ telemetry[n][state[n].telemetryId] \in Row
<1>1. /\ telemetry[n] \in Seq(Row) /\ covered[n] \in Nat
      /\ covered[n] <= Len(telemetry[n])
      /\ LatestOf(telemetry[n], covered[n], state[n].telemetryId)
  BY DEF IndInv, TypeOK, CoveredInv
<1>2. state[n].telemetryId \in 1..covered[n]
  BY <1>1, LatestIsRow
<1> QED BY <1>1, <1>2

\* What COMMIT stores is derived from what its transaction has read.
LEMMA CommitDerives ==
    ASSUME IndInv, NEW t \in Tasks, Commit(t), NEW n \in Nodes, NodeOf(t) = n,
           latest[t] # NULL
    PROVE  /\ latest[t] \in Nat /\ telemetry[n][latest[t]] \in Row
           /\ dep[t].config \in Configs /\ dep[t].version \in Nat \ {0}
           /\ prev[t] \in StateRow \cup {NULL} /\ now[t] \in Nat
           /\ state'[n] = deriveFromTelemetry(dep[t].config, dep[t].version,
                                              telemetry[n][latest[t]], latest[t],
                                              prev[t], now[t])
<1>1. /\ state'[n] = deriveSensorState(t) /\ dep[t] \in Deployment
      /\ seen[t] <= Len(telemetry[n])
      /\ LatestOf(telemetry[n], seen[t], latest[t])
  BY CommitFacts
<1>2. seen[t] \in Nat /\ telemetry[n] \in Seq(Row)
  BY DEF IndInv, TypeOK
<1>3. latest[t] \in 1..seen[t]
  BY <1>1, <1>2, LatestIsRow
<1>4. latest[t] \in 1..Len(telemetry[n])
  BY <1>1, <1>2, <1>3
<1>5. telemetry[n][latest[t]] \in Row
  BY <1>2, <1>4
<1> QED BY <1>1, <1>4, <1>5 DEF deriveSensorState, Deployment, IndInv, TypeOK

\* The stored state is always derived from its row, and times are past.
LEMMA StoredIsDerived == Spec => [](DerivedInv /\ NowInv)
<1>1. Init => DerivedInv /\ NowInv
  <2> SUFFICES ASSUME Init PROVE DerivedInv /\ NowInv
    OBVIOUS
  <2>1. ASSUME NEW n \in Nodes, state[n] # NULL
        PROVE  Derived(deployments[n].config, deployments[n].version, telemetry[n],
                       state[n])
    <3>1. state[n] = deriveWithoutTelemetry(deployments[n].config, deployments[n].version)
      BY <2>1 DEF Init
    <3>2. state[n].telemetryId = NULL
      BY <3>1 DEF deriveWithoutTelemetry, unknownState
    <3> QED BY <3>1, <3>2 DEF Derived
  <2>2. NowInv
    BY DEF Init, NowInv, InTransaction
  <2> QED BY <2>1, <2>2 DEF DerivedInv
<1>2. ASSUME IndInv, DerivedInv, [Next]_vars, NEW n \in Nodes, state'[n] # NULL
      PROVE  Derived(deployments'[n].config, deployments'[n].version, telemetry'[n],
                     state'[n])
  <2>1. CASE state'[n] = state[n] /\ deployments'[n] = deployments[n]
    <3>1. Derived(deployments[n].config, deployments[n].version, telemetry[n], state[n])
      BY <1>2, <2>1 DEF DerivedInv
    <3>2. CASE state[n].telemetryId = NULL
      BY <2>1, <3>1, <3>2 DEF Derived
    <3>3. CASE state[n].telemetryId # NULL
      <4>1. telemetry'[n][state[n].telemetryId] = telemetry[n][state[n].telemetryId]
        BY <1>2, <2>1, <3>3, NamedRow, TelemetryGrows
      <4> QED BY <2>1, <3>1, <3>3, <4>1 DEF Derived
    <3> QED BY <3>2, <3>3
  <2>2. ASSUME NEW t \in Tasks, NodeOf(t) = n, Commit(t)
        PROVE  Derived(deployments'[n].config, deployments'[n].version, telemetry'[n],
                       state'[n])
    <3>1. /\ telemetry' = telemetry /\ state'[n] = deriveSensorState(t)
          /\ state'[n].telemetryId = latest[t] /\ deployments'[n] = dep[t]
      BY <1>2, <2>2, CommitFacts
    <3>2. CASE latest[t] = NULL
      BY <3>1, <3>2 DEF Derived, deriveSensorState
    <3>3. CASE latest[t] # NULL
      <4>1. /\ prev[t] \in StateRow \cup {NULL} /\ now[t] \in Nat
            /\ state'[n] = deriveFromTelemetry(dep[t].config, dep[t].version,
                                               telemetry[n][latest[t]], latest[t],
                                               prev[t], now[t])
        BY <1>2, <2>2, <3>3, CommitDerives
      <4> QED BY <3>1, <3>3, <4>1 DEF Derived
    <3> QED BY <3>2, <3>3
  <2> QED BY <1>2, <2>1, <2>2, OnlyCommitWrites
<1>3. IndInv /\ DerivedInv /\ [Next]_vars => DerivedInv'
  BY <1>2 DEF DerivedInv
<1>4. ASSUME IndInv, NowInv, [Next]_vars, NEW t \in Tasks
      PROVE  now'[t] <= clock'
  <2>1. clock \in Nat /\ now[t] \in Nat /\ now[t] <= clock
    BY <1>4 DEF IndInv, TypeOK, NowInv
  <2>2. clock' = clock \/ clock' = clock + 1
    BY <1>4 DEF Next, Arrive, Acquire, Step, Tick, AskUpsert, AskRecompute, Locked,
           upsertDeployment, findDeploymentForUpdate, NoDeployment, Ingest, Commit,
           findStateForUpdate, findLatestTelemetry, Abort, vars
  <2>3. now'[t] = now[t] \/ now'[t] = 0 \/ now'[t] \in 0..clock
    <3>1. CASE Tick \/ UNCHANGED vars
      BY <3>1 DEF Tick, vars, tasks
    <3>2. ASSUME NEW r \in Requests, Arrive(r) PROVE now' = now
      BY <3>2 DEF Arrive, Ingest, AskUpsert, AskRecompute, Asked
    <3>3. ASSUME NEW u \in Tasks, Acquire(u)
          PROVE  now'[t] = now[t] \/ now'[t] \in 0..clock
      BY <1>4, <3>3
         DEF Acquire, upsertDeployment, findDeploymentForUpdate, Locked, IndInv, TypeOK
    <3>4. ASSUME NEW u \in Tasks, Step(u) \/ Abort(u)
          PROVE  now'[t] = now[t] \/ now'[t] = 0
      BY <1>4, <3>4
         DEF Step, NoDeployment, findStateForUpdate, findLatestTelemetry, Commit, Abort,
             Finish, IndInv, TypeOK
    <3> QED BY <1>4, <3>1, <3>2, <3>3, <3>4 DEF Next
  <2> QED BY <2>1, <2>2, <2>3
<1>5. ASSUME IndInv, NowInv, [Next]_vars, NEW t \in Tasks, InTransaction(t)'
      PROVE  since'[t] <= now'[t]
  <2>1. since[t] \in Nat /\ now[t] \in Nat
    BY <1>5 DEF IndInv, TypeOK
  <2>2. \/ InTransaction(t) /\ since'[t] = since[t] /\ now'[t] = now[t]
        \/ since'[t] = since[t] /\ now'[t] \in since[t]..clock
    <3>1. CASE Tick \/ UNCHANGED vars
      BY <1>5, <3>1 DEF Tick, vars, tasks, InTransaction
    <3>2. ASSUME NEW r \in Requests, Arrive(r)
          PROVE  InTransaction(t) /\ since'[t] = since[t] /\ now'[t] = now[t]
      BY <1>5, <3>2
         DEF Arrive, Ingest, AskUpsert, AskRecompute, Asked, InTransaction, IndInv, TypeOK
    <3>3. ASSUME NEW u \in Tasks, Acquire(u)
          PROVE  \/ InTransaction(t) /\ since'[t] = since[t] /\ now'[t] = now[t]
                 \/ since'[t] = since[t] /\ now'[t] \in since[t]..clock
      BY <1>5, <3>3
         DEF Acquire, upsertDeployment, findDeploymentForUpdate, Locked, InTransaction,
             IndInv, TypeOK
    <3>4. ASSUME NEW u \in Tasks, Step(u) \/ Abort(u)
          PROVE  InTransaction(t) /\ since'[t] = since[t] /\ now'[t] = now[t]
      BY <1>5, <3>4
         DEF Step, NoDeployment, findStateForUpdate, findLatestTelemetry, Commit, Abort,
             Finish, InTransaction, IndInv, TypeOK
    <3> QED BY <1>5, <3>1, <3>2, <3>3, <3>4 DEF Next
  <2> QED BY <1>5, <2>1, <2>2 DEF NowInv
<1>6. IndInv /\ NowInv /\ [Next]_vars => NowInv'
  BY <1>4, <1>5 DEF NowInv
<1> QED BY <1>1, <1>3, <1>6, Inductive, PTL DEF Spec

\* The columns of a derived state that depend on the reading and the
\* configuration alone.
LEMMA DerivedFacts ==
    ASSUME NEW c \in Configs, NEW v \in Nat \ {0}, NEW t \in Row, NEW id,
           NEW p, NEW time
    PROVE  LET s == deriveFromTelemetry(c, v, t, id, p, time) IN
           /\ s.telemetryId = id
           /\ s.observedAt = selectObservationTime(t).observedAt
           /\ s.validUntil = selectObservationTime(t).observedAt + c.staleAfterMinutes
           /\ s.validUntil \in Nat
           /\ s.effectiveMultiplier = c.multiplier[s.classifiedLevel]
           /\ s.classificationConfigVersion = v
<1>1. selectObservationTime(t).observedAt \in Nat
  BY DEF selectObservationTime, Row
<1>2. selectObservationTime(t).observedAt + c.staleAfterMinutes \in Nat
  BY <1>1, ConfigFacts
<1> QED BY <1>2 DEF deriveFromTelemetry, multiplierForLevel

\* What is called FRESH is recent and carries the multiplier in force; what
\* is not is UNKNOWN.
THEOREM FreshIsAlwaysRecent == Spec => []FreshIsRecent
<1>1. ASSUME IndInv, DerivedInv, NEW n \in Nodes, deployments[n] # NULL
      PROVE  LET c == deployments[n].config
                 e == evaluateEffectiveSensorState(c, deployments[n].version,
                                                   state[n], clock)
             IN  /\ e.effectiveMultiplier = c.multiplier[e.effectiveLevel]
                 /\ e.freshness # "FRESH" => e.effectiveLevel = "UNKNOWN"
                 /\ e.freshness = "FRESH" =>
                       /\ c.enabled
                       /\ clock <= selectObservationTime(
                                      telemetry[n][e.telemetryId]).observedAt
                                   + c.staleAfterMinutes
  <2> DEFINE c == deployments[n].config
             v == deployments[n].version
             s == state[n]
             e == evaluateEffectiveSensorState(c, v, s, clock)
  <2>1. s # NULL /\ s \in StateRow /\ clock \in Nat
    BY <1>1 DEF IndInv, TypeOK, StateMatchesConfig
  <2>2. c \in Configs /\ v \in Nat \ {0}
    BY <1>1 DEF IndInv, TypeOK, Deployment
  <2>3. Derived(c, v, telemetry[n], s)
    BY <1>1, <2>1 DEF DerivedInv
  <2>4. CASE ~c.enabled
    <3>1. /\ e.freshness = "DISABLED" /\ e.effectiveLevel = "UNKNOWN"
          /\ e.effectiveMultiplier = c.multiplier["UNKNOWN"]
      BY <2>4 DEF evaluateEffectiveSensorState
    <3> QED BY <3>1
  <2>5. CASE c.enabled /\ (s.telemetryId = NULL \/ s.validUntil = NULL)
    <3>1. /\ e.freshness = "NO_TELEMETRY" /\ e.effectiveLevel = "UNKNOWN"
          /\ e.effectiveMultiplier = c.multiplier["UNKNOWN"]
      BY <2>1, <2>5 DEF evaluateEffectiveSensorState
    <3> QED BY <3>1
  <2>6. CASE c.enabled /\ s.telemetryId # NULL /\ s.validUntil # NULL /\ clock > s.validUntil
    <3>1. /\ e.freshness = "STALE" /\ e.effectiveLevel = "UNKNOWN"
          /\ e.effectiveMultiplier = c.multiplier["UNKNOWN"]
      BY <2>1, <2>6 DEF evaluateEffectiveSensorState
    <3> QED BY <3>1
  <2>7. CASE c.enabled /\ s.telemetryId # NULL /\ s.validUntil # NULL
             /\ ~(clock > s.validUntil)
    <3>1. /\ e.freshness = "FRESH" /\ e.effectiveLevel = s.classifiedLevel
          /\ e.effectiveMultiplier = s.effectiveMultiplier
          /\ e.telemetryId = s.telemetryId
      BY <2>1, <2>7 DEF evaluateEffectiveSensorState
    <3>2. PICK p \in StateRow \cup {NULL}, time \in Nat :
            s = deriveFromTelemetry(c, v, telemetry[n][s.telemetryId], s.telemetryId, p, time)
      BY <2>3, <2>7 DEF Derived
    <3>3. telemetry[n][s.telemetryId] \in Row
      BY <1>1, <2>1, <2>7, NamedRow
    <3>4. /\ s.validUntil = selectObservationTime(telemetry[n][s.telemetryId]).observedAt
                              + c.staleAfterMinutes
          /\ s.validUntil \in Nat
          /\ s.effectiveMultiplier = c.multiplier[s.classifiedLevel]
      <4> HIDE DEF c, v, s
      <4> QED BY <2>2, <3>2, <3>3, DerivedFacts
    <3>5. clock <= s.validUntil
      BY <2>1, <2>7, <3>4
    <3> QED BY <2>7, <3>1, <3>4, <3>5
  <2> QED BY <2>2, <2>4, <2>5, <2>6, <2>7, ConfigFacts
<1>2. IndInv /\ DerivedInv => FreshIsRecent
  BY <1>1 DEF FreshIsRecent
<1> QED BY <1>2, Inductive, StoredIsDerived, PTL

\* Deriving again from the same reading and configuration while the result is
\* fresh gives the same result: its level lies in the band of its height.
LEMMA DeriveAgain ==
    ASSUME NEW c \in Configs, NEW v \in Nat \ {0}, NEW t \in Row, NEW id \in Nat,
           NEW p \in StateRow \cup {NULL}, NEW time \in Nat, NEW later \in Nat,
           NEW s, s = deriveFromTelemetry(c, v, t, id, p, time), later <= s.validUntil
    PROVE  deriveFromTelemetry(c, v, t, id, s, later) = s
<1> DEFINE r == classificationOf(c, v, t, p, time)
           h == waterHeight(c, t)
<1>1. s \in StateRow
  BY DeriveFromType
<1>2. CASE ~c.enabled \/ telemetryReasonCodes(c, t) # {}
  <2>1. classificationOf(c, v, t, s, later) = r
    BY <1>2 DEF classificationOf
  <2> QED BY <2>1 DEF deriveFromTelemetry
<1>3. CASE c.enabled /\ telemetryReasonCodes(c, t) = {}
  <2>1. r.status = "VALID" /\ r.height = h /\ r.reasons = {}
    BY <1>3 DEF classificationOf
  <2>2. /\ s.classificationStatus = "VALID" /\ s.classifiedLevel = r.level
        /\ s.classificationConfigVersion = v /\ s.validUntil \in Nat
    BY <2>1, DerivedFacts DEF deriveFromTelemetry
  <2>3. /\ r.level \in ClassifiedLevels
        /\ LevelIndex(classifyDirect(h, c)) <= LevelIndex(r.level)
        /\ LevelIndex(r.level) <= LevelIndex(classifyDirect(h + c.hysteresisMm, c))
    <3> HIDE DEF r
    <3> QED BY <2>1, ClassificationFacts DEF r
  <2>4. h \in Nat /\ OrderedThresholds(c)
    BY <1>3, HeightType, ConfigFacts
  <2>5. classifyWithHysteresis(h, r.level, c) = r.level
    <3> HIDE DEF r, h
    <3> QED BY <2>3, <2>4, HysteresisStable
  <2>6. canUseHysteresis(s, v, later)
    <3>1. s # NULL /\ s.validUntil # NULL /\ s.classifiedLevel # "UNKNOWN"
      BY <1>1, <2>2, <2>3, ConstantsAssumption, NullAssumption DEF ClassifiedLevels
    <3> QED BY <2>2, <3>1 DEF canUseHysteresis
  <2>7. classificationOf(c, v, t, s, later) =
          [height |-> h, level |-> r.level, status |-> "VALID", reasons |-> {}]
    BY <1>3, <2>2, <2>5, <2>6 DEF classificationOf
  <2>8. r = [height |-> h, level |-> r.level, status |-> "VALID", reasons |-> {}]
    BY <1>3 DEF classificationOf
  <2>9. classificationOf(c, v, t, s, later) = r
    BY <2>7, <2>8
  <2> QED BY <2>9 DEF deriveFromTelemetry
<1> QED BY <1>2, <1>3, ConfigFacts

\* Recomputing a state that is still fresh from the same row and the same
\* configuration changes nothing.
THEOREM RecomputeIsIdempotent == Spec => RecomputeIdempotent
<1>1. ASSUME IndInv, DerivedInv, NowInv, [Next]_vars, NEW n \in Nodes,
             state[n] # NULL, deployments'[n] = deployments[n],
             state'[n].telemetryId = state[n].telemetryId,
             state[n].validUntil # NULL => clock <= state[n].validUntil
      PROVE  state'[n] = state[n]
  <2>1. ASSUME NEW t \in Tasks, NodeOf(t) = n, Commit(t)
        PROVE  state'[n] = state[n]
    <3> DEFINE s == state[n]
               c == deployments[n].config
               v == deployments[n].version
               row == telemetry[n][latest[t]]
    <3>1. /\ state'[n] = deriveSensorState(t) /\ s.telemetryId = latest[t]
          /\ dep[t] = deployments[n] /\ prev[t] = s
      BY <1>1, <2>1, CommitFacts
    <3>2. Derived(c, v, telemetry[n], s)
      BY <1>1 DEF DerivedInv
    <3>3. CASE latest[t] = NULL
      BY <3>1, <3>2, <3>3 DEF Derived, deriveSensorState
    <3>4. CASE latest[t] # NULL
      <4>1. /\ latest[t] \in Nat /\ row \in Row
            /\ c \in Configs /\ v \in Nat \ {0} /\ now[t] \in Nat
            /\ state'[n] = deriveFromTelemetry(c, v, row, latest[t], s, now[t])
        BY <1>1, <2>1, <3>1, <3>4, CommitDerives
      <4>2. PICK p \in StateRow \cup {NULL}, time \in Nat :
              s = deriveFromTelemetry(c, v, row, latest[t], p, time)
        BY <3>1, <3>2, <3>4 DEF Derived
      <4>3. s.validUntil \in Nat
        <5> HIDE DEF s, c, v, row
        <5> QED BY <4>1, <4>2, DerivedFacts
      <4>4. now[t] <= s.validUntil
        <5>1. clock <= s.validUntil
          BY <1>1, <4>3, NullAssumption
        <5>2. now[t] <= clock /\ clock \in Nat
          BY <1>1 DEF NowInv, IndInv, TypeOK
        <5> QED BY <4>1, <4>3, <5>1, <5>2
      <4>5. deriveFromTelemetry(c, v, row, latest[t], s, now[t]) = s
        <5> HIDE DEF s, c, v, row
        <5> QED BY <4>1, <4>2, <4>4, DeriveAgain
      <4> QED BY <4>1, <4>5
    <3> QED BY <3>3, <3>4
  <2> QED BY <1>1, <2>1, OnlyCommitWrites
<1>2. IndInv /\ DerivedInv /\ NowInv /\ [Next]_vars => RecomputesSame
  BY <1>1 DEF RecomputesSame
<1> QED BY <1>2, Inductive, StoredIsDerived, PTL DEF Spec, RecomputeIdempotent

\* A level above the direct one is held from a VALID state of the same
\* version that had that level or a higher one.
LEMMA HeldLevel ==
    ASSUME NEW c \in Configs, NEW v \in Nat \ {0}, NEW t \in Row, NEW id \in Nat,
           NEW p \in StateRow \cup {NULL}, NEW time \in Nat,
           NEW s, s = deriveFromTelemetry(c, v, t, id, p, time),
           s.classificationStatus = "VALID",
           s.classifiedLevel # classifyDirect(s.waterHeightMm, c)
    PROVE  /\ p # NULL /\ p.classificationStatus = "VALID"
           /\ p.classificationConfigVersion = v
           /\ LevelIndex(p.classifiedLevel) >= LevelIndex(s.classifiedLevel)
           /\ p.validUntil # NULL /\ time <= p.validUntil
<1> DEFINE r == classificationOf(c, v, t, p, time)
           h == waterHeight(c, t)
<1>1. /\ s.classifiedLevel = r.level /\ s.waterHeightMm = r.height
      /\ r.status = "VALID"
  BY DEF deriveFromTelemetry
<1>2. c.enabled /\ telemetryReasonCodes(c, t) = {}
  BY <1>1 DEF classificationOf
<1>3. /\ r.height = h
      /\ r.level = IF canUseHysteresis(p, v, time)
                   THEN classifyWithHysteresis(h, p.classifiedLevel, c)
                   ELSE classifyDirect(h, c)
  BY <1>2 DEF classificationOf
<1>4. canUseHysteresis(p, v, time)
  BY <1>1, <1>3
<1>5. /\ p # NULL /\ p.classificationStatus = "VALID"
      /\ p.classificationConfigVersion = v /\ p.classifiedLevel \in ClassifiedLevels
  BY <1>4 DEF canUseHysteresis, StateRow, FloodRiskLevels
<1>6. h \in Int /\ OrderedThresholds(c)
  BY <1>2, HeightType, ConfigFacts
<1>7. LevelIndex(classifyWithHysteresis(h, p.classifiedLevel, c))
        <= LevelIndex(p.classifiedLevel)
  <2> HIDE DEF h, r
  <2> QED BY <1>1, <1>3, <1>4, <1>5, <1>6, HysteresisHoldsOrDirect
<1>8. /\ LevelIndex(p.classifiedLevel) \in 0..3
      /\ LevelIndex(classifyWithHysteresis(h, p.classifiedLevel, c)) \in 0..3
  BY DEF LevelIndex
<1>9. p.validUntil # NULL /\ time <= p.validUntil
  BY <1>4 DEF canUseHysteresis
<1> QED BY <1>1, <1>3, <1>4, <1>5, <1>7, <1>8, <1>9

\* Hysteresis only ever holds the level of the very row that is replaced, and
\* only when that row had not expired as the replacing request came.
THEOREM HysteresisHoldsOnlyReplaced == Spec => HysteresisHoldsReplacedLevel
<1>1. ASSUME IndInv, NowInv, [Next]_vars, NEW n \in Nodes,
             state'[n] # state[n], state'[n].classificationStatus = "VALID",
             state'[n].classifiedLevel
               # classifyDirect(state'[n].waterHeightMm, deployments'[n].config)
      PROVE  /\ state[n] # NULL
             /\ state[n].classificationStatus = "VALID"
             /\ state[n].classificationConfigVersion = deployments'[n].version
             /\ LevelIndex(state[n].classifiedLevel)
                  >= LevelIndex(state'[n].classifiedLevel)
             /\ state[n].validUntil # NULL
             /\ since[lock[n]] <= state[n].validUntil
  <2>1. PICK t \in Tasks : NodeOf(t) = n /\ Commit(t)
    BY <1>1, OnlyCommitWrites
  <2>2. /\ state'[n] = deriveSensorState(t) /\ prev[t] = state[n]
        /\ deployments'[n] = dep[t]
    BY <1>1, <2>1, CommitFacts
  <2>3. latest[t] # NULL
    BY <1>1, <2>2 DEF deriveSensorState, deriveWithoutTelemetry, unknownState
  <2>4. /\ latest[t] \in Nat /\ telemetry[n][latest[t]] \in Row
        /\ dep[t].config \in Configs /\ dep[t].version \in Nat \ {0}
        /\ prev[t] \in StateRow \cup {NULL} /\ now[t] \in Nat
        /\ state'[n] = deriveFromTelemetry(dep[t].config, dep[t].version,
                                           telemetry[n][latest[t]], latest[t],
                                           prev[t], now[t])
    BY <1>1, <2>1, <2>3, CommitDerives
  <2>5. /\ state[n] # NULL
        /\ state[n].classificationStatus = "VALID"
        /\ state[n].classificationConfigVersion = deployments'[n].version
        /\ LevelIndex(state[n].classifiedLevel)
             >= LevelIndex(state'[n].classifiedLevel)
        /\ state[n].validUntil # NULL /\ now[t] <= state[n].validUntil
    BY <1>1, <2>2, <2>4, HeldLevel
  <2>6. lock[n] = t /\ since[t] <= now[t]
    BY <1>1, <2>1 DEF Commit, InTransaction, IndInv, LockInv, NowInv
  <2>7. since[t] \in Nat /\ state[n].validUntil \in Nat
    BY <1>1, <2>5 DEF IndInv, TypeOK, StateRow
  <2> QED BY <2>4, <2>5, <2>6, <2>7
<1>2. IndInv /\ NowInv /\ [Next]_vars => HoldsReplacedLevel
  BY <1>1 DEF HoldsReplacedLevel
<1> QED BY <1>2, Inductive, StoredIsDerived, PTL DEF Spec, HysteresisHoldsReplacedLevel

-----------------------------------------------------------------------------
(***************************************************************************)
(* The flood snapshot: the id, which names versions, readings, levels and  *)
(* freshness, determines everything else a client is told, and validUntil  *)
(* is kept.                                                                *)
(***************************************************************************)

\* Every set of naturals that is not empty has a least element.
LEMMA LeastNatural ==
    ASSUME NEW T \in SUBSET Nat, T # {}
    PROVE  \E m \in T : \A k \in T : m <= k
<1> DEFINE R == OpToRel(<, Nat)
<1>1. IsWellFoundedOn(R, Nat)
  BY NatLessThanWellFounded
<1>2. \E x \in T : \A y \in T : ~(<<y, x>> \in R)
  <2> HIDE DEF R
  <2> QED BY <1>1, WFMin
<1>3. \A x, y \in Nat : y < x => <<y, x>> \in R
  BY DEF OpToRel
<1> HIDE DEF R
<1>4. PICK x \in T : \A y \in T : ~(<<y, x>> \in R)
  BY <1>2
<1>5. ASSUME NEW y \in T PROVE x <= y
  <2>1. x \in Nat /\ y \in Nat
    OBVIOUS
  <2>2. ~(y < x)
    BY <1>3, <1>4, <2>1
  <2> QED BY <2>1, <2>2
<1> QED BY <1>4, <1>5

\* Min is that element.
LEMMA MinIsLeast ==
    ASSUME NEW T \in SUBSET Nat, NEW k \in T
    PROVE  Min(T) \in T /\ Min(T) <= k
BY LeastNatural DEF Min

\* Readers change no table: what is proved of Spec holds under SnapshotSpec.
LEMMA ReadersOnlyRead == SnapshotSpec => Spec
<1>1. SnapshotInit => Init
  BY DEF SnapshotInit
<1>2. [SnapshotNext]_snapshotVars => [Next]_vars
  BY DEF SnapshotNext, Read, snapshotVars
<1> QED BY <1>1, <1>2, PTL DEF SnapshotSpec, Spec

-----------------------------------------------------------------------------
(* What the id leaves out is determined by what it names.                  *)

\* Two states derived from the same reading under the same configuration
\* differ in their level at most, and their multiplier is that of the level.
LEMMA SameColumns ==
    ASSUME NEW c \in Configs, NEW v \in Nat \ {0}, NEW rows,
           NEW s \in StateRow, NEW u \in StateRow,
           Derived(c, v, rows, s), Derived(c, v, rows, u),
           s.telemetryId = u.telemetryId,
           s.telemetryId # NULL => rows[s.telemetryId] \in Row
    PROVE  /\ s.observedAt = u.observedAt
           /\ s.validUntil = u.validUntil
           /\ s.reasonCodes = u.reasonCodes
           /\ s.classificationStatus = u.classificationStatus
           /\ s.classifiedLevel = u.classifiedLevel =>
                 s.effectiveMultiplier = u.effectiveMultiplier
           /\ s.telemetryId # NULL => s.validUntil \in Nat
           /\ s.telemetryId = NULL => s.validUntil = NULL
<1>1. CASE s.telemetryId = NULL
  <2>1. s = u /\ s = deriveWithoutTelemetry(c, v)
    BY <1>1 DEF Derived
  <2> QED BY <1>1, <2>1 DEF deriveWithoutTelemetry, unknownState
<1>2. CASE s.telemetryId # NULL
  <2> DEFINE row == rows[s.telemetryId]
             id == s.telemetryId
  <2>1. PICK p \in StateRow \cup {NULL}, at \in Nat :
          s = deriveFromTelemetry(c, v, row, id, p, at)
    BY <1>2 DEF Derived
  <2>2. PICK q \in StateRow \cup {NULL}, after \in Nat :
          u = deriveFromTelemetry(c, v, row, id, q, after)
    BY <1>2 DEF Derived
  <2>3. row \in Row
    BY <1>2
  <2> HIDE DEF row, id
  <2>4. /\ s.observedAt = u.observedAt /\ s.validUntil = u.validUntil
        /\ s.validUntil \in Nat
        /\ s.effectiveMultiplier = c.multiplier[s.classifiedLevel]
        /\ u.effectiveMultiplier = c.multiplier[u.classifiedLevel]
    BY <2>1, <2>2, <2>3, DerivedFacts
  <2>5. /\ s.reasonCodes = classificationOf(c, v, row, p, at).reasons
        /\ u.reasonCodes = classificationOf(c, v, row, q, after).reasons
        /\ s.classificationStatus = classificationOf(c, v, row, p, at).status
        /\ u.classificationStatus = classificationOf(c, v, row, q, after).status
    BY <2>1, <2>2 DEF deriveFromTelemetry
  <2>6. /\ classificationOf(c, v, row, p, at).reasons
             = classificationOf(c, v, row, q, after).reasons
        /\ classificationOf(c, v, row, p, at).status
             = classificationOf(c, v, row, q, after).status
    BY DEF classificationOf
  <2> QED BY <1>2, <2>4, <2>5, <2>6
<1> QED BY <1>1, <1>2

\* What a reader is told of a stored state.
Told(s, freshness, level, multiplier, reasons) ==
    [freshness |-> freshness, effectiveLevel |-> level,
     effectiveMultiplier |-> multiplier, reasonCodes |-> reasons,
     telemetryId |-> s.telemetryId, observedAt |-> s.observedAt,
     validUntil |-> s.validUntil,
     classificationStatus |-> s.classificationStatus]

\* The four cases of evaluateEffectiveSensorState.
LEMMA EffectiveCases ==
    ASSUME NEW c \in Configs, NEW v, NEW s \in StateRow, NEW time \in Nat,
           NEW e, e = evaluateEffectiveSensorState(c, v, s, time)
    PROVE  /\ ~c.enabled =>
                e = Told(s, "DISABLED", "UNKNOWN", c.multiplier["UNKNOWN"],
                         {"DEPLOYMENT_DISABLED"})
           /\ c.enabled /\ (s.telemetryId = NULL \/ s.validUntil = NULL) =>
                e = Told(s, "NO_TELEMETRY", "UNKNOWN", c.multiplier["UNKNOWN"],
                         {"NO_TELEMETRY"})
           /\ c.enabled /\ s.telemetryId # NULL /\ s.validUntil # NULL
              /\ time > s.validUntil =>
                e = Told(s, "STALE", "UNKNOWN", c.multiplier["UNKNOWN"],
                         s.reasonCodes \cup {"STALE"})
           /\ c.enabled /\ s.telemetryId # NULL /\ s.validUntil # NULL
              /\ ~(time > s.validUntil) =>
                e = Told(s, "FRESH", s.classifiedLevel, s.effectiveMultiplier,
                         s.reasonCodes)
BY ConstantsAssumption, ConfigFacts DEF evaluateEffectiveSensorState, Told

\* Version, reading, level and freshness determine what a reader is told.
LEMMA SameEffective ==
    ASSUME NEW c \in Configs, NEW v \in Nat \ {0}, NEW rows,
           NEW s \in StateRow, NEW u \in StateRow,
           NEW time \in Nat, NEW later \in Nat,
           Derived(c, v, rows, s), Derived(c, v, rows, u),
           s.telemetryId # NULL => rows[s.telemetryId] \in Row,
           NEW e, e = evaluateEffectiveSensorState(c, v, s, time),
           NEW f, f = evaluateEffectiveSensorState(c, v, u, later),
           e.telemetryId = f.telemetryId, e.effectiveLevel = f.effectiveLevel,
           e.freshness = f.freshness
    PROVE  /\ e = f
           /\ c.enabled /\ e.validUntil # NULL =>
                (e.validUntil >= time <=> e.validUntil >= later)
<1>1. s.telemetryId = u.telemetryId
  BY ConstantsAssumption DEF evaluateEffectiveSensorState
<1>2. /\ s.observedAt = u.observedAt
      /\ s.validUntil = u.validUntil
      /\ s.reasonCodes = u.reasonCodes
      /\ s.classificationStatus = u.classificationStatus
      /\ s.classifiedLevel = u.classifiedLevel =>
            s.effectiveMultiplier = u.effectiveMultiplier
      /\ s.telemetryId # NULL => s.validUntil \in Nat
      /\ s.telemetryId = NULL => s.validUntil = NULL
  BY <1>1, SameColumns
<1> DEFINE unknown == c.multiplier["UNKNOWN"]
<1>7. ASSUME NEW a, NEW b, NEW m, NEW r
      PROVE  Told(s, a, b, m, r) = Told(u, a, b, m, r)
  BY <1>1, <1>2 DEF Told
<1>8. ASSUME NEW a, NEW b, NEW m, NEW r
      PROVE  /\ Told(s, a, b, m, r).freshness = a
             /\ Told(s, a, b, m, r).effectiveLevel = b
  BY DEF Told
<1>3. e.validUntil = s.validUntil
  BY ConstantsAssumption DEF evaluateEffectiveSensorState
<1>4. CASE ~c.enabled
  <2>1. e = Told(s, "DISABLED", "UNKNOWN", unknown, {"DEPLOYMENT_DISABLED"})
    BY <1>4, EffectiveCases
  <2>2. f = Told(u, "DISABLED", "UNKNOWN", unknown, {"DEPLOYMENT_DISABLED"})
    BY <1>4, EffectiveCases
  <2> QED BY <1>4, <1>7, <2>1, <2>2
<1>5. CASE c.enabled /\ s.telemetryId = NULL
  <2>1. c.enabled /\ (u.telemetryId = NULL \/ u.validUntil = NULL)
    BY <1>1, <1>5
  <2>2. e = Told(s, "NO_TELEMETRY", "UNKNOWN", unknown, {"NO_TELEMETRY"})
    BY <1>5, EffectiveCases
  <2>3. f = Told(u, "NO_TELEMETRY", "UNKNOWN", unknown, {"NO_TELEMETRY"})
    BY <2>1, ConstantsAssumption DEF evaluateEffectiveSensorState, Told
  <2> QED BY <1>2, <1>3, <1>5, <1>7, <2>2, <2>3
<1>6. CASE c.enabled /\ s.telemetryId # NULL
  <2>1. s.validUntil \in Nat /\ s.validUntil # NULL
    BY <1>2, <1>6, NullAssumption
  <2>2. /\ time > s.validUntil =>
             e = Told(s, "STALE", "UNKNOWN", unknown, s.reasonCodes \cup {"STALE"})
        /\ ~(time > s.validUntil) =>
             e = Told(s, "FRESH", s.classifiedLevel, s.effectiveMultiplier, s.reasonCodes)
    BY <1>6, <2>1, EffectiveCases
  <2>3. u.telemetryId # NULL /\ u.validUntil = s.validUntil /\ u.validUntil # NULL
    BY <1>1, <1>2, <1>6, <2>1
  <2>4. /\ later > u.validUntil =>
             f = Told(u, "STALE", "UNKNOWN", unknown, u.reasonCodes \cup {"STALE"})
        /\ ~(later > u.validUntil) =>
             f = Told(u, "FRESH", u.classifiedLevel, u.effectiveMultiplier, u.reasonCodes)
    BY <1>6, <2>3, EffectiveCases
  <2>5. /\ later > s.validUntil =>
             f = Told(s, "STALE", "UNKNOWN", unknown, s.reasonCodes \cup {"STALE"})
        /\ ~(later > s.validUntil) =>
             f = Told(s, "FRESH", u.classifiedLevel, u.effectiveMultiplier, s.reasonCodes)
    BY <1>2, <1>7, <2>3, <2>4
  <2>6. time > s.validUntil <=> later > s.validUntil
    BY <1>8, <2>2, <2>5
  <2>7. CASE time > s.validUntil
    <3>1. e = f
      BY <2>2, <2>5, <2>6, <2>7
    <3> QED BY <1>3, <2>1, <2>6, <2>7, <3>1
  <2>8. CASE ~(time > s.validUntil)
    <3>1. s.classifiedLevel = u.classifiedLevel
      BY <1>8, <2>2, <2>5, <2>6, <2>8
    <3>2. s.effectiveMultiplier = u.effectiveMultiplier
      BY <1>2, <3>1
    <3>3. e = f
      BY <2>2, <2>5, <2>6, <2>8, <3>1, <3>2
    <3> QED BY <1>3, <2>1, <2>6, <2>8, <3>3
  <2> QED BY <2>7, <2>8
<1> QED BY <1>4, <1>5, <1>6, ConfigFacts

-----------------------------------------------------------------------------
(* Two snapshots of tables whose states are derived from their readings.   *)

\* Every deployed Node has a state derived from the reading it names.
DerivedFrom(D, S, rows) ==
    /\ D \in [Nodes -> Deployment \cup {NULL}]
    /\ \A n \in Nodes : D[n] # NULL =>
          /\ S[n] \in StateRow
          /\ Derived(D[n].config, D[n].version, rows[n], S[n])
          /\ S[n].telemetryId # NULL => rows[n][S[n].telemetryId] \in Row

\* Equal ids mean equal hazards and equal validity, whenever they were read.
LEMMA SameIdSameSnapshot ==
    ASSUME NEW D, NEW S, NEW E, NEW U, NEW rows,
           NEW time \in Nat, NEW later \in Nat,
           DerivedFrom(D, S, rows), DerivedFrom(E, U, rows),
           \A n \in Nodes : D[n] # NULL /\ E[n] # NULL /\ D[n].version = E[n].version
                              => D[n] = E[n],
           getActiveSnapshot(D, S, time).snapshotId
             = getActiveSnapshot(E, U, later).snapshotId
    PROVE  /\ getActiveSnapshot(D, S, time).hazards
                = getActiveSnapshot(E, U, later).hazards
           /\ getActiveSnapshot(D, S, time).validUntil
                = getActiveSnapshot(E, U, later).validUntil
<1> DEFINE e == listEffective(D, S, time)
           f == listEffective(E, U, later)
<1>1. deterministicSnapshotId(D, e) = deterministicSnapshotId(E, f)
  BY DEF getActiveSnapshot
<1>2. /\ DOMAIN e = Deployed(D) /\ DOMAIN f = Deployed(E)
      /\ \A n \in Deployed(D) :
           e[n] = evaluateEffectiveSensorState(D[n].config, D[n].version, S[n], time)
      /\ \A n \in Deployed(E) :
           f[n] = evaluateEffectiveSensorState(E[n].config, E[n].version, U[n], later)
  BY DEF listEffective
<1> HIDE DEF e, f
<1>3. ASSUME NEW n \in Deployed(D)
      PROVE  /\ n \in Deployed(E)
             /\ D[n].version = E[n].version
             /\ e[n].telemetryId = f[n].telemetryId
             /\ e[n].effectiveLevel = f[n].effectiveLevel
             /\ e[n].freshness = f[n].freshness
  <2>1. <<n, D[n].version, e[n].telemetryId, e[n].effectiveLevel, e[n].freshness>>
          \in deterministicSnapshotId(E, f)
    BY <1>1, <1>2 DEF deterministicSnapshotId
  <2> QED BY <1>2, <2>1 DEF deterministicSnapshotId
<1>4. ASSUME NEW n \in Deployed(E) PROVE n \in Deployed(D)
  <2>1. <<n, E[n].version, f[n].telemetryId, f[n].effectiveLevel, f[n].freshness>>
          \in deterministicSnapshotId(D, e)
    BY <1>1, <1>2 DEF deterministicSnapshotId
  <2> QED BY <1>2, <2>1 DEF deterministicSnapshotId
<1>5. D = E
  <2>1. ASSUME NEW n \in Nodes PROVE D[n] = E[n]
    BY <1>3, <1>4 DEF Deployed
  <2> QED BY <2>1 DEF DerivedFrom
<1>6. ASSUME NEW n \in Deployed(D)
      PROVE  /\ e[n] = f[n]
             /\ D[n].config.enabled /\ e[n].validUntil # NULL =>
                  (e[n].validUntil >= time <=> e[n].validUntil >= later)
  <2> DEFINE c == D[n].config
             v == D[n].version
  <2>1. n \in Nodes /\ D[n] # NULL /\ D[n] \in Deployment
    BY DEF Deployed, DerivedFrom
  <2>2. /\ S[n] \in StateRow /\ Derived(c, v, rows[n], S[n])
        /\ S[n].telemetryId # NULL => rows[n][S[n].telemetryId] \in Row
        /\ U[n] \in StateRow /\ Derived(c, v, rows[n], U[n])
    BY <1>5, <2>1 DEF DerivedFrom
  <2>3. /\ e[n] = evaluateEffectiveSensorState(c, v, S[n], time)
        /\ f[n] = evaluateEffectiveSensorState(c, v, U[n], later)
    BY <1>2, <1>5
  <2>4. c \in Configs /\ v \in Nat \ {0}
    BY <2>1 DEF Deployment
  <2>5. /\ e[n].telemetryId = f[n].telemetryId
        /\ e[n].effectiveLevel = f[n].effectiveLevel
        /\ e[n].freshness = f[n].freshness
    BY <1>3
  <2> HIDE DEF c, v
  <2>6. /\ e[n] = f[n]
        /\ c.enabled /\ e[n].validUntil # NULL =>
             (e[n].validUntil >= time <=> e[n].validUntil >= later)
    BY <2>2, <2>3, <2>4, <2>5, SameEffective
  <2> QED BY <2>6 DEF c
<1>7. e = f
  <2>1. \A n \in Deployed(D) : e[n] = f[n]
    BY <1>6
  <2> QED BY <1>5, <2>1 DEF e, f, listEffective
<1>8. earliestFutureValidity(D, e, time) = earliestFutureValidity(E, f, later)
  <2> DEFINE ends(at) == {e[n].validUntil : n \in
                   {m \in DOMAIN e : /\ D[m].config.enabled
                                     /\ e[m].validUntil # NULL
                                     /\ e[m].validUntil >= at}}
  <2>1. {m \in DOMAIN e : /\ D[m].config.enabled /\ e[m].validUntil # NULL
                          /\ e[m].validUntil >= time}
        = {m \in DOMAIN e : /\ D[m].config.enabled /\ e[m].validUntil # NULL
                            /\ e[m].validUntil >= later}
    BY <1>2, <1>6
  <2>2. ends(time) = ends(later)
    BY <2>1
  <2>3. /\ earliestFutureValidity(D, e, time)
             = IF ends(time) = {} THEN NULL ELSE Min(ends(time))
        /\ earliestFutureValidity(D, e, later)
             = IF ends(later) = {} THEN NULL ELSE Min(ends(later))
    BY DEF earliestFutureValidity
  <2> HIDE DEF ends
  <2> QED BY <1>5, <1>7, <2>2, <2>3
<1> QED BY <1>5, <1>7, <1>8 DEF getActiveSnapshot, e, f

\* Until the first validity ends, the same tables give the same snapshot.
LEMMA SameTablesSameSnapshot ==
    ASSUME NEW D \in [Nodes -> Deployment \cup {NULL}], NEW S,
           \A n \in Nodes : D[n] # NULL => S[n] \in StateRow,
           NEW time \in Nat, NEW later \in Nat, time <= later,
           LET ends == getActiveSnapshot(D, S, time).validUntil
           IN  ends = NULL \/ ~(later > ends)
    PROVE  /\ getActiveSnapshot(D, S, later).snapshotId
                = getActiveSnapshot(D, S, time).snapshotId
           /\ getActiveSnapshot(D, S, later).hazards
                = getActiveSnapshot(D, S, time).hazards
<1> DEFINE e == listEffective(D, S, time)
           f == listEffective(D, S, later)
           ends == {e[n].validUntil : n \in
                      {m \in DOMAIN e : /\ D[m].config.enabled
                                        /\ e[m].validUntil # NULL
                                        /\ e[m].validUntil >= time}}
           first == IF ends = {} THEN NULL ELSE Min(ends)
<1>1. first = NULL \/ ~(later > first)
  BY DEF getActiveSnapshot, earliestFutureValidity
<1>2. DOMAIN e = Deployed(D)
  BY DEF listEffective
<1>3. ASSUME NEW n \in Deployed(D)
      PROVE  /\ D[n].config \in Configs /\ S[n] \in StateRow
             /\ e[n] = evaluateEffectiveSensorState(D[n].config, D[n].version, S[n], time)
             /\ f[n] = evaluateEffectiveSensorState(D[n].config, D[n].version, S[n], later)
             /\ e[n].validUntil = S[n].validUntil
             /\ S[n].validUntil \in Nat \cup {NULL}
  <2>1. n \in Nodes /\ D[n] # NULL /\ D[n] \in Deployment
    BY DEF Deployed
  <2>2. S[n] \in StateRow /\ S[n] # NULL
    BY <2>1, ConstantsAssumption
  <2>3. e[n] = evaluateEffectiveSensorState(D[n].config, D[n].version, S[n], time)
    BY DEF listEffective
  <2>4. f[n] = evaluateEffectiveSensorState(D[n].config, D[n].version, S[n], later)
    BY DEF listEffective
  <2>5. e[n].validUntil = S[n].validUntil
    BY <2>2, <2>3 DEF evaluateEffectiveSensorState
  <2> QED BY <2>1, <2>2, <2>3, <2>4, <2>5 DEF Deployment, StateRow
<1>4. ends \in SUBSET Nat
  BY <1>2, <1>3
<1>5. ASSUME NEW n \in Deployed(D), D[n].config.enabled, S[n].validUntil # NULL,
             ~(time > S[n].validUntil)
      PROVE  ~(later > S[n].validUntil)
  <2>1. S[n].validUntil \in Nat /\ S[n].validUntil >= time
    BY <1>3, <1>5
  <2>2. S[n].validUntil \in ends
    BY <1>2, <1>3, <1>5, <2>1
  <2> HIDE DEF ends
  <2>3. Min(ends) \in Nat /\ Min(ends) <= S[n].validUntil
    BY <1>4, <2>2, MinIsLeast
  <2>4. ~(later > Min(ends))
    BY <1>1, <2>2, <2>3, NullAssumption
  <2> QED BY <2>1, <2>3, <2>4
<1> HIDE DEF e, f, ends
<1>6. ASSUME NEW n \in Deployed(D) PROVE e[n] = f[n]
  <2> DEFINE c == D[n].config
             v == D[n].version
             s == S[n]
  <2>1. /\ c \in Configs /\ s \in StateRow /\ s # NULL
        /\ s.validUntil \in Nat \cup {NULL}
        /\ e[n] = evaluateEffectiveSensorState(c, v, s, time)
        /\ f[n] = evaluateEffectiveSensorState(c, v, s, later)
    BY <1>3, ConstantsAssumption
  <2>2. c.enabled /\ s.validUntil # NULL => (time > s.validUntil <=> later > s.validUntil)
    <3> SUFFICES ASSUME c.enabled, s.validUntil \in Nat
                 PROVE  time > s.validUntil <=> later > s.validUntil
      BY <2>1
    <3>1. ~(time > s.validUntil) => ~(later > s.validUntil)
      BY <1>5, NullAssumption
    <3> QED BY <3>1
  <2> HIDE DEF c, v, s
  <2> QED BY <2>1, <2>2 DEF evaluateEffectiveSensorState
<1>7. e = f
  BY <1>6 DEF e, f, listEffective
<1> QED BY <1>7 DEF getActiveSnapshot, e, f

-----------------------------------------------------------------------------
(* The snapshot a client keeps.                                            *)

\* The rows the kept snapshot was made from, against the rows of now: the
\* version has grown or nothing changed, and the reading is still there.
HeldRow(n) ==
    LET D == held.deployments
        S == held.state
    IN  /\ S[n] \in StateRow
        /\ Derived(D[n].config, D[n].version, telemetry[n], S[n])
        /\ S[n].telemetryId # NULL => S[n].telemetryId \in 1..Len(telemetry[n])
        /\ deployments[n] # NULL
        /\ D[n].version <= deployments[n].version
        /\ D[n].version = deployments[n].version => D[n] = deployments[n]

HeldInv ==
    held # NULL =>
        /\ held.deployments \in [Nodes -> Deployment \cup {NULL}]
        /\ held.snapshot.generatedAt \in Nat
        /\ held.snapshot = getActiveSnapshot(held.deployments, held.state,
                                             held.snapshot.generatedAt)
        /\ \A n \in Nodes : held.deployments[n] # NULL => HeldRow(n)

\* What is stored of a deployed Node now.
LEMMA StoredRow ==
    ASSUME IndInv, DerivedInv, NEW n \in Nodes, deployments[n] # NULL
    PROVE  /\ state[n] \in StateRow
           /\ deployments[n].version \in Nat
           /\ Derived(deployments[n].config, deployments[n].version, telemetry[n],
                      state[n])
           /\ state[n].telemetryId # NULL =>
                 /\ state[n].telemetryId \in 1..Len(telemetry[n])
                 /\ telemetry[n][state[n].telemetryId] \in Row
<1>1. state[n] # NULL /\ state[n] \in StateRow /\ deployments[n].version \in Nat
  BY DEF IndInv, TypeOK, StateMatchesConfig, Deployment
<1> QED BY <1>1, NamedRow DEF DerivedInv

\* Reading a snapshot makes HeldInv true.
LEMMA ReadHeld ==
    ASSUME IndInv, DerivedInv, NEW time \in 0..clock, Read(time)
    PROVE  HeldInv'
<1>1. /\ held' = [snapshot |-> getActiveSnapshot(deployments, state, time),
                  deployments |-> deployments, state |-> state]
      /\ deployments' = deployments /\ telemetry' = telemetry
  BY DEF Read, vars, database
<1>2. /\ held'.deployments = deployments /\ held'.state = state
      /\ held'.snapshot = getActiveSnapshot(deployments, state, time)
  BY <1>1
<1>3. held'.snapshot.generatedAt = time /\ time \in Nat
  BY <1>2 DEF getActiveSnapshot, IndInv, TypeOK
<1>4. deployments \in [Nodes -> Deployment \cup {NULL}]
  BY DEF IndInv, TypeOK
<1>5. ASSUME NEW n \in Nodes, deployments[n] # NULL PROVE HeldRow(n)'
  BY <1>1, <1>2, <1>5, StoredRow DEF HeldRow
<1> QED BY <1>2, <1>3, <1>4, <1>5 DEF HeldInv

\* Steps of the writers keep it: rows are only appended, versions only grow.
LEMMA WritersKeepHeld ==
    ASSUME IndInv, HeldInv, [Next]_vars, held' = held
    PROVE  HeldInv'
<1> SUFFICES ASSUME held # NULL PROVE HeldInv'
  BY DEF HeldInv
<1>1. ASSUME NEW n \in Nodes, held.deployments[n] # NULL PROVE HeldRow(n)'
  <2> DEFINE D == held.deployments
             S == held.state
             id == S[n].telemetryId
  <2>1. HeldRow(n) /\ D[n] \in Deployment
    BY <1>1 DEF HeldInv
  <2>2. /\ S[n] \in StateRow /\ deployments[n] # NULL
        /\ Derived(D[n].config, D[n].version, telemetry[n], S[n])
        /\ id # NULL => id \in 1..Len(telemetry[n])
        /\ D[n].version <= deployments[n].version
        /\ D[n].version = deployments[n].version => D[n] = deployments[n]
    BY <2>1 DEF HeldRow
  <2>3. /\ deployments'[n] # NULL
        /\ deployments'[n].version >= deployments[n].version
        /\ deployments'[n].version = deployments[n].version =>
              deployments'[n] = deployments[n]
    BY <2>2, NextKeepsVersion DEF KeepsVersion
  <2>4. /\ D[n].version \in Nat /\ deployments[n].version \in Nat
        /\ deployments'[n].version \in Nat
    <3>1. TypeOK /\ TypeOK'
      BY NextInd DEF IndInv
    <3> QED BY <2>1, <2>2, <2>3, <3>1 DEF TypeOK, Deployment
  <2>5. /\ D[n].version <= deployments'[n].version
        /\ D[n].version = deployments'[n].version => D[n] = deployments'[n]
    BY <2>2, <2>3, <2>4
  <2>6. /\ telemetry[n] \in Seq(Row) /\ telemetry'[n] \in Seq(Row)
        /\ Len(telemetry[n]) <= Len(telemetry'[n])
        /\ \A i \in 1..Len(telemetry[n]) : telemetry'[n][i] = telemetry[n][i]
    BY TelemetryGrows
  <2>7. id # NULL => /\ id \in 1..Len(telemetry'[n])
                     /\ telemetry'[n][id] = telemetry[n][id]
    BY <2>2, <2>6
  <2>8. Derived(D[n].config, D[n].version, telemetry'[n], S[n])
    BY <2>2, <2>7 DEF Derived
  <2> QED BY <2>2, <2>3, <2>5, <2>7, <2>8 DEF HeldRow
<1> QED BY <1>1 DEF HeldInv

\* What a client keeps stays derived from rows that are still there.
LEMMA HeldIsDerived == SnapshotSpec => [](IndInv /\ DerivedInv /\ HeldInv)
<1>1. SnapshotInit => HeldInv
  BY DEF SnapshotInit, HeldInv
<1>2. IndInv /\ DerivedInv /\ HeldInv /\ [SnapshotNext]_snapshotVars => HeldInv'
  <2> SUFFICES ASSUME IndInv, DerivedInv, HeldInv, [SnapshotNext]_snapshotVars
               PROVE  HeldInv'
    OBVIOUS
  <2>1. CASE [Next]_vars /\ held' = held
    BY <2>1, WritersKeepHeld
  <2>2. ASSUME NEW time \in 0..clock, Read(time) PROVE HeldInv'
    BY <2>2, ReadHeld
  <2>3. \/ [Next]_vars /\ held' = held
        \/ \E time \in 0..clock : Read(time)
    BY DEF SnapshotNext, snapshotVars
  <2> QED BY <2>1, <2>2, <2>3
<1>3. SnapshotSpec => []IndInv /\ [](DerivedInv /\ NowInv)
  BY ReadersOnlyRead, Inductive, StoredIsDerived, PTL
<1> QED BY <1>1, <1>2, <1>3, PTL DEF SnapshotSpec

\* Revalidation by id is sound: a later snapshot with the id of the kept one
\* has its hazards and its validity, although the id names only versions,
\* readings, levels and freshness.
THEOREM RevalidationIsSound == SnapshotSpec => []SameIdSameHazards
<1>1. ASSUME IndInv, DerivedInv, HeldInv, held # NULL, NEW time \in 0..clock,
             getActiveSnapshot(deployments, state, time).snapshotId
               = held.snapshot.snapshotId
      PROVE  /\ getActiveSnapshot(deployments, state, time).hazards
                  = held.snapshot.hazards
             /\ getActiveSnapshot(deployments, state, time).validUntil
                  = held.snapshot.validUntil
  <2> DEFINE D == held.deployments
             S == held.state
             at == held.snapshot.generatedAt
  <2>1. /\ D \in [Nodes -> Deployment \cup {NULL}] /\ at \in Nat
        /\ held.snapshot = getActiveSnapshot(D, S, at)
        /\ \A n \in Nodes : D[n] # NULL => HeldRow(n)
    BY <1>1 DEF HeldInv
  <2>2. DerivedFrom(D, S, telemetry)
    <3>1. ASSUME NEW n \in Nodes, D[n] # NULL, S[n].telemetryId # NULL
          PROVE  telemetry[n][S[n].telemetryId] \in Row
      <4>1. S[n].telemetryId \in 1..Len(telemetry[n])
        BY <2>1, <3>1 DEF HeldRow
      <4> QED BY <1>1, <4>1 DEF IndInv, TypeOK
    <3> QED BY <2>1, <3>1 DEF DerivedFrom, HeldRow
  <2>3. DerivedFrom(deployments, state, telemetry)
    <3>1. deployments \in [Nodes -> Deployment \cup {NULL}]
      BY <1>1 DEF IndInv, TypeOK
    <3> QED BY <1>1, <3>1, StoredRow DEF DerivedFrom
  <2>4. \A n \in Nodes : deployments[n] # NULL /\ D[n] # NULL
                           /\ deployments[n].version = D[n].version
                             => deployments[n] = D[n]
    BY <2>1 DEF HeldRow
  <2>5. time \in Nat
    BY <1>1 DEF IndInv, TypeOK
  <2>6. getActiveSnapshot(deployments, state, time).snapshotId
          = getActiveSnapshot(D, S, at).snapshotId
    BY <1>1, <2>1
  <2> HIDE DEF D, S, at
  <2>7. /\ getActiveSnapshot(deployments, state, time).hazards
             = getActiveSnapshot(D, S, at).hazards
        /\ getActiveSnapshot(deployments, state, time).validUntil
             = getActiveSnapshot(D, S, at).validUntil
    BY <2>1, <2>2, <2>3, <2>4, <2>5, <2>6, SameIdSameSnapshot
  <2> QED BY <2>1, <2>7
<1>2. IndInv /\ DerivedInv /\ HeldInv => SameIdSameHazards
  BY <1>1 DEF SameIdSameHazards
<1> QED BY <1>2, HeldIsDerived, PTL

\* validUntil is kept: while no row changes and it has not passed, a new
\* snapshot is the one the client already has.
THEOREM ValidUntilIsKept == SnapshotSpec => []ValidWhileUnchanged
<1>1. ASSUME IndInv, HeldInv, held # NULL, held.deployments = deployments,
             held.state = state, NEW time \in held.snapshot.generatedAt..clock,
             ~(held.snapshot.validUntil # NULL /\ time > held.snapshot.validUntil)
      PROVE  /\ getActiveSnapshot(deployments, state, time).snapshotId
                  = held.snapshot.snapshotId
             /\ getActiveSnapshot(deployments, state, time).hazards
                  = held.snapshot.hazards
  <2> DEFINE at == held.snapshot.generatedAt
  <2>1. /\ at \in Nat /\ held.snapshot = getActiveSnapshot(deployments, state, at)
    BY <1>1 DEF HeldInv
  <2>2. time \in Nat /\ at <= time
    BY <1>1, <2>1 DEF IndInv, TypeOK
  <2>3. /\ deployments \in [Nodes -> Deployment \cup {NULL}]
        /\ \A n \in Nodes : deployments[n] # NULL => state[n] \in StateRow
    BY <1>1 DEF IndInv, TypeOK, StateMatchesConfig
  <2>4. \/ getActiveSnapshot(deployments, state, at).validUntil = NULL
        \/ ~(time > getActiveSnapshot(deployments, state, at).validUntil)
    BY <1>1, <2>1
  <2> HIDE DEF at
  <2>5. /\ getActiveSnapshot(deployments, state, time).snapshotId
             = getActiveSnapshot(deployments, state, at).snapshotId
        /\ getActiveSnapshot(deployments, state, time).hazards
             = getActiveSnapshot(deployments, state, at).hazards
    BY <2>1, <2>2, <2>3, <2>4, SameTablesSameSnapshot
  <2> QED BY <2>1, <2>5
<1>2. IndInv /\ HeldInv => ValidWhileUnchanged
  BY <1>1 DEF ValidWhileUnchanged
<1> QED BY <1>2, HeldIsDerived, PTL
=============================================================================
