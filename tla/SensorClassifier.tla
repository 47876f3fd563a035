--------------------------- MODULE SensorClassifier ---------------------------
(***************************************************************************)
(* The pure part of the sensor pipeline: how one deployment configuration, *)
(* one telemetry row and the previous classification give the row of       *)
(* iot_sensor_state, and how that row is overlaid with the current time    *)
(* when somebody reads it.                                                 *)
(*                                                                         *)
(*   src/src/flood/sensors/sensor-classifier.ts                            *)
(*   src/src/flood/sensors/sensor-deployment.models.ts                     *)
(*   src/src/flood/sensors/sensor-deployment.validator.ts                  *)
(*                                                                         *)
(* Distances are integers (millimetres), times are integers in the unit of *)
(* staleAfterMinutes, multipliers are integers with One standing for 1.0.  *)
(* Position, polygon and poll interval, which the classifier only carries, *)
(* are one opaque field, coverage.                                         *)
(***************************************************************************)
EXTENDS Integers

CONSTANT NULL  \* null of JavaScript and of SQL

ASSUME NullAssumption == NULL \notin Int

\* The integer that stands for the routing multiplier 1.0; 0 stands for 0.0.
One == 100

LevelNames == <<"LOW", "MEDIUM", "HIGH", "BLOCKED">>
ClassifiedLevels == {"LOW", "MEDIUM", "HIGH", "BLOCKED"}
FloodRiskLevels == ClassifiedLevels \cup {"UNKNOWN"}

\* levels.indexOf(level) of classifyWithHysteresis, counted from 0.
LevelIndex(level) ==
    IF level = "LOW" THEN 0
    ELSE IF level = "MEDIUM" THEN 1
    ELSE IF level = "HIGH" THEN 2 ELSE 3

-----------------------------------------------------------------------------
(* Deployment configuration.                                               *)

upwardThresholds(c) ==
    <<c.mediumThresholdMm, c.highThresholdMm, c.blockedThresholdMm>>

\* validateSensorDeployment and the CHECK constraints of the table agree on
\* this: ordered thresholds, a hysteresis that overlaps no release boundary,
\* a reference override of null or at least 1, multipliers from 0 to 1.
validateSensorDeployment(c) ==
    /\ c.enabled \in BOOLEAN
    /\ c.staleAfterMinutes \in Nat \ {0}
    /\ c.hysteresisMm \in Nat
    /\ c.mediumThresholdMm \in Nat
    /\ c.highThresholdMm \in Nat
    /\ c.blockedThresholdMm \in Nat
    /\ c.mediumThresholdMm < c.highThresholdMm
    /\ c.highThresholdMm < c.blockedThresholdMm
    /\ c.hysteresisMm <= c.mediumThresholdMm
    /\ c.hysteresisMm <= c.highThresholdMm - c.mediumThresholdMm
    /\ c.hysteresisMm <= c.blockedThresholdMm - c.highThresholdMm
    /\ c.referenceDistanceOverrideMm = NULL
       \/ c.referenceDistanceOverrideMm \in Nat \ {0}
    /\ c.multiplier \in [FloodRiskLevels -> 0..One]

multiplierForLevel(c, level) == c.multiplier[level]

-----------------------------------------------------------------------------
(* Classification of a water height.                                       *)

classifyDirect(h, c) ==
    IF h >= c.blockedThresholdMm THEN "BLOCKED"
    ELSE IF h >= c.highThresholdMm THEN "HIGH"
    ELSE IF h >= c.mediumThresholdMm THEN "MEDIUM" ELSE "LOW"

\* Mutant: the climbing loop tests > where the code tests >=.
ClimbsToStrictly(h, c, start, i) ==
    /\ i \in start..3
    /\ \A k \in start..(i - 1) : h > upwardThresholds(c)[k + 1]
    /\ i < 3 => h <= upwardThresholds(c)[i + 1]

\* The first while loop of classifyWithHysteresis stops at the first index,
\* from start upwards, whose upward threshold the water has not reached.
ClimbsTo(h, c, start, i) ==
    /\ i \in start..3
    /\ \A k \in start..(i - 1) : h >= upwardThresholds(c)[k + 1]
    /\ i < 3 => h < upwardThresholds(c)[i + 1]

\* The second loop stops at the first index, from start downwards, whose
\* threshold minus the hysteresis the water is not strictly below.
DropsTo(h, c, start, i) ==
    /\ i \in 0..start
    /\ \A k \in (i + 1)..start : h < upwardThresholds(c)[k] - c.hysteresisMm
    /\ i > 0 => h >= upwardThresholds(c)[i] - c.hysteresisMm

classifyWithHysteresis(h, previousLevel, c) ==
    LET up == CHOOSE i \in 0..3 : ClimbsTo(h, c, LevelIndex(previousLevel), i)
        down == CHOOSE i \in 0..3 : DropsTo(h, c, up, i)
    IN  LevelNames[down + 1]

-----------------------------------------------------------------------------
(* Telemetry rows: what the classifier reads of iot_telemetry.  A row has  *)
(* a gatewayReceivedAt exactly when the Gateway trusted its clock (the     *)
(* CHECK iot_gateway_time_consistency), so the flag is not kept apart.     *)

USABLE_FILTER_STATES ==
    {"STABLE", "ACCEPTED", "TRANSIENT_REJECTED", "CHANGE_CONFIRMED"}

UNUSABLE_HEALTH_FLAGS ==
    {"SONAR_INVALID", "FILTER_UNCERTAIN", "CALIBRATION_MISSING"}

selectObservationTime(t) ==
    IF t.gatewayReceivedAt # NULL
    THEN [observedAt |-> t.gatewayReceivedAt, source |-> "GATEWAY"]
    ELSE [observedAt |-> t.serverReceivedAt, source |-> "SERVER"]

\* deployment.referenceDistanceOverrideMm ?? telemetry.referenceDistanceMm
effectiveReference(c, t) ==
    IF c.referenceDistanceOverrideMm # NULL
    THEN c.referenceDistanceOverrideMm
    ELSE t.referenceDistanceMm

\* A Backend override makes the Node's calibration flag irrelevant.
healthMask(c) ==
    IF c.referenceDistanceOverrideMm = NULL
    THEN UNUSABLE_HEALTH_FLAGS
    ELSE UNUSABLE_HEALTH_FLAGS \ {"CALIBRATION_MISSING"}

SensorReasonCode ==
    {"NO_TELEMETRY", "STALE", "REFERENCE_DISTANCE_MISSING",
     "ACCEPTED_DISTANCE_MISSING", "FILTER_INVALID", "SENSOR_UNHEALTHY",
     "DEPLOYMENT_DISABLED"}

telemetryReasonCodes(c, t) ==
    {r \in {"REFERENCE_DISTANCE_MISSING", "ACCEPTED_DISTANCE_MISSING",
            "FILTER_INVALID", "SENSOR_UNHEALTHY"} :
        \/ r = "REFERENCE_DISTANCE_MISSING" /\ effectiveReference(c, t) = NULL
        \/ r = "ACCEPTED_DISTANCE_MISSING" /\ t.acceptedDistanceMm = NULL
        \/ r = "FILTER_INVALID" /\ t.filterState \notin USABLE_FILTER_STATES
        \/ /\ r = "SENSOR_UNHEALTHY"
           /\ \/ t.healthFlags \cap healthMask(c) # {}
              \/ /\ t.acceptedDistanceMm # NULL
                 /\ "ACCEPTED_DISTANCE_VALID" \notin t.qualityFlags}

waterHeight(c, t) ==
    LET d == effectiveReference(c, t) - t.acceptedDistanceMm
    IN  IF d > 0 THEN d ELSE 0

-----------------------------------------------------------------------------
(* The row of iot_sensor_state.  telemetryId is the row's id; the columns  *)
(* copied from the telemetry row (distances) are found through it.         *)

unknownState(c, version, status, reasons) ==
    [telemetryId |-> NULL, observedAt |-> NULL, observationSource |-> NULL,
     validUntil |-> NULL, waterHeightMm |-> NULL,
     classifiedLevel |-> "UNKNOWN", classificationStatus |-> status,
     effectiveMultiplier |-> c.multiplier["UNKNOWN"], reasonCodes |-> reasons,
     classificationConfigVersion |-> version]

\* Mutant: the previous state is dropped at validUntil, not after it.
canUseHysteresisBefore(previous, version, now) ==
    /\ previous # NULL
    /\ previous.classificationStatus = "VALID"
    /\ previous.classifiedLevel # "UNKNOWN"
    /\ previous.classificationConfigVersion = version
    /\ previous.validUntil # NULL
    /\ now < previous.validUntil

canUseHysteresis(previous, version, now) ==
    /\ previous # NULL
    /\ previous.classificationStatus = "VALID"
    /\ previous.classifiedLevel # "UNKNOWN"
    /\ previous.classificationConfigVersion = version
    /\ previous.validUntil # NULL
    /\ now <= previous.validUntil

\* The three ways a row with telemetry is classified: the deployment is
\* disabled, the measurement is unusable, or the height gets a level.
classificationOf(c, version, t, previous, now) ==
    LET reasons == telemetryReasonCodes(c, t)
        h == waterHeight(c, t)
        level == IF canUseHysteresis(previous, version, now)
                 THEN classifyWithHysteresis(h, previous.classifiedLevel, c)
                 ELSE classifyDirect(h, c)
    IN  IF ~c.enabled
        THEN [height |-> NULL, level |-> "UNKNOWN", status |-> "DISABLED",
              reasons |-> {"DEPLOYMENT_DISABLED"}]
        ELSE IF reasons # {}
        THEN [height |-> NULL, level |-> "UNKNOWN", status |-> "UNKNOWN",
              reasons |-> reasons]
        ELSE [height |-> h, level |-> level, status |-> "VALID", reasons |-> {}]

\* deriveSensorState for the telemetry row t with id telemetryId.
deriveFromTelemetry(c, version, t, telemetryId, previous, now) ==
    LET observation == selectObservationTime(t)
        result == classificationOf(c, version, t, previous, now)
    IN  [telemetryId |-> telemetryId,
         observedAt |-> observation.observedAt,
         observationSource |-> observation.source,
         validUntil |-> observation.observedAt + c.staleAfterMinutes,
         waterHeightMm |-> result.height,
         classifiedLevel |-> result.level,
         classificationStatus |-> result.status,
         effectiveMultiplier |-> multiplierForLevel(c, result.level),
         reasonCodes |-> result.reasons,
         classificationConfigVersion |-> version]

\* deriveSensorState when the Node has never been heard.
deriveWithoutTelemetry(c, version) ==
    IF c.enabled
    THEN unknownState(c, version, "UNKNOWN", {"NO_TELEMETRY"})
    ELSE unknownState(c, version, "DISABLED", {"DEPLOYMENT_DISABLED"})

-----------------------------------------------------------------------------
(* What a reader is told: the stored row overlaid with the reader's time.  *)

evaluateEffectiveSensorState(c, version, stored, now) ==
    LET state == IF stored # NULL THEN stored
                 ELSE unknownState(c, version, "UNKNOWN", {"NO_TELEMETRY"})
        overlay(freshness, level, multiplier, reasons) ==
            [freshness |-> freshness, effectiveLevel |-> level,
             effectiveMultiplier |-> multiplier, reasonCodes |-> reasons,
             telemetryId |-> state.telemetryId,
             observedAt |-> state.observedAt,
             validUntil |-> state.validUntil,
             classificationStatus |-> state.classificationStatus]
        unknown(freshness, reasons) ==
            overlay(freshness, "UNKNOWN", c.multiplier["UNKNOWN"], reasons)
    IN  IF ~c.enabled
        THEN unknown("DISABLED", {"DEPLOYMENT_DISABLED"})
        ELSE IF state.telemetryId = NULL \/ state.validUntil = NULL
        THEN unknown("NO_TELEMETRY", {"NO_TELEMETRY"})
        ELSE IF now > state.validUntil
        THEN unknown("STALE", state.reasonCodes \cup {"STALE"})
        ELSE overlay("FRESH", state.classifiedLevel,
                     state.effectiveMultiplier, state.reasonCodes)
=============================================================================
