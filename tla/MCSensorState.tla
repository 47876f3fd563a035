---------------------------- MODULE MCSensorState ----------------------------
(***************************************************************************)
(* Small instances of SensorState: one Node, two requests at a time, and   *)
(* readings chosen around the thresholds so that every classification,     *)
(* hysteresis on both sides of its release boundary, an unusable reading,  *)
(* a second session and an untrusted Gateway clock all occur.              *)
(***************************************************************************)
EXTENDS SensorState, TLC

CONSTANTS n1, r1, r2  \* model values

Multipliers(unknown) ==
    [LOW |-> 100, MEDIUM |-> 70, HIGH |-> 30, BLOCKED |-> 0,
     UNKNOWN |-> unknown]

BaseConfig ==
    [enabled |-> TRUE, coverage |-> "A", referenceDistanceOverrideMm |-> NULL,
     staleAfterMinutes |-> 2, hysteresisMm |-> 1, mediumThresholdMm |-> 2,
     highThresholdMm |-> 4, blockedThresholdMm |-> 6,
     multiplier |-> Multipliers(50)]

\* A Backend reference below some measured distances, and a shorter freshness.
OverrideConfig == [BaseConfig EXCEPT !.referenceDistanceOverrideMm = 8,
                                     !.staleAfterMinutes = 1,
                                     !.multiplier = Multipliers(40)]
DisabledConfig == [BaseConfig EXCEPT !.enabled = FALSE]

MCConfigs == {BaseConfig, OverrideConfig, DisabledConfig}
TwoConfigs == {BaseConfig, OverrideConfig}
OneConfig == {BaseConfig}

\* A row that expires while its successor is on the way.
ShortConfig == [BaseConfig EXCEPT !.staleAfterMinutes = 1]
ExpiringConfig == {ShortConfig}

ReadingOf(session, sequence, gatewayAt, accepted, health) ==
    [session |-> session, sequence |-> sequence,
     gatewayReceivedAt |-> gatewayAt, referenceDistanceMm |-> 10,
     acceptedDistanceMm |-> accepted, filterState |-> "STABLE",
     qualityFlags |-> {"ACCEPTED_DISTANCE_VALID"}, healthFlags |-> health]

\* Heights 2 (MEDIUM), 1 (LOW, or MEDIUM held), 6 (BLOCKED).
MCReadings == {ReadingOf(1, 1, 0, 8, {}), ReadingOf(1, 2, NULL, 9, {}),
               ReadingOf(2, 1, 1, 4, {})}

\* MEDIUM, unusable, and a height of 1 that may be observed before or after.
ConfigReadings == {ReadingOf(1, 1, 0, 8, {}), ReadingOf(2, 1, NULL, 9, {}),
                   ReadingOf(1, 2, 0, 9, {"SONAR_INVALID"})}

DeployedShort == [n \in Nodes |-> [config |-> ShortConfig, version |-> 1]]
Undeployed == [n \in Nodes |-> NULL]

Symmetry == Permutations(Requests)
=============================================================================
