--------------------------- MODULE HazardGeometry ---------------------------
(***************************************************************************)
(* Hazards as the flood API takes them: a polygon is drawn point by point, *)
(* submitted and, if it is accepted, asked about points and routes.        *)
(*                                                                         *)
(*   src/src/flood/geometry/flood-geometry.validator.ts                    *)
(***************************************************************************)
EXTENDS FloodGeometry

CONSTANTS
    Grid,         \* where the corners of polygons are
    Probes,       \* where routes have their points
    Levels, Multipliers, Confidences,  \* what is sent with a polygon
    Lifetimes,    \* validUntil - observedAt
    maxPolygonVertices,
    MaxPoints     \* bound of the drawing

\* A multiplier that is not sent.
NoMultiplier == 1000

VARIABLES
    ring,     \* the ring that is drawn
    verdict   \* "drawing", "rejected" or "accepted"

vars == <<ring, verdict>>

Init == ring = << >> /\ verdict = "drawing"

Draw(p) ==
    /\ verdict = "drawing"
    /\ Len(ring) < MaxPoints
    /\ Len(ring) > 1 => ring[1] # Last(ring)
    /\ ring' = Append(ring, p)
    /\ UNCHANGED verdict

\* In hundredths.
defaultSimulationMultiplier(level) ==
    CASE level \in {"LOW", "UNKNOWN"} -> 100
      [] level = "MEDIUM" -> 35
      [] level = "HIGH" -> 5
      [] level = "BLOCKED" -> 0

routingMultiplier(hazard) ==
    IF hazard.routingMultiplier = NoMultiplier
    THEN defaultSimulationMultiplier(hazard.level)
    ELSE hazard.routingMultiplier

validateFloodHazard(hazard) ==
    /\ hazard.level \in {"LOW", "MEDIUM", "HIGH", "BLOCKED", "UNKNOWN"}
    /\ hazard.confidence \in 0..100
    /\ hazard.lifetime > 0
    /\ validateGeoJsonPolygon(<<hazard.ring>>, maxPolygonVertices)
    /\ routingMultiplier(hazard) \in 0..100

Submit(hazard) ==
    /\ verdict = "drawing"
    /\ Len(ring) > 1
    /\ verdict' = IF validateFloodHazard(hazard) THEN "accepted" ELSE "rejected"
    /\ UNCHANGED ring

Next ==
    \/ \E p \in Grid : Draw(p)
    \/ \E level \in Levels, m \in Multipliers, c \in Confidences, t \in Lifetimes :
          Submit([level |-> level, routingMultiplier |-> m, confidence |-> c,
                  lifetime |-> t, ring |-> ring])

Spec == Init /\ [][Next]_vars

-----------------------------------------------------------------------------
\* The variables hold what is drawn.
TypeOK ==
    /\ ToSet(ring) \subseteq Grid /\ Len(ring) <= MaxPoints
    /\ verdict \in {"drawing", "rejected", "accepted"}

\* A polygon is accepted only if it is closed and its edges meet nowhere but
\* at the corners they share, although adjacent edges are never compared with
\* each other; and none of these is refused for its shape.
AcceptedIffSimple ==
    LET simple == Len(ring) >= 4 /\ ring[1] = Last(ring) /\ Simple(ring)
    IN  /\ verdict = "accepted" => simple
        /\ verdict = "rejected" => ~simple \/ validRing(ring)

\* Where an accepted polygon lies is found: a point strictly inside is told
\* from one outside, and a straight stretch of a route that passes through
\* the polygon counts as affected although no point of the route is inside.
FloodedStretchesAreSeen ==
    LET far == {p \in Probes : InGeneralPosition(p, ring)}
    IN  verdict = "accepted" =>
          /\ \A p \in far : isPointInsidePolygon(p, <<ring>>) = Inside(p, ring)
          /\ \A p, q \in far :
                p # q /\ (\E k \in 1..23 :
                    Inside(Step(p, q, k, 24), [i \in DOMAIN ring |-> Scaled(ring[i], 24)]))
                => Overlap(<<p, q>>, <<ring>>) > 0
=============================================================================
