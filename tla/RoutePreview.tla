---------------------------- MODULE RoutePreview ----------------------------
(***************************************************************************)
(* A route preview: one flood snapshot, one or two calls of the routing    *)
(* engine, and the routes that avoid what is blocked, the best one first.  *)
(*                                                                         *)
(*   src/src/routes/routes.service.ts                                      *)
(*   src/src/flood/geometry/route-flood-evaluator.ts (evaluateRoute)       *)
(*                                                                         *)
(* The hazards change while a request waits for the snapshot or for the    *)
(* engine.  A snapshot's id stands for its hazards (FloodSnapshot shows    *)
(* that equal ids have equal hazards), so the hazards are the id.          *)
(* Multipliers, scores and confidences are in hundredths.                  *)
(***************************************************************************)
EXTENDS GraphHopperClient

CONSTANTS
    HazardLists,    \* what may be active: sequences of hazards
    Inputs,         \* requests: origin, destination, alternatives
    Answers,        \* what the engine may answer
    IdRank,         \* geometry |-> the place of its stableRouteId
    MaxChanges      \* bound: how often the hazards change

VARIABLES
    hazards,  \* active now
    req,      \* the request: its status, what it holds and its answer
    changes

vars == <<hazards, req, changes>>

Init ==
    /\ hazards \in HazardLists
    /\ req = [status |-> "new"]
    /\ changes = 0

HazardsChange ==
    /\ changes < MaxChanges
    /\ changes' = changes + 1
    /\ \E list \in HazardLists : hazards' = list
    /\ UNCHANGED req

-----------------------------------------------------------------------------
(* Evaluation.                                                             *)

RISK_LEVEL_SEVERITY ==
    [LOW |-> 0, UNKNOWN |-> 1, MEDIUM |-> 2, HIGH |-> 3, BLOCKED |-> 4]

\* A validity that has no end.
NoDate == 0

earliestValidUntil(list) ==
    LET dates == {list[i].validUntil : i \in DOMAIN list} \ {NoDate}
    IN  IF dates = {} THEN NoDate ELSE Min(dates)

NoRisk(confidence, validUntil, snapshotId) ==
    [level |-> "LOW", score |-> 0, intersectsBlockedArea |-> FALSE,
     affectedDistanceMeters |-> 0, confidence |-> confidence,
     reason |-> "NO_ACTIVE_FLOOD_INTERSECTION",
     validUntil |-> validUntil, hazardSnapshotId |-> snapshotId]

\* Distances are doubled, as in FloodGeometry.
evaluateRoute(route, list, snapshotId) ==
    LET overlap == [i \in DOMAIN list |-> Overlap(route.coordinates, list[i].rings)]
        hit == {i \in DOMAIN list : overlap[i] > 0}
        severest == CHOOSE i \in hit : \A j \in hit :
                        RISK_LEVEL_SEVERITY[list[i].level] >= RISK_LEVEL_SEVERITY[list[j].level]
        penalty == Max({100 - list[i].routingMultiplier : i \in hit})
        blocked == \E i \in hit : list[i].routingMultiplier = 0
    IN  IF list = << >> THEN NoRisk(100, NoDate, snapshotId)
        ELSE IF hit = {} THEN NoRisk(90, earliestValidUntil(list), snapshotId)
        ELSE [level |-> list[severest].level,
              score |-> IF blocked THEN 100 ELSE Min({100, penalty}),
              intersectsBlockedArea |-> blocked,
              affectedDistanceMeters |-> MapThenSumSet(LAMBDA i : overlap[i], hit),
              confidence |-> MapThenSumSet(LAMBDA i : list[i].confidence, hit)
                                 \div Cardinality(hit),
              reason |-> IF blocked THEN "BLOCKED_HAZARD_INTERSECTION"
                         ELSE IF penalty = 0
                         THEN "MONITORED_AREA_INTERSECTION_NO_ROUTING_PENALTY"
                         ELSE "FLOOD_HAZARD_INTERSECTION",
              validUntil |-> earliestValidUntil(SelectSeq(list, LAMBDA h :
                                 \E i \in hit : list[i] = h)),
              hazardSnapshotId |-> snapshotId]

-----------------------------------------------------------------------------
(* preview                                                                 *)

Fail(code) == req' = [req EXCEPT !.status = "answered", !.code = code]

Start(input) ==
    /\ req.status = "new"
    /\ req' = [status |-> IF input.origin = input.destination
                          THEN "answered" ELSE "snapshot",
               code |-> IF input.origin = input.destination
                        THEN "VALIDATION_ERROR" ELSE "none",
               input |-> input, snapshot |-> << >>, customModel |-> << >>,
               proposed |-> << >>, answer |-> << >>, diagnosed |-> FALSE]
    /\ UNCHANGED <<hazards, changes>>

hardExclusionHazards(list) == SelectSeq(list, LAMBDA h : h.routingMultiplier = 0)

\* The error of the first hard exclusion that holds the origin or, if not, the
\* destination.
EndpointError(list) ==
    LET hard == hardExclusionHazards(list)
        origin == {i \in DOMAIN hard : isPointInsidePolygon(req.input.origin, hard[i].rings)}
        destination == {i \in DOMAIN hard :
                           isPointInsidePolygon(req.input.destination, hard[i].rings)}
    IN  IF origin \union destination = {} THEN "none"
        ELSE IF Min(origin \union destination) \in origin THEN "ORIGIN_IN_BLOCKED_AREA"
        ELSE "DESTINATION_IN_BLOCKED_AREA"

\* getActiveSnapshot returns; then the end points are checked and the engine
\* is called with the snapshot's hazards.
SnapshotReturns ==
    LET error == EndpointError(hazards)
    IN  /\ req.status = "snapshot"
        /\ req' = [req EXCEPT
               !.status = IF error = "none" THEN "routing" ELSE "answered",
               !.code = error,
               !.snapshot = hazards,
               !.customModel = IF error = "none" THEN buildCustomModel(hazards) ELSE @]
        /\ UNCHANGED <<hazards, changes>>

SnapshotFails ==
    /\ req.status = "snapshot"
    /\ Fail("INTERNAL_ERROR")
    /\ UNCHANGED <<hazards, changes>>

mapProviderError(kind) ==
    [NO_ROUTE |-> "NO_ROUTE", TIMEOUT |-> "ROUTING_TIMEOUT",
     INVALID_RESPONSE |-> "ROUTING_RESPONSE_INVALID",
     UNAVAILABLE |-> "ROUTING_UNAVAILABLE"][kind]

\* Mutant: distance is compared before duration.
BetterShort(a, b) ==
    \/ a.risk.score < b.risk.score
    \/ a.risk.score = b.risk.score /\ a.route.distanceMeters < b.route.distanceMeters

\* The order of usable routes: score, duration, distance, route id.
Better(a, b) ==
    \/ a.risk.score < b.risk.score
    \/ /\ a.risk.score = b.risk.score
       /\ \/ a.route.durationSeconds < b.route.durationSeconds
          \/ /\ a.route.durationSeconds = b.route.durationSeconds
             /\ \/ a.route.distanceMeters < b.route.distanceMeters
                \/ /\ a.route.distanceMeters = b.route.distanceMeters
                   /\ IdRank[a.route.coordinates] < IdRank[b.route.coordinates]

\* Mutant: the routes are evaluated with what is active by now.
EvaluatedNow(routes) ==
    [i \in DOMAIN routes |->
        [route |-> routes[i],
         risk |-> evaluateRoute(routes[i], hazards, req.snapshot)]]

Evaluated(routes) ==
    [i \in DOMAIN routes |->
        [route |-> routes[i],
         risk |-> evaluateRoute(routes[i], req.snapshot, req.snapshot)]]

Usable(routes) ==
    SelectSeq(Evaluated(Take(routes, req.input.alternatives + 1)),
              LAMBDA e : ~e.risk.intersectsBlockedArea)

\* The engine answers the call with the hazards.
EngineReturns(answer) ==
    LET result == preview(req.input, answer)
        usable == Usable(result.routes)
    IN  /\ req.status = "routing"
        /\ IF result.error = "NO_ROUTE" /\ hardExclusionHazards(req.snapshot) # << >>
           THEN req' = [req EXCEPT !.status = "baseline"]
           ELSE IF result.error # "none" THEN Fail(mapProviderError(result.error))
           ELSE req' = [req EXCEPT
                    !.status = "answered",
                    !.code = IF usable = << >> THEN "NO_ROUTE_DUE_TO_FLOOD" ELSE "OK",
                    !.proposed = result.routes,
                    !.answer = SortSeq(usable, Better)]
        /\ UNCHANGED <<hazards, changes>>

\* Mutant: a failed diagnosis is taken for a found route.
BaselineCodeAny(result) == "NO_ROUTE_DUE_TO_FLOOD"

\* What the diagnosis shows; its own errors are swallowed.
BaselineCode(result) ==
    IF result.error = "none" THEN "NO_ROUTE_DUE_TO_FLOOD" ELSE mapProviderError("NO_ROUTE")

\* It answers the diagnostic call without them.
BaselineReturns(answer) ==
    LET result == preview(req.input, answer)
    IN  /\ req.status = "baseline"
        /\ req' = [req EXCEPT !.status = "answered",
                              !.code = BaselineCode(result),
                              !.diagnosed = TRUE,
                              !.proposed = result.routes]
        /\ UNCHANGED <<hazards, changes>>

Next ==
    \/ HazardsChange
    \/ \E input \in Inputs : Start(input)
    \/ SnapshotReturns \/ SnapshotFails
    \/ \E answer \in Answers : EngineReturns(answer) \/ BaselineReturns(answer)

Spec == Init /\ [][Next]_vars

-----------------------------------------------------------------------------
(* Reference geometry, for rings that are convex.                          *)

\* On one side of all edges: strictly, or at most on one.
StrictlyIn(p, ring) ==
    \E o \in {1, -1} : \A i \in Edges(ring) : orientation(ring[i], ring[i + 1], p) = o
WeaklyIn(p, ring) ==
    \E o \in {1, -1} : \A i \in Edges(ring) : orientation(ring[i], ring[i + 1], p) \in {o, 0}

Covers(rings, p) ==
    /\ StrictlyIn(p, rings[1])
    /\ \A i \in 2..Len(rings) : ~WeaklyIn(p, rings[i])

\* Does a route pass through an area?  Segments are looked at in 24 places
\* between their ends, which is all that matters for differences of 2, 4 and 6.
PassesThrough(points, area) ==
    LET rings == [r \in DOMAIN area |-> [i \in DOMAIN area[r] |-> Scaled(area[r][i], 24)]]
    IN  \E i \in 1..Len(points) - 1 : \E k \in 0..24 :
            Covers(rings, Step(points[i], points[i + 1], k, 24))

BlockedFor(points, list) ==
    \E i \in DOMAIN list : list[i].routingMultiplier = 0 /\ PassesThrough(points, list[i].rings)

Penalty(points, list) ==
    Max({100 - list[i].routingMultiplier :
            i \in {j \in DOMAIN list : PassesThrough(points, list[j].rings)}} \union {0})

Answered(code) == req.status = "answered" /\ req.code = code

-----------------------------------------------------------------------------
\* The variables hold what the service keeps.
TypeOK ==
    /\ hazards \in HazardLists
    /\ req.status \in {"new", "snapshot", "routing", "baseline", "answered"}
    /\ changes \in 0..MaxChanges

\* Whatever the engine proposes and however the hazards change meanwhile, a
\* route that is answered passes through no area that is blocked in the
\* snapshot the answer names, which is the one the engine was asked with.
AnswersAvoidBlockedAreas ==
    Answered("OK") => \A i \in DOMAIN req.answer :
        LET named == req.answer[i].risk.hazardSnapshotId
        IN  /\ ~BlockedFor(req.answer[i].route.coordinates, named)
            /\ buildCustomModel(named) = req.customModel

\* The first route is recommended: no other route the engine proposed avoids
\* the blocked areas with a lower penalty or, at the same penalty, in less
\* time or, in the same time, over a shorter distance; and none of those it
\* proposed and that are not blocked is withheld.
RecommendedIsSafest ==
    Answered("OK") =>
        LET open == {i \in DOMAIN req.proposed :
                        ~BlockedFor(req.proposed[i].coordinates, req.snapshot)}
            Cost(route) == <<Penalty(route.coordinates, req.snapshot),
                             route.durationSeconds, route.distanceMeters>>
            NotWorse(a, b) ==
                \/ a = b
                \/ \E k \in 1..3 : a[k] < b[k] /\ \A j \in 1..k - 1 : a[j] = b[j]
        IN  /\ {req.proposed[i] : i \in open} = {e.route : e \in ToSet(req.answer)}
            /\ \A i \in open : NotWorse(Cost(req.answer[1].route), Cost(req.proposed[i]))

\* A flood is named as the reason only if it is: an end point lies in an area
\* blocked in the request's snapshot; every route the engine proposed passes
\* through one; or the engine found a route only when it was not told of them.
\* A request that failed although areas were blocked was diagnosed so.
FloodIsTheReason ==
    LET hard == hardExclusionHazards(req.snapshot)
        Holds(p) == \E i \in DOMAIN hard : Covers(hard[i].rings, p)
    IN  /\ Answered("ORIGIN_IN_BLOCKED_AREA") => Holds(req.input.origin)
        /\ Answered("DESTINATION_IN_BLOCKED_AREA") => Holds(req.input.destination)
        /\ Answered("NO_ROUTE_DUE_TO_FLOOD") =>
              /\ hard # << >>
              /\ req.proposed # << >>
              /\ req.diagnosed \/ \A i \in DOMAIN req.proposed :
                    BlockedFor(req.proposed[i].coordinates, req.snapshot)
        /\ Answered("NO_ROUTE") /\ hard # << >> => req.diagnosed /\ req.proposed = << >>
        /\ Answered("OK") => ~Holds(req.input.origin) /\ ~Holds(req.input.destination)

\* The steps of an answered route lead from its first to its last point
\* without a gap, and where a roundabout is left the modifier names the side
\* the route really turns to.
StepsFollowTheRoute ==
    Answered("OK") => \A n \in DOMAIN req.answer :
        LET points == req.answer[n].route.coordinates
            steps == req.answer[n].route.steps
            Covered == UNION {steps[i].geometryStartIndex..steps[i].geometryEndIndex :
                                 i \in DOMAIN steps}
            Turn(k) == orientation(points[k], points[k + 1], points[k + 2])
        IN  /\ Covered = 0..Len(points) - 1
            /\ \A i \in 2..Len(steps) :
                  steps[i].geometryStartIndex = steps[i - 1].geometryEndIndex
            /\ \A i \in DOMAIN steps :
                  LET k == steps[i].geometryStartIndex
                  IN  (steps[i].type = "EXIT_ROUNDABOUT" /\ Turn(k) # 0) =>
                          steps[i].modifier \in
                              IF Turn(k) > 0 THEN {"SLIGHT_LEFT", "LEFT", "SHARP_LEFT"}
                              ELSE {"SLIGHT_RIGHT", "RIGHT", "SHARP_RIGHT"}
=============================================================================
