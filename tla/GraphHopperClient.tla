-------------------------- MODULE GraphHopperClient --------------------------
(***************************************************************************)
(* The client of the routing engine: what is asked of GraphHopper, and     *)
(* which of its answers are taken.                                         *)
(*                                                                         *)
(*   src/src/routes/graphhopper.client.ts                                  *)
(*                                                                         *)
(* The engine is external: it may answer a call with anything.  An answer  *)
(* is a record whose kind says how the call ended: "abort" (the timer      *)
(* fired), "network", "garbled" (too long, no JSON, or no paths in it),    *)
(* "http" with a status and whether the text speaks of a missing route, or *)
(* "paths".  Positions are those of FloodGeometry, a unit being the sixth  *)
(* decimal that geometries are compared to.                                *)
(***************************************************************************)
EXTENDS FloodGeometry

CONSTANTS
    MAX_ENDPOINT_SNAP_DISTANCE_METERS,  \* 500
    MAX_GEOMETRY_POINTS                 \* 50_000

MAX_NAVIGATION_STEPS == 50000

\* There is no bearing.
NoBearing == -1

-----------------------------------------------------------------------------
(* Manoeuvres.                                                             *)

\* Clockwise from north, for the eight directions of a compass.
bearingDegrees(start, end) ==
    LET dx == end[1] - start[1]
        dy == end[2] - start[2]
    IN  CASE dx = 0 /\ dy = 0 -> NoBearing
          [] dx = 0 -> IF dy > 0 THEN 0 ELSE 180
          [] dy = 0 -> IF dx > 0 THEN 90 ELSE 270
          [] dx > 0 -> IF dy > 0 THEN 45 ELSE 135
          [] dx < 0 -> IF dy > 0 THEN 315 ELSE 225

\* The bearings of a route's segments, numbered from 0 by their first point.
Bearing(points, i) == bearingDegrees(points[i + 1], points[i + 2])

\* Of the last segment of some length that ends at or before point i ...
bearingBeforeIndex(points, i) ==
    LET moving == {k \in 0..i - 1 : Bearing(points, k) # NoBearing}
    IN  IF moving = {} THEN NoBearing ELSE Bearing(points, Max(moving))

\* ... and of the first one that starts at or after it.
bearingAfterIndex(points, i) ==
    LET moving == {k \in i..Len(points) - 2 : Bearing(points, k) # NoBearing}
    IN  IF moving = {} THEN NoBearing ELSE Bearing(points, Min(moving))

\* The remainder of JavaScript has the sign of its first operand.
Remainder(a, b) == IF a >= 0 THEN a % b ELSE -((-a) % b)

\* Mutant: the angle is made positive only by half a turn.
normalizeTurnDegreesShort(degrees) == Remainder(degrees + 180, 360) - 180

normalizeTurnDegrees(degrees) == Remainder(degrees + 540, 360) - 180

Side(negative, left, right) == IF negative THEN left ELSE right

modifierFromBearings(before, after) ==
    LET delta == normalizeTurnDegrees(after - before)
        magnitude == Max({delta, -delta})
    IN  CASE before = NoBearing \/ after = NoBearing -> "STRAIGHT"
          [] magnitude < 15 -> "STRAIGHT"
          [] magnitude >= 165 -> "U_TURN"
          [] magnitude < 45 -> Side(delta < 0, "SLIGHT_LEFT", "SLIGHT_RIGHT")
          [] magnitude < 135 -> Side(delta < 0, "LEFT", "RIGHT")
          [] OTHER -> Side(delta < 0, "SHARP_LEFT", "SHARP_RIGHT")

U_TURN_SIGNS == {-98, -8, 8}

modifierForSign(sign, before, after) ==
    CASE sign \in {-1, 1} -> Side(sign < 0, "SLIGHT_LEFT", "SLIGHT_RIGHT")
      [] sign \in {-2, 2} -> Side(sign < 0, "LEFT", "RIGHT")
      [] sign \in {-3, 3} -> Side(sign < 0, "SHARP_LEFT", "SHARP_RIGHT")
      [] sign \in U_TURN_SIGNS -> "U_TURN"
      [] OTHER -> modifierFromBearings(before, after)

\* <<type, modifier>>
mapManoeuvre(sign, isFirst, before, after) ==
    CASE sign \in {4, 5} -> <<"ARRIVE", "NONE">>
      [] isFirst -> <<"DEPART", modifierForSign(sign, before, after)>>
      [] sign = 0 -> <<"CONTINUE", "STRAIGHT">>
      [] sign \in {-1, 1} -> <<"SLIGHT_TURN", modifierForSign(sign, before, after)>>
      [] sign \in {-2, 2} -> <<"TURN", modifierForSign(sign, before, after)>>
      [] sign \in {-3, 3} -> <<"SHARP_TURN", modifierForSign(sign, before, after)>>
      [] sign \in U_TURN_SIGNS -> <<"U_TURN", "U_TURN">>
      [] sign = 6 -> <<"ROUNDABOUT", modifierFromBearings(before, after)>>
      [] sign = -6 -> <<"EXIT_ROUNDABOUT", modifierFromBearings(before, after)>>
      [] sign \in {-7, 7} -> <<"FORK", Side(sign < 0, "SLIGHT_LEFT", "SLIGHT_RIGHT")>>
      [] OTHER -> <<"UNKNOWN", "NONE">>

-----------------------------------------------------------------------------
(* Answers.                                                                *)

\* The interval of an instruction counts points from 0.
validInstruction(instruction, points) ==
    /\ instruction.interval[1] \in 0..instruction.interval[2]
    /\ instruction.interval[2] < Len(points)

parseInstruction(instruction, isFirst, points) ==
    LET start == instruction.interval[1]
        before == bearingBeforeIndex(points, start)
        after == bearingAfterIndex(points, start)
        manoeuvre == mapManoeuvre(instruction.sign, isFirst, before, after)
    IN  [type |-> manoeuvre[1], modifier |-> manoeuvre[2],
         bearingBefore |-> before,
         bearingAfter |-> IF manoeuvre[1] = "ARRIVE" THEN NoBearing ELSE after,
         geometryStartIndex |-> start,
         geometryEndIndex |-> instruction.interval[2]]

\* The steps follow the geometry from its first to its last point, and only
\* the last of them arrives (the first is not looked at).
validSteps(steps, points) ==
    /\ steps[1].geometryStartIndex = 0
    /\ Last(steps).geometryStartIndex = Len(points) - 1
    /\ Last(steps).geometryEndIndex = Len(points) - 1
    /\ Last(steps).type = "ARRIVE"
    /\ \A i \in 2..Len(steps) :
          /\ steps[i].geometryStartIndex = steps[i - 1].geometryEndIndex
          /\ i < Len(steps) => steps[i].type # "ARRIVE"

StepsOf(path) ==
    [i \in DOMAIN path.instructions |->
        parseInstruction(path.instructions[i], i = 1, path.points)]

validPath(path) ==
    /\ path.distance > 0 /\ path.time > 0
    /\ Len(path.points) \in 2..MAX_GEOMETRY_POINTS
    /\ \A p \in ToSet(path.points) : p[1] \in -180..180 /\ p[2] \in -90..90
    /\ Len(path.instructions) \in 2..MAX_NAVIGATION_STEPS
    /\ \A i \in DOMAIN path.instructions : validInstruction(path.instructions[i], path.points)
    /\ validSteps(StepsOf(path), path.points)

\* Distances in meters, rounded; times from milliseconds, rounded up.
parsePath(path) ==
    [coordinates |-> path.points,
     distanceMeters |-> Max({1, path.distance}),
     durationSeconds |-> Max({1, (path.time + 999) \div 1000}),
     steps |-> StepsOf(path)]

\* Of routes with the same geometry the first is kept.
deduplicateRoutes(routes) ==
    FoldLeft(LAMBDA kept, route :
                 IF \E i \in DOMAIN kept : kept[i].coordinates = route.coordinates
                 THEN kept
                 ELSE Append(kept, route),
             << >>, routes)

hasAcceptableEndpointSnapping(route, request) ==
    /\ SegmentLength(route.coordinates[1], request.origin)
           <= MAX_ENDPOINT_SNAP_DISTANCE_METERS
    /\ SegmentLength(Last(route.coordinates), request.destination)
           <= MAX_ENDPOINT_SNAP_DISTANCE_METERS

Take(seq, n) == SubSeq(seq, 1, Min({n, Len(seq)}))

classifyHttpFailure(status, missingRoute) ==
    CASE status \in {400, 404} /\ missingRoute -> "NO_ROUTE"
      [] status >= 500 -> "UNAVAILABLE"
      [] OTHER -> "INVALID_RESPONSE"

RoutingError(kind) == [error |-> kind, routes |-> << >>]

\* preview: an error, or at least one route and at most one more than the
\* alternatives asked for.
preview(request, answer) ==
    CASE answer.kind = "abort" -> RoutingError("TIMEOUT")
      [] answer.kind = "network" -> RoutingError("UNAVAILABLE")
      [] answer.kind = "garbled" -> RoutingError("INVALID_RESPONSE")
      [] answer.kind = "http" ->
             RoutingError(classifyHttpFailure(answer.status, answer.missingRoute))
      [] answer.kind = "paths" ->
             IF answer.paths = << >> THEN RoutingError("NO_ROUTE")
             ELSE IF \E i \in DOMAIN answer.paths : ~validPath(answer.paths[i])
             THEN RoutingError("INVALID_RESPONSE")
             ELSE LET unique == deduplicateRoutes([i \in DOMAIN answer.paths |->
                                                      parsePath(answer.paths[i])])
                      near == SelectSeq(unique, LAMBDA route :
                                  hasAcceptableEndpointSnapping(route, request))
                  IN  IF near = << >> THEN RoutingError("NO_ROUTE")
                      ELSE [error |-> "none",
                            routes |-> Take(near, request.alternatives + 1)]

\* The rules sent to the engine: the hazards that cost something, in order.
buildCustomModel(hazards) ==
    LET penalized == SelectSeq(hazards, LAMBDA h : h.routingMultiplier < 100)
    IN  [i \in DOMAIN penalized |->
            [in |-> penalized[i].id, multiply_by |-> penalized[i].routingMultiplier]]
=============================================================================
