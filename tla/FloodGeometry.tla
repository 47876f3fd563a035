---------------------------- MODULE FloodGeometry ----------------------------
(***************************************************************************)
(* The geometry of flood hazards: which polygons are accepted, and which   *)
(* points and routes are found to lie in one.                              *)
(*                                                                         *)
(*   src/src/flood/geometry/flood-geometry.validator.ts                    *)
(*   src/src/flood/geometry/route-flood-evaluator.ts                       *)
(*                                                                         *)
(* Positions are integer points of the plane, <<longitude, latitude>>, so  *)
(* that every comparison is exact; a ring repeats its first position at    *)
(* the end.  The length of a segment stands for its haversine distance.    *)
(***************************************************************************)
EXTENDS Integers, Sequences, FiniteSets, SequencesExt, FiniteSetsExt

MIN_RING_POINTS == 4

Edges(ring) == 1..Len(ring) - 1

-----------------------------------------------------------------------------
(* Validation.                                                             *)

signedRingArea(ring) ==
    MapThenSumSet(LAMBDA i : ring[i][1] * ring[i + 1][2] - ring[i + 1][1] * ring[i][2],
                  Edges(ring))

orientation(first, second, third) ==
    LET cross == (second[1] - first[1]) * (third[2] - first[2])
                 - (second[2] - first[2]) * (third[1] - first[1])
    IN  IF cross = 0 THEN 0 ELSE IF cross > 0 THEN 1 ELSE -1

\* Only for a point on the segment's line.
pointOnSegment(point, start, end) ==
    \A axis \in 1..2 :
        /\ point[axis] >= Min({start[axis], end[axis]})
        /\ point[axis] <= Max({start[axis], end[axis]})

\* Mutant: segments that only touch are missed.
segmentsTouchOrIntersectProperly(a, b, c, d) ==
    /\ orientation(a, b, c) * orientation(a, b, d) < 0
    /\ orientation(c, d, a) * orientation(c, d, b) < 0

segmentsTouchOrIntersect(a, b, c, d) ==
    LET o1 == orientation(a, b, c)
        o2 == orientation(a, b, d)
        o3 == orientation(c, d, a)
        o4 == orientation(c, d, b)
    IN  \/ o1 # o2 /\ o3 # o4
        \/ o1 = 0 /\ pointOnSegment(c, a, b)
        \/ o2 = 0 /\ pointOnSegment(d, a, b)
        \/ o3 = 0 /\ pointOnSegment(a, c, d)
        \/ o4 = 0 /\ pointOnSegment(b, c, d)

\* Adjacent edges are not compared.
ringHasSelfIntersection(ring) ==
    \E first, second \in Edges(ring) :
        /\ second > first + 1
        /\ ~(first = 1 /\ second = Len(ring) - 1)
        /\ segmentsTouchOrIntersect(ring[first], ring[first + 1],
                                    ring[second], ring[second + 1])

validRing(ring) ==
    /\ Len(ring) >= MIN_RING_POINTS
    /\ \A p \in ToSet(ring) : p[1] \in -180..180 /\ p[2] \in -90..90
    /\ ring[1] = Last(ring)
    /\ Cardinality(ToSet(ring)) >= 3
    /\ \A i \in Edges(ring) : ring[i] # ring[i + 1]
    /\ ~ringHasSelfIntersection(ring)
    /\ signedRingArea(ring) # 0

validateGeoJsonPolygon(rings, maxPolygonVertices) ==
    /\ rings # << >>
    /\ \A i \in DOMAIN rings : validRing(rings[i])
    /\ MapThenSumSet(LAMBDA i : Len(rings[i]), DOMAIN rings) <= maxPolygonVertices

-----------------------------------------------------------------------------
(* Points and routes.                                                      *)

\* Mutant: an edge is crossed at both of its ends.
CrossedByRayTwice(point, a, b) ==
    /\ (a[2] >= point[2]) # (b[2] > point[2])
    /\ LET dy == b[2] - a[2]
           side == (point[1] - a[1]) * dy - (b[1] - a[1]) * (point[2] - a[2])
       IN  IF dy > 0 THEN side < 0 ELSE side > 0

\* The edge is crossed by the ray to the right of the point.  The tiny term in
\* the code's divisor decides only for a point on the edge.
CrossedByRay(point, a, b) ==
    /\ (a[2] > point[2]) # (b[2] > point[2])
    /\ LET dy == b[2] - a[2]
           shift == (b[1] - a[1]) * (point[2] - a[2])
           side == (point[1] - a[1]) * dy - shift
       IN  \/ IF dy > 0 THEN side < 0 ELSE side > 0
           \/ side = 0 /\ shift < 0

isPointInRing(point, ring) ==
    Cardinality({i \in Edges(ring) : CrossedByRay(point, ring[i + 1], ring[i])}) % 2 = 1

\* In the outer ring and in no hole.
isPointInsidePolygon(point, rings) ==
    /\ rings # << >>
    /\ isPointInRing(point, rings[1])
    /\ \A i \in 2..Len(rings) : ~isPointInRing(point, rings[i])

ccw(a, b, c) == (c[2] - a[2]) * (b[1] - a[1]) > (b[2] - a[2]) * (c[1] - a[1])

segmentsIntersect(p1, p2, q1, q2) ==
    /\ ccw(p1, q1, q2) # ccw(p2, q1, q2)
    /\ ccw(p1, p2, q1) # ccw(p1, p2, q2)

segmentCrossesPolygon(p1, p2, rings) ==
    \E r \in DOMAIN rings : \E i \in Edges(rings[r]) :
        segmentsIntersect(p1, p2, rings[r][i], rings[r][i + 1])

SegmentLength(p1, p2) ==
    LET dx == p2[1] - p1[1]
        dy == p2[2] - p1[2]
    IN  Max({dx, -dx}) + Max({dy, -dy})

\* calculateRoutePolygonOverlapMeters, doubled: the whole of a segment between
\* two points inside, half of one that has one point inside or crosses.
Overlap(coordinates, rings) ==
    MapThenSumSet(
        LAMBDA i :
            LET p1 == coordinates[i]
                p2 == coordinates[i + 1]
                in1 == isPointInsidePolygon(p1, rings)
                in2 == isPointInsidePolygon(p2, rings)
            IN  SegmentLength(p1, p2) *
                    CASE in1 /\ in2 -> 2
                      [] in1 \/ in2 \/ segmentCrossesPolygon(p1, p2, rings) -> 1
                      [] OTHER -> 0,
        1..Len(coordinates) - 1)

-----------------------------------------------------------------------------
(* Reference definitions, independent of the algorithms above.             *)

Scaled(p, n) == <<p[1] * n, p[2] * n>>

\* The k-th of n steps from p to q, all coordinates scaled by n.
Step(p, q, k, n) == <<p[1] * n + k * (q[1] - p[1]), p[2] * n + k * (q[2] - p[2])>>

OnSegment(p, a, b) == orientation(a, b, p) = 0 /\ pointOnSegment(p, a, b)

\* Do two segments share a point?  Where directions have coordinates of at
\* most 2 they meet at a 120th of their length, if they meet in one point.
ShareAPoint(a, b, c, d) ==
    \E k \in 0..120 : OnSegment(Step(a, b, k, 120), Scaled(c, 120), Scaled(d, 120))

\* Edges meet only where one ends and the next begins.
Simple(ring) ==
    \A i, j \in Edges(ring) : i < j =>
        IF j = i + 1 THEN ~OnSegment(ring[i], ring[j], ring[j + 1])
                          /\ ~OnSegment(ring[j + 1], ring[i], ring[j])
        ELSE IF i = 1 /\ j = Len(ring) - 1
             THEN ~OnSegment(ring[2], ring[j], ring[1]) /\ ~OnSegment(ring[j], ring[1], ring[2])
        ELSE ~ShareAPoint(ring[i], ring[i + 1], ring[j], ring[j + 1])

InTriangle(p, a, b, c) ==
    LET o == orientation(a, b, c)
    IN  /\ o # 0
        /\ orientation(a, b, p) = o /\ orientation(b, c, p) = o /\ orientation(c, a, p) = o

\* Strictly inside: in an odd number of the triangles a ring is made of.
Inside(p, ring) ==
    Cardinality({i \in 2..Len(ring) - 2 : InTriangle(p, ring[1], ring[i], ring[i + 1])}) % 2 = 1

\* Not on an edge or a line that cuts the ring into triangles.
InGeneralPosition(p, ring) ==
    /\ \A i \in 2..Len(ring) - 1 : orientation(ring[1], ring[i], p) # 0
    /\ \A i \in Edges(ring) : ~OnSegment(p, ring[i], ring[i + 1])
=============================================================================
