------------------------------- MODULE MCRoutes -------------------------------
(***************************************************************************)
(* What routes are planned around: the hazards that administrators keep in *)
(* memory, the geometry that polygons and routes are judged by, and a      *)
(* route preview against changing hazards.  They have no state in common,  *)
(* so a behaviour is about one of them, the subject.                       *)
(***************************************************************************)
EXTENDS InMemoryFloodHazards, Integers, SequencesExt

VARIABLES
    subject,                \* "memory", "preview" or "polygon"
    hazards, req, changes,  \* of RoutePreview
    ring, verdict           \* of HazardGeometry

\* Areas have corners at even, routes points at odd coordinates.
Box(x1, y1, x2, y2) ==
    <<<<x1, y1>>, <<x2, y1>>, <<x2, y2>>, <<x1, y2>>, <<x1, y1>>>>
Area(name, level, multiplier, until, rings) ==
    [id |-> name, level |-> level, routingMultiplier |-> multiplier,
     confidence |-> 90, validUntil |-> until, rings |-> rings]

\* Across the direct way; to the south of it; around a hole the direct way ends
\* in; at the origin; a wide area of which nothing is known.
wall == Area("wall", "BLOCKED", 0, 5, <<Box(2, 0, 4, 2)>>)
shallow == Area("shallow", "MEDIUM", 35, 3, <<Reverse(Box(2, -2, 4, 0))>>)
moat == Area("moat", "HIGH", 0, 4, <<Box(4, -2, 10, 4), Box(6, 0, 8, 2)>>)
source == Area("source", "BLOCKED", 0, 4, <<Box(0, 0, 2, 2)>>)
wide == Area("wide", "UNKNOWN", 100, 0, <<Box(0, -4, 8, 6)>>)

MCHazardLists ==
    {<<>>, <<wall>>, <<shallow>>, <<wall, shallow>>, <<moat, wide>>, <<source>>,
     <<wide, wall>>}

MCInputs ==
    {[origin |-> <<1, 1>>, destination |-> d, alternatives |-> n] :
        d \in {<<7, 1>>, <<1, 1>>}, n \in 0..1}

Way(points, time, exit) ==
    [points |-> points, distance |-> 10 * Len(points), time |-> time,
     instructions |->
        <<[sign |-> 0, interval |-> <<0, 1>>]>>
        \o (IF Len(points) = 2 THEN <<>>
            ELSE <<[sign |-> exit, interval |-> <<1, Len(points) - 1>>]>>)
        \o <<[sign |-> 4, interval |-> <<Len(points) - 1, Len(points) - 1>>]>>]

direct == Way(<<<<1, 1>>, <<7, 1>>>>, 3999, 0)
south == Way(<<<<1, 1>>, <<1, -1>>, <<5, -1>>, <<7, 1>>>>, 3500, -6)
north == Way(<<<<1, 1>>, <<1, 3>>, <<5, 3>>, <<7, 1>>>>, 3001, -6)
west == Way(<<<<1, 1>>, <<-1, 3>>, <<-1, 5>>, <<7, 5>>, <<7, 1>>>>, 2900, -6)
away == Way(<<<<1, 1>>, <<1, 3>>>>, 900, 0)
gap == [north EXCEPT !.instructions[2].interval = <<2, 3>>]

Paths(seq) == [kind |-> "paths", paths |-> seq]
MCAnswers ==
    {Paths(seq) : seq \in {<<>>, <<direct>>, <<south>>, <<away>>, <<gap>>, <<direct, south>>,
                           <<direct, north>>, <<south, south, north>>, <<west, direct>>,
                           <<away, north, west>>}}
    \union {[kind |-> k] : k \in {"abort", "network", "garbled"}}
    \union {[kind |-> "http", status |-> s, missingRoute |-> b] :
               s \in {400, 429, 503}, b \in BOOLEAN}

MCIdRank ==
    LET ways == <<west, direct, north, away, south>>
    IN  [points \in {ways[i].points : i \in DOMAIN ways} |->
            CHOOSE i \in DOMAIN ways : ways[i].points = points]

Preview == INSTANCE RoutePreview WITH
    MAX_ENDPOINT_SNAP_DISTANCE_METERS <- 2, MAX_GEOMETRY_POINTS <- 5,
    HazardLists <- MCHazardLists, Inputs <- MCInputs, Answers <- MCAnswers,
    IdRank <- MCIdRank, MaxChanges <- 2

Polygon == INSTANCE HazardGeometry WITH
    Grid <- {0, 2, 4} \X {0, 2, 4},
    Probes <- {<<-1, 2>>, <<1, 3>>, <<3, 1>>, <<5, 2>>, <<1, -1>>, <<2, 5>>},
    Levels <- {"MEDIUM", "EXTREME"}, Multipliers <- {1000, 50}, Confidences <- {90},
    Lifetimes <- {0, 1}, maxPolygonVertices <- 5, MaxPoints <- 5

\* The hazards in memory have the constants of the configuration: two ids, one
\* preset and room for three active hazards.  The limit binds both an added
\* hazard and the preset's pair, and hazards expire one by one or together
\* between the changes.
RoutesInit ==
    /\ Init /\ Preview!Init /\ Polygon!Init
    /\ subject \in {"memory", "preview", "polygon"}
    /\ subject # "preview" => hazards = << >>

RoutesNext ==
    /\ UNCHANGED subject
    /\ \/ /\ subject = "memory" /\ Next
          /\ UNCHANGED <<hazards, req, changes, ring, verdict>>
       \/ /\ subject = "preview" /\ Preview!Next
          /\ UNCHANGED <<vars, ring, verdict>>
       \/ /\ subject = "polygon" /\ Polygon!Next
          /\ UNCHANGED <<vars, hazards, req, changes>>

RoutesSpec ==
    RoutesInit /\ [][RoutesNext]_<<subject, vars, hazards, req, changes, ring, verdict>>

-----------------------------------------------------------------------------
\* A route that is answered passes through no area that is blocked in the
\* snapshot the answer names.
AnswersAvoidBlockedAreas == Preview!AnswersAvoidBlockedAreas

\* The recommended route has the least penalty, and no open route is withheld.
RecommendedIsSafest == Preview!RecommendedIsSafest

\* A flood is named as the reason of a failure only if it is.
FloodIsTheReason == Preview!FloodIsTheReason

\* The steps of a route cover it without a gap and turn as it does.
StepsFollowTheRoute == Preview!StepsFollowTheRoute

\* A polygon is accepted only if it is closed and simple, and none of these is
\* refused for its shape.
AcceptedIffSimple == Polygon!AcceptedIffSimple

\* Points inside an accepted polygon, and stretches through it, are found.
FloodedStretchesAreSeen == Polygon!FloodedStretchesAreSeen
=============================================================================
