CONSTANTS
    NULL = NULL
    Ids = {i1, i2}
    Levels = {"HIGH"}
    Contents = {x, y}
    maxActiveHazards = 3
    PresetLifetime = 2
    MaxTime = 3
    MaxVersion = 3
    MaxInstance = 1
SPECIFICATION RoutesSpec
INVARIANTS
    WithinLimit
    SameIdSameHazards
    ValidWhileUnchanged
    AnswersAvoidBlockedAreas
    RecommendedIsSafest
    FloodIsTheReason
    StepsFollowTheRoute
    AcceptedIffSimple
    FloodedStretchesAreSeen
\* A preview and a polygon are judged once; changes are bounded.
CHECK_DEADLOCK FALSE
