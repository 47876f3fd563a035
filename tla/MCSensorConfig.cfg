CONSTANTS
    NULL = NULL
    n1 = n1
    r1 = r1
    r2 = r2
    Nodes = {n1}
    Requests = {r1, r2}
    Readings <- ConfigReadings
    Configs <- MCConfigs
    InitialDeployments <- Undeployed
    MaxTime = 2
    MaxRows = 2
    MaxVersion = 2
SYMMETRY Symmetry
SPECIFICATION Spec
INVARIANTS StateMatchesConfig LevelInBand FreshIsRecent
PROPERTIES VersionNamesConfig RecomputeIdempotent
