CONSTANTS
    NULL = NULL
    n1 = n1
    r1 = r1
    r2 = r2
    Nodes = {n1}
    Requests = {r1, r2}
    Readings <- MCReadings
    Configs <- OneConfig
    InitialDeployments <- Undeployed
    MaxTime = 1
    MaxRows = 2
    MaxVersion = 1
SYMMETRY Symmetry
SPECIFICATION Spec
INVARIANTS CaughtUp
