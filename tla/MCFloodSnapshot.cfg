CONSTANTS
    NULL = NULL
    n1 = n1
    n2 = n2
    r1 = r1
    r2 = r2
    Nodes = {n1, n2}
    Requests = {r1}
    Readings <- SnapshotReadings
    Configs <- TwoConfigs
    InitialDeployments <- DeployedFirst
    MaxTime = 2
    MaxRows = 1
    MaxVersion = 2
SPECIFICATION SnapshotSpec
INVARIANTS SameIdSameHazards ValidWhileUnchanged
