CONSTANTS
    NULL = NULL
    r1 = r1
    r2 = r2
    r3 = r3
    m1 = m1
    m2 = m2
    g1 = g1
    g2 = g2
    Requests = {r1, r2}
    Macs = {m1, m2}
    GatewayIds = {g1, g2}
    Intervals = {1}
    Retention = 1
    MaxTime = 1
    GatewaysWait = FALSE
SYMMETRY Symmetry
SPECIFICATION Spec
INVARIANTS LatestStored
CHECK_DEADLOCK FALSE
