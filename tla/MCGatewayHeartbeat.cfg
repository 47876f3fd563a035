CONSTANTS
    NULL = NULL
    r1 = r1
    r2 = r2
    r3 = r3
    m1 = m1
    m2 = m2
    g1 = g1
    g2 = g2
    Requests = {r1, r2, r3}
    Macs = {m1, m2}
    GatewayIds = {g1, g2}
    Intervals = {1}
    Retention = 1
    MaxTime = 3
    GatewaysWait = TRUE
SYMMETRY Symmetry
SPECIFICATION Spec
INVARIANTS OneMacPerGatewayId SamplesMatchAccepted ToldIsAccepted LatestStored
\* Every request is over and time has stopped: nothing is left to do.
CHECK_DEADLOCK FALSE
