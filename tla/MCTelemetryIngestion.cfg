CONSTANTS
    NULL = NULL
    n1 = n1
    n2 = n2
    g1 = g1
    g2 = g2
    a1 = a1
    a2 = a2
    a3 = a3
    Attempts = {a1, a2, a3}
    Gateways = {g1, g2}
    Batches <- MCBatches
    MaximumBatchSize = 2
SYMMETRY Symmetry
SPECIFICATION Spec
INVARIANTS OneGatewayNeverDeadlocks
PROPERTIES AtomicDelivery
\* Every attempt is over: nothing is left to do.
CHECK_DEADLOCK FALSE
