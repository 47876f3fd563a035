CONSTANTS
    NULL = NULL
    r1 = r1
    r2 = r2
    r3 = r3
    n1 = n1
    n2 = n2
    g1 = g1
    g2 = g2
    m1 = m1
    m2 = m2
    Instances = {"old", "new"}
    Names <- ReleaseNames
    MaxBoots = 2
SPECIFICATION WaitingSpec
INVARIANTS SchemaIsMigrated
PROPERTIES AttemptsEnd RequestsEnd RowsReachState CallsAreAnswered
\* A batch or a heartbeat that is over is not sent again; boots are bounded.
CHECK_DEADLOCK FALSE
