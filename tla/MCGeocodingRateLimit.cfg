CONSTANTS
    Clients = {c1, c2, c3}
    limit = 2
    windowMs = 2
    maximumBuckets = 2
    MaxTime = 5
SYMMETRY Symmetry
SPECIFICATION Spec
INVARIANTS RateIsLimited
