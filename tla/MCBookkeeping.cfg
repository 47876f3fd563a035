CONSTANTS
    k1 = k1
    k2 = k2
    k3 = k3
    c1 = c1
    c2 = c2
    r1 = r1
    r2 = r2
    f1 = f1
    f2 = f2
    Requests = {r1, r2}
    Clients = {c1, c2}
    Passwords = {TRUE, FALSE}
    WINDOW_MS = 4
    CLIENT_FAILURE_LIMIT = 2
    GLOBAL_FAILURE_LIMIT = 2
    CLIENT_BLOCK_MS = 4
    GLOBAL_BLOCK_MS = 5
    maximumClients = 1
    idleMs = 3
    absoluteMs = 6
    refreshMs = 2
    MaxTime = 9
    MaxLogins = 6
    MaxRestarts = 1
    MaxSessions = 1
    MaxHash = 1
    MaxAge = 2
SYMMETRY Symmetry
SPECIFICATION BookkeepingSpec
INVARIANTS
    RecentlyUsedSurvives
    GuessesAreLimited
    CountsConserved
    SummaryIsTruthful
PROPERTIES SessionsLastAsPromised
\* Bounds stop the logins and the records.
CHECK_DEADLOCK FALSE
