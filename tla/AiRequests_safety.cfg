\* Two requests on any route, of one user or two, that share one connection, and one
\* request per window.
SPECIFICATION FairSpec
CONSTANTS
    Requests = {r1, r2}
    Users = {u1, u2}
    Pool = 1
    MaxRequests = 1
    HasKey = TRUE
    None = None
    MaxWindows = 2
    MaxRestarts = 1
CHECK_DEADLOCK FALSE
INVARIANTS
    TypeOK
    PoolAccounted
    OutcomesExplained
    CostBounded
PROPERTY EveryoneAnswered
