\* Two users and ranges, with failures, restarts and racing fills.  No symmetry:
\* EventuallyFresh is a liveness property.
SPECIFICATION FairSpec
CONSTANTS
    Requests = {r1, r2, r3}
    Users = {u1, u2}
    Ranges = {d7, d30}
    Miss = Miss
INVARIANTS
    SurvivorsStoredLater
    StaleExplained
PROPERTY EventuallyFresh
