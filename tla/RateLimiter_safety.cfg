\* Two users, four requests on one route, a limit of two; three ticks to a second,
\* so that TTL rounds both ways.  One restart of Redis, one handler that dies.
SPECIFICATION Spec
CONSTANTS
    Requests = {r1, r2, r3, r4}
    Users = {u1, u2}
    Scopes = {"resume_match"}
    MaxRequests = 2
    WindowSeconds = 2
    TicksPerSecond = 3
    MaxRestarts = 1
    MaxCrashes = 1
SYMMETRY Symmetry
INVARIANTS
    TypeOK
    AdmittedPerWindow
    LimitExact
    RetryAfterHonest
    ResetPending
PROPERTIES
    DeadlineStable
    WindowsSpaced
    ImplementsFixedWindow
