\* The same property when one handler may die between INCR and EXPIRE.
SPECIFICATION FairSpec
CONSTANTS
    Requests = {r1, r2}
    Users = {u1}
    Scopes = {"resume_match"}
    MaxRequests = 1
    WindowSeconds = 2
    TicksPerSecond = 1
    MaxRestarts = 0
    MaxCrashes = 1
PROPERTY WindowsReset
