\* A job that two users may own, room for a scan and a reminder, three faults, so
\* that every try of both can be used up.  No symmetry: StaleReminded is a
\* liveness property.
SPECIFICATION FairSpec
CONSTANTS
    JobIds = {j1}
    Users = {u1, u2}
    TaskIds = {t1, t2}
    StaleDays = 1
    MaxTries = 2
    MaxFaults = 3
    MaxScans = 2
    MaxEmails = 5
    None = None
    Gone = Gone
    Free = Free
    Cron = Cron
INVARIANTS RemindersAddressed EmailsBounded
PROPERTY StaleReminded
