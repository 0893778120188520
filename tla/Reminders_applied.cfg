\* A job in status applied that has no applied_at.
SPECIFICATION FairSpec
CONSTANTS
    JobIds = {j1}
    Users = {u1}
    TaskIds = {t1, t2}
    StaleDays = 1
    MaxTries = 2
    MaxFaults = 0
    MaxScans = 1
    MaxEmails = 1
    None = None
    Gone = Gone
    Free = Free
    Cron = Cron
PROPERTY AppliedReminded
