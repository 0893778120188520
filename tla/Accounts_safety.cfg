\* Three requests of any kind, two emails and two passwords.
SPECIFICATION Spec
CONSTANTS
    Requests = {r1, r2, r3}
    Emails = {e1, e2}
    Passwords = {p1, p2}
    UserIds = {i1, i2}
    ExpireTicks = 1
    None = None
SYMMETRY Symmetry
INVARIANTS
    OneAccountPerEmail
PROPERTY ActsAsOwner
