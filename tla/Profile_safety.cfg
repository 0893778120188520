\* Three requests of one user, of any kind.
SPECIFICATION ResumeSpec
CONSTANTS
    Calls = {r1, r2, r3}
    Uploads <- MCUploads
    Null = "null"
SYMMETRY Symmetry
CHECK_DEADLOCK FALSE
INVARIANTS
    WholeUnlessShared
